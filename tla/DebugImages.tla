----------------------------- MODULE DebugImages ------------------------------
(***************************************************************************)
(* The debug images of custom_client: the main loop leaves an image in the *)
(* slot of AUVClient, whose debug worker compresses and publishes it.      *)
(* Unlike the previews of rm_video, the flag that ends the worker is only  *)
(* touched under the mutex, and the main loop itself destroys the client.  *)
(*                                                                         *)
(* A worker in state "checked" holds the mutex; every other critical       *)
(* section is one step.                                                    *)
(***************************************************************************)
EXTENDS Naturals

CONSTANT MaxPictures  (* bound: the images put into the slot               *)

VARIABLES
  stopping,   (* debug_stopping_                                           *)
  slot,       (* pending_debug_frame_, 0 if it is empty                    *)
  posted,     (* images put into the slot, numbered from 1                 *)
  worker,     (* debug_thread_                                             *)
  image,      (* the number of the image the worker has moved out          *)
  main,       (* the main thread                                           *)
  subscribed  (* has_debug_subscribers()                                   *)

vars == <<stopping, slot, posted, worker, image, main, subscribed>>

MutexFree == worker # "checked"
Notify == worker' = IF worker = "asleep" THEN "lock" ELSE worker

-----------------------------------------------------------------------------
Init ==
  /\ stopping = FALSE
  /\ slot = 0
  /\ posted = 0
  /\ worker = "absent"
  /\ image = 0
  /\ main = "construct"
  /\ subscribed = FALSE

(* The constructor creates the worker last; without it it cleans up and    *)
(* throws.                                                                 *)
Construct ==
  /\ main = "construct"
  /\ \/ worker' = "lock" /\ main' = "loop" /\ UNCHANGED stopping
     \/ stopping' = TRUE /\ main' = "stopped" /\ UNCHANGED worker
  /\ UNCHANGED <<slot, posted, image, subscribed>>

(* debug_publish_ready, the drawing, and the first test of publish_debug.  *)
DrawImage ==
  /\ main = "loop"
  /\ posted < MaxPictures
  /\ subscribed
  /\ ~stopping
  /\ main' = "put"
  /\ UNCHANGED <<stopping, slot, posted, worker, image, subscribed>>

PublishPut ==
  /\ main = "put"
  /\ MutexFree
  /\ ~stopping
  /\ posted' = posted + 1
  /\ slot' = posted'
  /\ main' = "notify"
  /\ UNCHANGED <<stopping, worker, image, subscribed>>

PublishNotify ==
  /\ main = "notify"
  /\ Notify
  /\ main' = "loop"
  /\ UNCHANGED <<stopping, slot, posted, image, subscribed>>

(* ~AUVClient, as far as the worker is concerned.                          *)
StopFlag ==
  /\ main = "loop"
  /\ MutexFree
  /\ stopping' = TRUE
  /\ slot' = 0
  /\ main' = "stop_notify"
  /\ UNCHANGED <<posted, worker, image, subscribed>>

StopNotify ==
  /\ main = "stop_notify"
  /\ Notify
  /\ main' = "join"
  /\ UNCHANGED <<stopping, slot, posted, image, subscribed>>

StopJoin ==
  /\ main = "join"
  /\ worker = "done"
  /\ main' = "stopped"
  /\ UNCHANGED <<stopping, slot, posted, worker, image, subscribed>>

-----------------------------------------------------------------------------
(* debug_worker                                                            *)
WorkerCheck ==
  /\ worker = "lock"
  /\ \/ /\ stopping
        /\ worker' = "done"
        /\ UNCHANGED <<slot, image>>
     \/ /\ ~stopping
        /\ slot # 0
        /\ image' = slot
        /\ slot' = 0
        /\ worker' = "encode"
     \/ /\ ~stopping
        /\ slot = 0
        /\ worker' = "checked"
        /\ UNCHANGED <<slot, image>>
  /\ UNCHANGED <<stopping, posted, main, subscribed>>

WorkerSleeps ==
  /\ worker = "checked"
  /\ worker' = "asleep"
  /\ UNCHANGED <<stopping, slot, posted, image, main, subscribed>>

(* The image is compressed and published, unless nobody wants it any more  *)
(* or it cannot be compressed.                                             *)
WorkerPublish ==
  /\ worker = "encode"
  /\ worker' = "lock"
  /\ UNCHANGED <<stopping, slot, posted, image, main, subscribed>>

Worker == WorkerCheck \/ WorkerSleeps \/ WorkerPublish

SpuriousWakeup ==
  /\ worker = "asleep"
  /\ Notify
  /\ UNCHANGED <<stopping, slot, posted, image, main, subscribed>>

SubscribersChange ==
  /\ subscribed' = ~subscribed
  /\ UNCHANGED <<stopping, slot, posted, worker, image, main>>

Main == PublishPut \/ PublishNotify \/ StopNotify \/ StopJoin

Next ==
  \/ Construct \/ DrawImage \/ Main \/ StopFlag
  \/ Worker \/ SpuriousWakeup
  \/ SubscribersChange

(* Threads are scheduled and get the mutex; nobody has to end the loop.    *)
Fairness == WF_vars(Main) /\ SF_vars(PublishPut) /\ WF_vars(Worker)

Spec == Init /\ [][Next]_vars /\ Fairness

-----------------------------------------------------------------------------
(* When the client is destroyed the worker has ended, and no image is left *)
(* in the slot.                                                            *)
NothingAfterStop ==
  main = "stopped" => slot = 0 /\ worker \in {"absent", "done"}

StopReturns == main = "stop_notify" ~> main = "stopped"

Mail == INSTANCE Mailbox WITH open <- ~stopping, held <- slot, worked <- image
=============================================================================
