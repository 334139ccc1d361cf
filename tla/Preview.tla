------------------------------- MODULE Preview --------------------------------
(***************************************************************************)
(* The previews of rm_video: the conversion thread of the decoder makes a  *)
(* raw and a processed picture for whoever subscribes and leaves them in   *)
(* the slot of CompressedImagePublisher, whose worker compresses and       *)
(* publishes them.  The node stops the decoder first and the publisher     *)
(* then.  running_ is an atomic that is written without the mutex, and     *)
(* subscribers come and go between any two looks at them.                  *)
(*                                                                         *)
(* The mutex is held by the worker between two steps in the states of      *)
(* HoldsMutex; every other critical section is one step.                   *)
(***************************************************************************)
EXTENDS Naturals

CONSTANT MaxPictures  (* bound: the pictures put into the slot             *)

VARIABLES
  running,    (* running_                                                  *)
  slot,       (* pending_frame_: its number and the topics it is made for  *)
  posted,     (* pictures put into the slot                                *)
  worker,     (* worker_                                                   *)
  frame,      (* the picture the worker has moved out of the slot          *)
  converter,  (* the conversion thread of the decoder                      *)
  made,       (* the topics its picture is made for                        *)
  owner,      (* the thread that constructs and destroys the node          *)
  subscribed, (* topics somebody subscribes to                             *)
  shown       (* the number of the last picture published, by topic        *)

vars == <<running, slot, posted, worker, frame, converter, made, owner,
          subscribed, shown>>

Topics == {"raw", "processed"}
NoFrame == [number |-> 0, topics |-> {}]
HoldsMutex == {"checked", "test", "take"}
MutexFree == worker \notin HoldsMutex
Notify == worker' = IF worker = "asleep" THEN "lock" ELSE worker

-----------------------------------------------------------------------------
Init ==
  /\ running = FALSE
  /\ slot = NoFrame
  /\ posted = 0
  /\ worker = "absent"
  /\ frame = NoFrame
  /\ converter = "absent"
  /\ made = {}
  /\ owner = "construct"
  /\ subscribed = {}
  /\ shown = [topic \in Topics |-> 0]

(* The constructor of the node: start(), then the decoder with its thread. *)
Start ==
  /\ owner = "construct"
  /\ owner' = "started"
  /\ running' = TRUE
  /\ worker' = "lock"
  /\ UNCHANGED <<slot, posted, frame, converter, made, subscribed, shown>>

(* The decoder starts, or fails to and is destroyed with the publisher.    *)
StartDecoder ==
  /\ owner = "started"
  /\ \/ converter' = "idle" /\ owner' = "running"
     \/ owner' = "stop" /\ UNCHANGED converter
  /\ UNCHANGED <<running, slot, posted, worker, frame, made, subscribed, shown>>

(* Mutant: the publisher is stopped before the decoder.                    *)
StopDecoderLast ==
  /\ owner = "running"
  /\ owner' = "stop"
  /\ UNCHANGED <<running, slot, posted, worker, frame, converter, made,
                 subscribed, shown>>

(* ~RmVideoNode: stop() of the decoder joins its conversion thread.        *)
StopDecoder ==
  /\ owner = "running"
  /\ converter = "idle"
  /\ converter' = "done"
  /\ owner' = "stop"
  /\ UNCHANGED <<running, slot, posted, worker, frame, made, subscribed, shown>>

(* CompressedImagePublisher::stop                                          *)
StopRunning ==
  /\ owner = "stop"
  /\ running' = FALSE
  /\ owner' = "clear"
  /\ UNCHANGED <<slot, posted, worker, frame, converter, made, subscribed, shown>>

(* Mutant: the slot is emptied without the mutex.                          *)
StopClearUnlocked ==
  /\ owner = "clear"
  /\ slot' = NoFrame
  /\ owner' = "notify"
  /\ UNCHANGED <<running, posted, worker, frame, converter, made, subscribed,
                 shown>>

StopClear ==
  /\ owner = "clear"
  /\ MutexFree
  /\ slot' = NoFrame
  /\ owner' = "notify"
  /\ UNCHANGED <<running, posted, worker, frame, converter, made, subscribed,
                 shown>>

StopNotify ==
  /\ owner = "notify"
  /\ Notify
  /\ owner' = "join"
  /\ UNCHANGED <<running, slot, posted, frame, converter, made, subscribed, shown>>

StopJoin ==
  /\ owner = "join"
  /\ worker = "done"
  /\ owner' = "stopped"
  /\ UNCHANGED <<running, slot, posted, worker, frame, converter, made,
                 subscribed, shown>>

-----------------------------------------------------------------------------
(* publish_frame makes a picture for the topics that are wanted now.       *)
MakePicture ==
  /\ converter = "idle"
  /\ posted < MaxPictures
  /\ subscribed # {}
  /\ made' = subscribed
  /\ converter' = "submit"
  /\ UNCHANGED <<running, slot, posted, worker, frame, owner, subscribed, shown>>

(* submit() tests without the mutex whether there is anybody to submit to. *)
SubmitTest ==
  /\ converter = "submit"
  /\ converter' = IF running /\ subscribed # {} THEN "put" ELSE "idle"
  /\ UNCHANGED <<running, slot, posted, worker, frame, made, owner, subscribed,
                 shown>>

(* Mutant: a picture that still waits is not replaced.                     *)
SubmitPutKeepsOld ==
  /\ converter = "put"
  /\ MutexFree
  /\ posted' = posted + 1
  /\ slot' = IF slot = NoFrame THEN [number |-> posted', topics |-> made] ELSE slot
  /\ converter' = "notify"
  /\ UNCHANGED <<running, worker, frame, made, owner, subscribed, shown>>

SubmitPut ==
  /\ converter = "put"
  /\ MutexFree
  /\ posted' = posted + 1
  /\ slot' = [number |-> posted', topics |-> made]
  /\ converter' = "notify"
  /\ UNCHANGED <<running, worker, frame, made, owner, subscribed, shown>>

SubmitNotify ==
  /\ converter = "notify"
  /\ Notify
  /\ converter' = "idle"
  /\ UNCHANGED <<running, slot, posted, frame, made, owner, subscribed, shown>>

Converter == SubmitTest \/ SubmitPut \/ SubmitNotify

-----------------------------------------------------------------------------
(* worker_loop: the predicate of the wait, and the sleep.                  *)
WorkerCheck ==
  /\ worker = "lock"
  /\ worker' = IF running /\ slot = NoFrame THEN "checked" ELSE "test"
  /\ UNCHANGED <<running, slot, posted, frame, converter, made, owner,
                 subscribed, shown>>

WorkerSleeps ==
  /\ worker = "checked"
  /\ worker' = "asleep"
  /\ UNCHANGED <<running, slot, posted, frame, converter, made, owner,
                 subscribed, shown>>

(* running_ is loaded a second time, and the mutex is given up at the end. *)
WorkerTest ==
  /\ worker = "test"
  /\ worker' = IF running THEN "take" ELSE "done"
  /\ UNCHANGED <<running, slot, posted, frame, converter, made, owner,
                 subscribed, shown>>

WorkerTake ==
  /\ worker = "take"
  /\ frame' = slot
  /\ slot' = NoFrame
  /\ worker' = "publish"
  /\ UNCHANGED <<running, posted, converter, made, owner, subscribed, shown>>

(* Who wants a picture is asked again; encode_jpeg refuses a picture that  *)
(* was not made, and publish_image then publishes nothing.                 *)
WorkerPublish ==
  /\ worker = "publish"
  /\ shown' = [topic \in Topics |-> IF topic \in frame.topics \cap subscribed
                                    THEN frame.number ELSE shown[topic]]
  /\ frame' = [frame EXCEPT !.topics = {}]
  /\ worker' = "lock"
  /\ UNCHANGED <<running, slot, posted, converter, made, owner, subscribed>>

Worker ==
  WorkerCheck \/ WorkerSleeps \/ WorkerTest \/ WorkerTake \/ WorkerPublish

SpuriousWakeup ==
  /\ worker = "asleep"
  /\ Notify
  /\ UNCHANGED <<running, slot, posted, frame, converter, made, owner,
                 subscribed, shown>>

SubscribersChange ==
  /\ subscribed' \in SUBSET Topics \ {subscribed}
  /\ UNCHANGED <<running, slot, posted, worker, frame, converter, made, owner,
                 shown>>

Owner == StopRunning \/ StopClear \/ StopNotify \/ StopJoin

Next ==
  \/ Start \/ StartDecoder \/ StopDecoder \/ Owner
  \/ MakePicture \/ Converter
  \/ Worker \/ SpuriousWakeup
  \/ SubscribersChange

(* Threads are scheduled, and whoever waits for the mutex gets it.         *)
Fairness ==
  /\ WF_vars(Owner) /\ SF_vars(StopClear)
  /\ WF_vars(Converter) /\ SF_vars(SubmitPut)
  /\ WF_vars(Worker)

Spec == Init /\ [][Next]_vars /\ Fairness

-----------------------------------------------------------------------------
(* When the node is destroyed nobody uses its publishers any more, and no  *)
(* picture is left in the slot.                                            *)
NothingAfterStop ==
  owner = "stopped" =>
    slot = NoFrame /\ worker = "done" /\ converter \in {"absent", "done"}

StopReturns == owner = "stop" ~> owner = "stopped"

(* The last picture of a burst, or a later one, is shown to whoever wanted *)
(* it when it was made and wants it until then.                            *)
PicturesAreShown ==
  \A n \in 1..MaxPictures, topic \in Topics :
    converter = "idle" /\ slot.number = n /\ topic \in slot.topics
      ~> shown[topic] >= n \/ topic \notin subscribed \/ ~running

(* The picture the worker is committed to counts as taken from the moment  *)
(* it found running_ still set, even if stop() begins before it moved it.  *)
(* A box that was never opened is a box that was not closed.               *)
Committed == worker = "take"
Mail == INSTANCE Mailbox WITH
  open <- running \/ owner \in {"construct", "started", "running", "stop"},
  held <- IF Committed \/ ~running THEN 0 ELSE slot.number,
  worked <- IF Committed THEN slot.number ELSE frame.number
=============================================================================
