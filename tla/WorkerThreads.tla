---------------------------- MODULE WorkerThreads -----------------------------
(***************************************************************************)
(* The worker threads beside the main pipeline that take pictures or tasks *)
(* from a loop: previews, debug images, the recorder, and the pool with    *)
(* its ordered queue.  They belong to different programs and share no      *)
(* state; a behaviour of this module is one of any of them, and what is    *)
(* asked of all of them is stated once.                                    *)
(***************************************************************************)
EXTENDS Naturals

CONSTANTS
  MaxPictures,  (* bound: the pictures put into a slot                     *)
  MaxFrames,    (* bound: the frames recorded, or given to the pool        *)
  Workers       (* the threads of the pool                                 *)

ASSUME WorkerThreadsAssumption == MaxPictures \in Nat /\ MaxFrames \in Nat

VARIABLES
  part,  (* which of them runs; never changes                              *)
  p_running, p_slot, p_posted, p_worker, p_frame, p_converter, p_made,
  p_owner, p_subscribed, p_shown,
  d_stopping, d_slot, d_posted, d_worker, d_image, d_main, d_subscribed,
  r_recorded, r_queue, r_stop, r_saver, r_frame, r_video, r_text, r_main,
  f_read, f_tasks, f_stop, f_worker, f_frame, f_mainQueue, f_buffer,
  f_current, f_processed, f_lost, f_main

Previews == INSTANCE Preview WITH
  running <- p_running, slot <- p_slot, posted <- p_posted,
  worker <- p_worker, frame <- p_frame, converter <- p_converter,
  made <- p_made, owner <- p_owner, subscribed <- p_subscribed,
  shown <- p_shown

Images == INSTANCE DebugImages WITH
  stopping <- d_stopping, slot <- d_slot, posted <- d_posted,
  worker <- d_worker, image <- d_image, main <- d_main,
  subscribed <- d_subscribed

Records == INSTANCE Recorder WITH
  recorded <- r_recorded, queue <- r_queue, stop <- r_stop,
  saver <- r_saver, frame <- r_frame, video <- r_video, text <- r_text,
  main <- r_main

Pool == INSTANCE FramePool WITH
  read <- f_read, tasks <- f_tasks, stop <- f_stop, worker <- f_worker,
  frame <- f_frame, mainQueue <- f_mainQueue, buffer <- f_buffer,
  current <- f_current, processed <- f_processed, lost <- f_lost,
  main <- f_main

previewVars == <<p_running, p_slot, p_posted, p_worker, p_frame, p_converter,
                 p_made, p_owner, p_subscribed, p_shown>>
imageVars == <<d_stopping, d_slot, d_posted, d_worker, d_image, d_main,
               d_subscribed>>
recordVars == <<r_recorded, r_queue, r_stop, r_saver, r_frame, r_video, r_text,
                r_main>>
poolVars == <<f_read, f_tasks, f_stop, f_worker, f_frame, f_mainQueue, f_buffer,
              f_current, f_processed, f_lost, f_main>>
vars == <<part, previewVars, imageVars, recordVars, poolVars>>

-----------------------------------------------------------------------------
Init ==
  /\ part \in {"previews", "images", "records", "pool"}
  /\ Previews!Init /\ Images!Init /\ Records!Init /\ Pool!Init

Next ==
  /\ UNCHANGED part
  /\ \/ /\ part = "previews" /\ Previews!Next
        /\ UNCHANGED <<imageVars, recordVars, poolVars>>
     \/ /\ part = "images" /\ Images!Next
        /\ UNCHANGED <<previewVars, recordVars, poolVars>>
     \/ /\ part = "records" /\ Records!Next
        /\ UNCHANGED <<previewVars, imageVars, poolVars>>
     \/ /\ part = "pool" /\ Pool!Next
        /\ UNCHANGED <<previewVars, imageVars, recordVars>>

(* Who does not run has started no thread that would have to be fair.      *)
Fairness ==
  Previews!Fairness /\ Images!Fairness /\ Records!Fairness /\ Pool!Fairness

Spec == Init /\ [][Next]_vars /\ Fairness

-----------------------------------------------------------------------------
(* When stop() or a destructor has returned, no thread is left to use what *)
(* is freed next, and nothing waits that nobody will take                  *)
(* (CompressedImagePublisher::stop, ~AUVClient, ~Recorder, ~ThreadPool).   *)
NothingAfterStop ==
  /\ Previews!NothingAfterStop
  /\ Images!NothingAfterStop
  /\ Records!NothingAfterStop
  /\ Pool!NothingAfterStop

(* They do return, whatever the threads are doing when they are called: no *)
(* thread sleeps through the announcement, not even when the flag is       *)
(* raised without its mutex, or when the queue refuses the empty frame     *)
(* that is to wake it.                                                     *)
StopsReturn ==
  /\ Previews!StopReturns
  /\ Images!StopReturns
  /\ Records!StopReturns
  /\ Pool!StopReturns

(* The one-picture slots are mailboxes: the latest picture wins, it is     *)
(* taken even if no other follows, and nothing is taken once the box is    *)
(* closed (worker_loop and submit, debug_worker and publish_debug).        *)
ImplementMailbox == Previews!Mail!Spec /\ Images!Mail!Spec

(* Nothing is handed over twice or out of order: the recorder's frames and *)
(* the frames of the pool come out in the order in which they went in, and *)
(* video and text agree (OrderedQueue, save_to_file).                      *)
InOrder == Records!InOrder /\ Pool!InOrder

(* The last picture of a burst is shown to a subscriber that stays, and a  *)
(* frame given to the pool comes out unless one was lost before it.        *)
PicturesComeOut == Previews!PicturesAreShown /\ Pool!FramesComeOut
=============================================================================
