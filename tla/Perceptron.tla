------------------------------ MODULE Perceptron ------------------------------
(***************************************************************************)
(* omniperception::Perceptron: one thread for each camera around the robot *)
(* detects armours and queues what it found; the main loop empties the     *)
(* queue once per frame.  A thread of a camera that does not exist, or     *)
(* whose detector throws, ends.  A camera may stop to deliver images: then *)
(* read() waits.                                                           *)
(***************************************************************************)
EXTENDS Naturals, Sequences, ThreadSafeQueue

CONSTANTS
  Cameras,         (* the USB cameras, of which any may be null            *)
  PerceptronQueue  (* the 10 detections of detection_queue_                *)

VARIABLES
  delivers, (* the cameras that deliver images                             *)
  thread,   (* threads_: "test", "read", "infer" or "done"                 *)
  queue,    (* detection_queue_: the cameras of the detections             *)
  stopFlag, (* stop_flag_                                                  *)
  main      (* the main loop                                               *)

vars == <<delivers, thread, queue, stopFlag, main>>

-----------------------------------------------------------------------------
Init ==
  /\ delivers \in SUBSET Cameras
  /\ thread \in [Cameras -> {"test", "done"}]
  /\ queue = <<>>
  /\ stopFlag = FALSE
  /\ main = "loop"

(* parallel_infer                                                          *)
TestStop(camera) ==
  /\ thread[camera] = "test"
  /\ thread' = [thread EXCEPT ![camera] = IF stopFlag THEN "done" ELSE "read"]
  /\ UNCHANGED <<delivers, queue, stopFlag, main>>

(* An image may be empty.                                                  *)
Read(camera) ==
  /\ thread[camera] = "read"
  /\ camera \in delivers
  /\ \E next \in {"infer", "test"} : thread' = [thread EXCEPT ![camera] = next]
  /\ UNCHANGED <<delivers, queue, stopFlag, main>>

Infer(camera) ==
  /\ thread[camera] = "infer"
  /\ \/ /\ queue' \in {queue, Pushed(queue, camera, PerceptronQueue)}
        /\ thread' = [thread EXCEPT ![camera] = "test"]
     \/ /\ thread' = [thread EXCEPT ![camera] = "done"]
        /\ UNCHANGED queue
  /\ UNCHANGED <<delivers, stopFlag, main>>

Thread(camera) == TestStop(camera) \/ Read(camera) \/ Infer(camera)

-----------------------------------------------------------------------------
(* get_detection_queue: nobody else takes anything out between the test    *)
(* and pop().                                                              *)
TestEmpty ==
  /\ main = "loop"
  /\ main' = IF queue = <<>> THEN "loop" ELSE "pop"
  /\ UNCHANGED <<delivers, thread, queue, stopFlag>>

Pop ==
  /\ main = "pop"
  /\ CanPop(queue)
  /\ queue' = Popped(queue)
  /\ main' = "loop"
  /\ UNCHANGED <<delivers, thread, stopFlag>>

(* Mutant: the destructor joins without raising the flag.                  *)
StopUnflagged ==
  /\ main = "loop"
  /\ main' = "join"
  /\ UNCHANGED <<delivers, thread, queue, stopFlag>>

(* ~Perceptron                                                             *)
Stop ==
  /\ main = "loop"
  /\ stopFlag' = TRUE
  /\ main' = "join"
  /\ UNCHANGED <<delivers, thread, queue>>

Join ==
  /\ main = "join"
  /\ \A camera \in Cameras : thread[camera] = "done"
  /\ main' = "destroyed"
  /\ UNCHANGED <<delivers, thread, queue, stopFlag>>

(* A camera is lost, or back.                                              *)
CameraChanges ==
  /\ delivers' \in SUBSET Cameras
  /\ UNCHANGED <<thread, queue, stopFlag, main>>

Next ==
  \/ \E camera \in Cameras : Thread(camera)
  \/ TestEmpty \/ Pop \/ Stop \/ Join
  \/ CameraChanges

Fairness ==
  /\ \A camera \in Cameras : WF_vars(Thread(camera))
  /\ WF_vars(Pop) /\ WF_vars(Join)

Spec == Init /\ [][Next]_vars /\ Fairness

-----------------------------------------------------------------------------
(* When the destructor has returned, no thread uses a camera or a detector *)
(* any more.                                                               *)
NothingAfterStop ==
  main = "destroyed" => \A camera \in Cameras : thread[camera] = "done"

(* The main loop never waits for a detection: pop(), which does wait, is   *)
(* only called when there is one (the comment in get_detection_queue).     *)
(* And the destructor returns if the cameras go on to deliver images.      *)
StopReturns ==
  /\ main = "pop" ~> main = "loop"
  /\ <>[](delivers = Cameras) => (main = "join" ~> main = "destroyed")
=============================================================================
