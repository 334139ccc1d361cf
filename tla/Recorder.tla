------------------------------- MODULE Recorder -------------------------------
(***************************************************************************)
(* tools::Recorder: the main loop records frames through a queue of one,   *)
(* and a thread saves each of them twice, as a picture of a video and as a *)
(* line of a text file.  The destructor raises a flag and pushes an empty  *)
(* frame, in case the thread waits for one.                                *)
(***************************************************************************)
EXTENDS Naturals, Sequences, ThreadSafeQueue

CONSTANT MaxFrames  (* bound: the frames recorded                          *)

VARIABLES
  recorded, (* frames the main loop has recorded, numbered from 1          *)
  queue,    (* queue_; the empty frame is 0                                *)
  stop,     (* stop_thread_                                                *)
  saver,    (* saving_thread_                                              *)
  frame,    (* the frame it has taken                                      *)
  video,    (* the pictures of the video                                   *)
  text,     (* the lines of the text file                                  *)
  main      (* the main thread                                             *)

vars == <<recorded, queue, stop, saver, frame, video, text, main>>

EmptyFrame == 0
MaxSize == 1

-----------------------------------------------------------------------------
Init ==
  /\ recorded = 0
  /\ queue = <<>>
  /\ stop = FALSE
  /\ saver = "absent"
  /\ frame = EmptyFrame
  /\ video = <<>>
  /\ text = <<>>
  /\ main = "loop"

(* record(): the first frame starts the thread.  A frame that is empty or  *)
(* comes too soon is ignored, which is no step at all.                     *)
Record ==
  /\ main = "loop"
  /\ recorded < MaxFrames
  /\ recorded' = recorded + 1
  /\ queue' = Pushed(queue, recorded', MaxSize)
  /\ saver' = IF saver = "absent" THEN "test" ELSE saver
  /\ UNCHANGED <<stop, frame, video, text, main>>

(* ~Recorder                                                               *)
StopFlag ==
  /\ main = "loop"
  /\ stop' = TRUE
  /\ main' = "push"
  /\ UNCHANGED <<recorded, queue, saver, frame, video, text>>

StopPush ==
  /\ main = "push"
  /\ queue' = Pushed(queue, EmptyFrame, MaxSize)
  /\ main' = "join"
  /\ UNCHANGED <<recorded, stop, saver, frame, video, text>>

StopJoin ==
  /\ main = "join"
  /\ saver \in {"absent", "done"}
  /\ main' = "stopped"
  /\ UNCHANGED <<recorded, queue, stop, saver, frame, video, text>>

-----------------------------------------------------------------------------
(* save_to_file                                                            *)
SaverTest ==
  /\ saver = "test"
  /\ saver' = IF stop THEN "done" ELSE "pop"
  /\ UNCHANGED <<recorded, queue, stop, frame, video, text, main>>

SaverPop ==
  /\ saver = "pop"
  /\ CanPop(queue)
  /\ frame' = Front(queue)
  /\ queue' = Popped(queue)
  /\ saver' = IF Front(queue) = EmptyFrame THEN "test" ELSE "video"
  /\ UNCHANGED <<recorded, stop, video, text, main>>

SaverWritesVideo ==
  /\ saver = "video"
  /\ video' = Append(video, frame)
  /\ saver' = "text"
  /\ UNCHANGED <<recorded, queue, stop, frame, text, main>>

SaverWritesText ==
  /\ saver = "text"
  /\ text' = Append(text, frame)
  /\ saver' = "test"
  /\ UNCHANGED <<recorded, queue, stop, frame, video, main>>

Saver == SaverTest \/ SaverPop \/ SaverWritesVideo \/ SaverWritesText

Next == Record \/ StopFlag \/ StopPush \/ StopJoin \/ Saver

Fairness == WF_vars(StopPush) /\ WF_vars(StopJoin) /\ WF_vars(Saver)

Spec == Init /\ [][Next]_vars /\ Fairness

-----------------------------------------------------------------------------
(* When the files are closed nobody writes to them.                        *)
NothingAfterStop == main = "stopped" => saver \in {"absent", "done"}

StopReturns == main = "push" ~> main = "stopped"

(* The frames are saved in the order in which they were recorded, each     *)
(* once, and when the files are closed every picture has its line.         *)
InOrder ==
  /\ \A i, j \in DOMAIN video : i < j => video[i] < video[j]
  /\ text = SubSeq(video, 1, Len(text))
  /\ main = "stopped" => video = text
=============================================================================
