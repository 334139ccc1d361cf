------------------------------ MODULE MtStandard ------------------------------
(***************************************************************************)
(* The program mt_standard: a thread reads images and hands them, already  *)
(* on their way through the network, to MultiThreadDetector; the main loop *)
(* takes them out in that order, tracks, and gives the targets to          *)
(* CommandGener, whose thread sends commands at 500 Hz from the latest     *)
(* targets until these are 0.2 s old.  The mode comes from the control     *)
(* board; in the modes for the power rune the main loop reads the camera   *)
(* and sends a command itself, next to that thread.                        *)
(*                                                                         *)
(* The camera and the sensor of orientation always answer.  An image is    *)
(* its number; those beyond MaxImages are not told apart.                  *)
(***************************************************************************)
EXTENDS Naturals, Sequences, ThreadSafeQueue

CONSTANTS
  DetectorQueue,  (* the 16 images of MultiThreadDetector::queue_          *)
  MaxImages       (* bound: images told apart                              *)

VARIABLES
  boardMode, (* cboard.mode                                                *)
  mode,      (* the main loop's copy                                       *)
  exiting,   (* exiter.exit()                                              *)
  reads,     (* the number of the last image                               *)
  detect,    (* detect_thread                                              *)
  image,     (* what it read                                               *)
  queue,     (* MultiThreadDetector::queue_                                *)
  main,      (* the main loop                                              *)
  targets,   (* the image that it tracked                                  *)
  rune,      (* the image in which it looked for the power rune            *)
  latest,    (* latest_, 0 if there are no targets or they are too old     *)
  stop,      (* CommandGener::stop_                                        *)
  gener,     (* CommandGener::thread_                                      *)
  input,     (* its copy of latest_                                        *)
  aimed,     (* history: the image of the last command it sent             *)
  sent       (* history: that of the last command sent by either thread    *)

detectVars == <<detect, image>>
mainVars == <<mode, main, targets, rune>>
generVars == <<gener, input, aimed, sent>>
vars == <<boardMode, exiting, reads, queue, latest, stop, detectVars, mainVars,
          generVars>>

Modes == {"idle", "auto_aim", "buff"}

-----------------------------------------------------------------------------
Init ==
  /\ boardMode = "idle"
  /\ mode = "idle"
  /\ exiting = FALSE
  /\ reads = 0
  /\ detect = "test"
  /\ image = 0
  /\ queue = <<>>
  /\ main = "test"
  /\ targets = 0
  /\ rune = 0
  /\ latest = 0
  /\ stop = FALSE
  /\ gener = "test"
  /\ input = 0
  /\ aimed = 0
  /\ sent = 0

(* Camera::read, by either thread.                                         *)
ReadCamera == reads' = IF reads < MaxImages THEN reads + 1 ELSE reads

(* detect_thread runs idle while the mode is another.                      *)
DetectTest ==
  /\ detect = "test"
  /\ detect' = IF exiting THEN "done"
               ELSE IF mode = "auto_aim" THEN "read" ELSE "test"
  /\ UNCHANGED <<boardMode, exiting, reads, queue, latest, stop, image,
                 mainVars, generVars>>

DetectRead ==
  /\ detect = "read"
  /\ ReadCamera
  /\ image' = reads'
  /\ detect' = "push"
  /\ UNCHANGED <<boardMode, exiting, queue, latest, stop, mainVars, generVars>>

(* Mutant: the newest image goes to the front.                             *)
DetectPushesFirst ==
  /\ detect = "push"
  /\ queue' = IF Len(queue) < DetectorQueue THEN <<image>> \o queue ELSE queue
  /\ detect' = "test"
  /\ UNCHANGED <<boardMode, exiting, reads, latest, stop, image, mainVars,
                 generVars>>

(* MultiThreadDetector::push                                               *)
DetectPush ==
  /\ detect = "push"
  /\ queue' = Pushed(queue, image, DetectorQueue)
  /\ detect' = "test"
  /\ UNCHANGED <<boardMode, exiting, reads, latest, stop, image, mainVars,
                 generVars>>

Detector == DetectTest \/ DetectRead \/ DetectPush

-----------------------------------------------------------------------------
(* The main loop.  Images that were queued before the mode changed stay    *)
(* there until it is auto_aim again.                                       *)
MainTest ==
  /\ main = "test"
  /\ IF exiting
     THEN main' = "join" /\ UNCHANGED mode
     ELSE /\ mode' = boardMode
          /\ main' = CASE boardMode = "auto_aim" -> "pop"
                       [] boardMode = "buff"     -> "buff"
                       [] OTHER                  -> "test"
  /\ UNCHANGED <<boardMode, exiting, reads, queue, latest, stop, targets,
                 rune, detectVars, generVars>>

(* MultiThreadDetector::debug_pop, then the tracker.                       *)
MainPop ==
  /\ main = "pop"
  /\ CanPop(queue)
  /\ targets' = Front(queue)
  /\ queue' = Popped(queue)
  /\ main' = "push"
  /\ UNCHANGED <<boardMode, exiting, reads, latest, stop, mode, rune,
                 detectVars, generVars>>

(* CommandGener::push                                                      *)
MainPush ==
  /\ main = "push"
  /\ latest' = targets
  /\ main' = "test"
  /\ UNCHANGED <<boardMode, exiting, reads, queue, stop, mode, targets,
                 rune, detectVars, generVars>>

(* In a mode for the power rune: read, detect, solve and aim.              *)
MainBuff ==
  /\ main = "buff"
  /\ ReadCamera
  /\ rune' = reads'
  /\ main' = "send"
  /\ UNCHANGED <<boardMode, exiting, queue, latest, stop, mode, targets,
                 detectVars, generVars>>

(* cboard.send(buff_command), while CommandGener may still send as well.   *)
SendBuff ==
  /\ main = "send"
  /\ sent' = rune
  /\ main' = "test"
  /\ UNCHANGED <<boardMode, exiting, reads, queue, latest, stop, mode, targets,
                 rune, detectVars, gener, input, aimed>>

(* detect_thread.join()                                                    *)
MainJoin ==
  /\ main = "join"
  /\ detect = "done"
  /\ main' = "stop"
  /\ UNCHANGED <<boardMode, exiting, reads, queue, latest, stop, mode, targets,
                 rune, detectVars, generVars>>

(* Mutant: the destructor does not say that the thread is to end.          *)
StopSilently ==
  /\ main = "stop"
  /\ main' = "join_gener"
  /\ UNCHANGED <<boardMode, exiting, reads, queue, latest, stop, mode, targets,
                 rune, detectVars, generVars>>

(* ~CommandGener                                                           *)
Stop ==
  /\ main = "stop"
  /\ stop' = TRUE
  /\ main' = "join_gener"
  /\ UNCHANGED <<boardMode, exiting, reads, queue, latest, mode, targets,
                 rune, detectVars, generVars>>

JoinGener ==
  /\ main = "join_gener"
  /\ gener = "done"
  /\ main' = "done"
  /\ UNCHANGED <<boardMode, exiting, reads, queue, latest, stop, mode, targets,
                 rune, detectVars, generVars>>

Main == MainTest \/ MainPop \/ MainPush \/ MainBuff \/ SendBuff
          \/ MainJoin \/ Stop \/ JoinGener

-----------------------------------------------------------------------------
(* generate_command                                                        *)
GenerTest ==
  /\ gener = "test"
  /\ gener' = IF stop THEN "done" ELSE "take"
  /\ UNCHANGED <<boardMode, exiting, reads, queue, latest, stop, input, aimed,
                 sent, detectVars, mainVars>>

GenerTake ==
  /\ gener = "take"
  /\ input' = latest
  /\ gener' = IF latest # 0 THEN "aim" ELSE "test"
  /\ UNCHANGED <<boardMode, exiting, reads, queue, latest, stop, aimed, sent,
                 detectVars, mainVars>>

GenerSends ==
  /\ gener = "aim"
  /\ aimed' = input
  /\ sent' = input
  /\ gener' = "test"
  /\ UNCHANGED <<boardMode, exiting, reads, queue, latest, stop, input,
                 detectVars, mainVars>>

Gener == GenerTest \/ GenerTake \/ GenerSends

(* 0.2 s have passed since the image.                                      *)
TargetsExpire ==
  /\ latest' = 0
  /\ UNCHANGED <<boardMode, exiting, reads, queue, stop, detectVars, mainVars,
                 generVars>>

ModeChanges ==
  /\ boardMode' \in Modes
  /\ UNCHANGED <<exiting, reads, queue, latest, stop, detectVars, mainVars,
                 generVars>>

(* SIGINT                                                                  *)
Interrupt ==
  /\ exiting' = TRUE
  /\ UNCHANGED <<boardMode, reads, queue, latest, stop, detectVars, mainVars,
                 generVars>>

Next == Detector \/ Main \/ Gener \/ TargetsExpire \/ ModeChanges \/ Interrupt

Fairness == WF_vars(Detector) /\ WF_vars(Main) /\ WF_vars(Gener)

Spec == Init /\ [][Next]_vars /\ Fairness

-----------------------------------------------------------------------------
(* When main() returns, neither thread is left to use the camera, the      *)
(* detector or the control board.                                          *)
NothingAfterStop == main = "done" => detect = "done" /\ gener = "done"

(* CommandGener never goes back to an image older than that of its own     *)
(* command before, whatever the queue refuses and however often the mode   *)
(* changes, and no command for the power rune goes back behind a command   *)
(* of either thread.  CommandGener goes on with its latest targets for up  *)
(* to 0.2 s after a change of mode: its commands may be older than those   *)
(* for the rune that were sent in between.                                 *)
InOrder ==
  /\ gener = "aim" => input >= aimed
  /\ main = "send" => rune >= sent

(* An interrupt ends the program, unless the main loop has begun to wait   *)
(* for an image that the other thread will not read any more (debug_pop).  *)
WaitsForever == main = "pop" /\ queue = <<>> /\ detect = "done"

StopReturns == exiting ~> main = "done" \/ WaitsForever
=============================================================================
