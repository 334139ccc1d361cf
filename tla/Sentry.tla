-------------------------------- MODULE Sentry --------------------------------
(***************************************************************************)
(* What surrounds the aiming pipeline on the robots that carry their own   *)
(* camera and gimbal: the drivers whose daemon opens a device again, the   *)
(* orientation of the gimbal at the time of an image, the threads of       *)
(* mt_standard and its power rune, and of the sentry the tracker and the   *)
(* cameras around it.  They meet only in data that they leave out (images, *)
(* quaternions, poses), so that a behaviour of this module is one of any   *)
(* of them.                                                                *)
(***************************************************************************)
EXTENDS Naturals

CONSTANTS
  Drivers, GiveUpAfter,           (* CaptureDaemon                         *)
  Devices, QueueSize, MaxSamples, (* Orientation                           *)
  Kinds, Priority, MinDetect, MaxLost, MaxSwitch, Nothing, (* OmniTracker  *)
  DetectorQueue, MaxImages,       (* MtStandard                            *)
  Cameras, PerceptronQueue,       (* Perceptron                            *)
  RuneMaxLoss, MaxMistakes, FireGap (* PowerRune                           *)

VARIABLES
  part,  (* which of them runs; never changes                              *)
  c_driver, c_present, c_handle, c_attempts, c_quit, c_captureQuit, c_ok,
  c_capturer, c_daemon, c_main,
  o_device, o_received, o_accepted, o_queue, o_ahead, o_behind, o_reader,
  o_asked, o_latest, o_fresh, o_cleared,
  t_state, t_preState, t_detectCount, t_tempLostCount, t_omniPriority,
  t_target, t_converged, t_unseen,
  m_boardMode, m_mode, m_exiting, m_reads, m_detect, m_image, m_queue, m_main,
  m_targets, m_rune, m_latest, m_stop, m_gener, m_input, m_aimed, m_sent,
  e_delivers, e_thread, e_queue, e_stopFlag, e_main,
  b_firstIn, b_unsolvable, b_lostCount, b_missed, b_switching, b_mistakes,
  b_idle, b_control, b_shoot, b_jump, b_quiet, b_held

Capture == INSTANCE CaptureDaemon WITH
  driver <- c_driver, present <- c_present, handle <- c_handle,
  attempts <- c_attempts, quit <- c_quit, captureQuit <- c_captureQuit,
  ok <- c_ok, capturer <- c_capturer, daemon <- c_daemon, main <- c_main

Gimbal == INSTANCE Orientation WITH
  device <- o_device, received <- o_received, accepted <- o_accepted,
  queue <- o_queue, ahead <- o_ahead, behind <- o_behind,
  reader <- o_reader, asked <- o_asked, latest <- o_latest,
  fresh <- o_fresh, cleared <- o_cleared

Omni == INSTANCE OmniTracker WITH
  state <- t_state, preState <- t_preState, detectCount <- t_detectCount,
  tempLostCount <- t_tempLostCount, omniPriority <- t_omniPriority,
  target <- t_target, converged <- t_converged, unseen <- t_unseen

Commands == INSTANCE MtStandard WITH
  boardMode <- m_boardMode, mode <- m_mode, exiting <- m_exiting,
  reads <- m_reads, detect <- m_detect, image <- m_image, queue <- m_queue,
  main <- m_main, targets <- m_targets, rune <- m_rune, latest <- m_latest,
  stop <- m_stop, gener <- m_gener, input <- m_input, aimed <- m_aimed,
  sent <- m_sent

Perception == INSTANCE Perceptron WITH
  delivers <- e_delivers, thread <- e_thread, queue <- e_queue,
  stopFlag <- e_stopFlag, main <- e_main

Rune == INSTANCE PowerRune WITH
  MaxLoss <- RuneMaxLoss,
  firstIn <- b_firstIn, unsolvable <- b_unsolvable, lostCount <- b_lostCount,
  missed <- b_missed, switching <- b_switching, mistakes <- b_mistakes,
  idle <- b_idle, control <- b_control, shoot <- b_shoot, jump <- b_jump,
  quiet <- b_quiet, held <- b_held

captureVars == <<c_driver, c_present, c_handle, c_attempts, c_quit,
                 c_captureQuit, c_ok, c_capturer, c_daemon, c_main>>
gimbalVars == <<o_device, o_received, o_accepted, o_queue, o_ahead, o_behind,
                o_reader, o_asked, o_latest, o_fresh, o_cleared>>
omniVars == <<t_state, t_preState, t_detectCount, t_tempLostCount,
              t_omniPriority, t_target, t_converged, t_unseen>>
commandVars == <<m_boardMode, m_mode, m_exiting, m_reads, m_detect, m_image,
                 m_queue, m_main, m_targets, m_rune, m_latest, m_stop, m_gener,
                 m_input, m_aimed, m_sent>>
perceptionVars == <<e_delivers, e_thread, e_queue, e_stopFlag, e_main>>
runeVars == <<b_firstIn, b_unsolvable, b_lostCount, b_missed, b_switching,
              b_mistakes, b_idle, b_control, b_shoot, b_jump, b_quiet, b_held>>
vars == <<part, captureVars, gimbalVars, omniVars, commandVars, perceptionVars,
          runeVars>>

ASSUME SentryAssumption ==
  /\ Capture!CaptureAssumption
  /\ Gimbal!OrientationAssumption
  /\ Omni!OmniAssumption
  /\ Rune!RuneAssumption

-----------------------------------------------------------------------------
(* A part that does not run stays as it is: one initial state is enough.   *)
Init ==
  /\ part \in {"capture", "gimbal", "omni", "commands", "perception", "rune"}
  /\ Capture!Init /\ Gimbal!Init /\ Omni!Init /\ Commands!Init /\ Perception!Init
  /\ Rune!Init
  /\ part # "capture" => c_driver = (CHOOSE d \in Drivers : TRUE) /\ c_present
  /\ part # "gimbal" => o_device = CHOOSE d \in Devices : TRUE
  /\ part # "rune" => b_switching = FALSE
  /\ part # "perception" =>
       e_delivers = {} /\ e_thread = [camera \in Cameras |-> "done"]

Next ==
  /\ UNCHANGED part
  /\ \/ /\ part = "capture" /\ Capture!Next
        /\ UNCHANGED <<gimbalVars, omniVars, commandVars, perceptionVars,
                       runeVars>>
     \/ /\ part = "gimbal" /\ Gimbal!Next
        /\ UNCHANGED <<captureVars, omniVars, commandVars, perceptionVars,
                       runeVars>>
     \/ /\ part = "omni" /\ Omni!Next
        /\ UNCHANGED <<captureVars, gimbalVars, commandVars, perceptionVars,
                       runeVars>>
     \/ /\ part = "commands" /\ Commands!Next
        /\ UNCHANGED <<captureVars, gimbalVars, omniVars, perceptionVars,
                       runeVars>>
     \/ /\ part = "perception" /\ Perception!Next
        /\ UNCHANGED <<captureVars, gimbalVars, omniVars, commandVars,
                       runeVars>>
     \/ /\ part = "rune" /\ Rune!Next
        /\ UNCHANGED <<captureVars, gimbalVars, omniVars, commandVars,
                       perceptionVars>>

(* Whoever runs has fair threads.                                          *)
Fairness ==
  /\ part = "capture" => Capture!Fairness
  /\ part = "commands" => Commands!Fairness
  /\ part = "perception" => Perception!Fairness

Spec == Init /\ [][Next]_vars /\ Fairness

-----------------------------------------------------------------------------
(* No thread of a driver is lost, none reads from a closed handle, and     *)
(* when a destructor has returned nothing is open and no thread is left    *)
(* (CaptureDaemon, ~CommandGener, ~Perceptron).                            *)
ThreadsAreSound ==
  /\ Capture!CaptureIsSound
  /\ Commands!NothingAfterStop
  /\ Perception!NothingAfterStop

(* A device that is back is captured again, and programs and destructors   *)
(* end; what can make them wait forever is named (CaptureDaemon,           *)
(* MtStandard, Perceptron).                                                *)
NothingHangs ==
  /\ part = "capture" => Capture!Reopens
  /\ part = "commands" => Commands!StopReturns
  /\ part = "perception" => Perception!StopReturns

(* An image gets the orientation of its own time (Orientation).            *)
Brackets == Gimbal!Brackets

(* What the sentry aims at was seen not long ago (OmniTracker); of the two *)
(* threads of mt_standard that send commands, the one for armour does not  *)
(* go back to an image older than that of its own last command, and the    *)
(* one for the power rune not behind any command (MtStandard); and a power *)
(* rune is aimed at with a filter that did not lose it too often, and shot *)
(* at with a pause after every shot and jump (PowerRune).                  *)
AimIsCurrent ==
  /\ Omni!TargetIsRecent
  /\ Commands!InOrder
  /\ Rune!RuneIsFollowed
  /\ Rune!ShotsAreSpaced
=============================================================================
