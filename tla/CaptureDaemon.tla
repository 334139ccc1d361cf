---------------------------- MODULE CaptureDaemon -----------------------------
(***************************************************************************)
(* The four drivers with a daemon: the cameras of USBCamera, MindVision    *)
(* and HikRobot, and SocketCAN.  A capture thread reads the device until   *)
(* a read fails; the daemon looks at a flag now and then and, when nobody  *)
(* captures, joins the thread, closes the device and opens it again; the   *)
(* destructor makes both end.                                              *)
(*                                                                         *)
(* The flag is raised by the capture thread itself: a daemon that looks    *)
(* before the new thread has run waits for it in join(), for as long as    *)
(* the device works.  USBCamera gives up after some attempts and protects  *)
(* its handle with a mutex, under which the capture thread tests it;       *)
(* HikRobot opens and closes in the daemon only and has a second flag that *)
(* ends the capture thread; MindVision and SocketCAN never forget an old   *)
(* handle, and close it once more whenever they failed to open.            *)
(***************************************************************************)
EXTENDS Naturals

CONSTANTS
  Drivers,     (* the drivers looked at                                    *)
  GiveUpAfter  (* 20: attempts after which USBCamera gives up              *)

CaptureAssumption ==
  /\ Drivers \subseteq {"usb", "mindvision", "hikrobot", "socketcan"}
  /\ GiveUpAfter \in Nat

VARIABLES
  driver,   (* one of Drivers; never changes                               *)
  present,  (* the device is plugged in and answers                        *)
  handle,   (* cap_, handle_, socket_fd_: "none", "open" or "closed"       *)
  attempts, (* open_count_                                                 *)
  quit,     (* quit_, daemon_quit_                                         *)
  captureQuit, (* capture_quit_ (HikRobot)                                 *)
  ok,       (* ok_, capturing_                                             *)
  capturer, (* capture_thread_: "absent", if it was never started or was   *)
            (* joined, "starts", "loop", "reads", or "ended"               *)
  daemon,   (* daemon_thread_                                              *)
  main      (* the thread that constructs and destroys the driver          *)

vars == <<driver, present, handle, attempts, quit, captureQuit, ok, capturer,
          daemon, main>>

Joinable == capturer # "absent"

-----------------------------------------------------------------------------
Init ==
  /\ driver \in Drivers
  /\ present \in BOOLEAN
  /\ handle = "none"
  /\ attempts = 0
  /\ quit = FALSE
  /\ captureQuit = FALSE
  /\ ok = FALSE
  /\ capturer = "absent"
  /\ daemon = "absent"
  /\ main = "construct"

(* open(), capture_start(): with a device that answers the handle is       *)
(* opened and a capture thread starts.  Without one the attempt fails,     *)
(* though it counts for USBCamera; HikRobot and SocketCAN may have made a  *)
(* new handle by then, and keep it.                                        *)
Open ==
  /\ \/ present /\ handle' = "open" /\ capturer' = "starts"
     \/ ~present /\ UNCHANGED <<handle, capturer>>
     \/ /\ ~present /\ driver \in {"hikrobot", "socketcan"}
        /\ handle' = "open"
        /\ UNCHANGED capturer
  /\ attempts' = IF driver = "usb" /\ attempts <= GiveUpAfter
                 THEN attempts + 1 ELSE attempts
  /\ IF driver = "hikrobot" THEN ok' = FALSE /\ captureQuit' = FALSE
     ELSE UNCHANGED <<ok, captureQuit>>

(* close(), the end of capture_stop().                                     *)
Closed == IF handle = "none" THEN "none" ELSE "closed"

(* The constructor; HikRobot opens in the daemon.                          *)
Construct ==
  /\ main = "construct"
  /\ main' = "use"
  /\ daemon' = IF driver = "hikrobot" THEN "open" ELSE "test"
  /\ IF driver = "hikrobot"
     THEN UNCHANGED <<handle, capturer, attempts, ok, captureQuit>>
     ELSE Open
  /\ UNCHANGED <<driver, present, quit>>

-----------------------------------------------------------------------------
(* The daemon's loop.                                                      *)
DaemonTest ==
  /\ daemon = "test"
  /\ daemon' = IF ~quit THEN "look"
               ELSE IF driver = "hikrobot" THEN "stop" ELSE "done"
  /\ UNCHANGED <<driver, present, handle, attempts, quit, captureQuit, ok,
                 capturer, main>>

DaemonLook ==
  /\ daemon = "look"
  /\ daemon' = IF ok THEN "test"
               ELSE IF driver = "usb" /\ attempts > GiveUpAfter THEN "give_up"
               ELSE IF driver = "hikrobot" THEN "stop" ELSE "join"
  /\ UNCHANGED <<driver, present, handle, attempts, quit, captureQuit, ok,
                 capturer, main>>

(* USBCamera gives up: nobody captures any more, and read() waits forever. *)
GiveUp ==
  /\ daemon = "give_up"
  /\ quit' = TRUE
  /\ handle' = Closed
  /\ daemon' = "last_join"
  /\ UNCHANGED <<driver, present, attempts, captureQuit, ok, capturer, main>>

(* capture_stop() tells the capture thread to end before it joins it.      *)
StopCapture ==
  /\ daemon = "stop"
  /\ captureQuit' = TRUE
  /\ daemon' = IF quit THEN "last_join" ELSE "join"
  /\ UNCHANGED <<driver, present, handle, attempts, quit, ok, capturer, main>>

(* Mutant: the daemon closes the device without waiting for the thread.    *)
DaemonJoinsNobody ==
  /\ daemon \in {"join", "last_join"}
  /\ daemon' = IF daemon = "join" THEN "close" ELSE "last_close"
  /\ UNCHANGED <<driver, present, handle, attempts, quit, captureQuit, ok,
                 capturer, main>>

(* join(), if there is a thread to be joined.                              *)
DaemonJoin ==
  /\ daemon \in {"join", "last_join"}
  /\ capturer \in {"absent", "ended"}
  /\ capturer' = "absent"
  /\ daemon' = IF daemon = "join" THEN "close" ELSE "last_close"
  /\ UNCHANGED <<driver, present, handle, attempts, quit, captureQuit, ok, main>>

(* close(), capture_stop(); HikRobot keeps a handle that fails to stop.    *)
DaemonClose ==
  /\ daemon \in {"close", "last_close"}
  /\ \/ handle' = Closed
     \/ driver = "hikrobot" /\ ~present /\ UNCHANGED handle
  /\ daemon' = IF daemon = "close" THEN "open" ELSE "done"
  /\ UNCHANGED <<driver, present, attempts, quit, captureQuit, ok, capturer,
                 main>>

DaemonOpen ==
  /\ daemon = "open"
  /\ Open
  /\ daemon' = "test"
  /\ UNCHANGED <<driver, present, quit, main>>

Daemon ==
  DaemonTest \/ DaemonLook \/ GiveUp \/ StopCapture \/ DaemonJoin
    \/ DaemonClose \/ DaemonOpen

-----------------------------------------------------------------------------
(* The capture thread says that it captures, and reads until it is to quit *)
(* or a read fails.                                                        *)
CaptureStarts ==
  /\ capturer = "starts"
  /\ ok' = TRUE
  /\ capturer' = "loop"
  /\ UNCHANGED <<driver, present, handle, attempts, quit, captureQuit, daemon,
                 main>>

(* MindVision and SocketCAN leave the flag up when they are told to quit.  *)
CaptureTest ==
  /\ capturer = "loop"
  /\ IF IF driver = "hikrobot" THEN captureQuit ELSE quit
     THEN /\ capturer' = "ended"
          /\ ok' = (ok /\ driver \in {"mindvision", "socketcan"})
     ELSE capturer' = "reads" /\ UNCHANGED ok
  /\ UNCHANGED <<driver, present, handle, attempts, quit, captureQuit, daemon,
                 main>>

(* Mutant: the flag stays up when a read fails.                            *)
CaptureReadsKeepsFlag ==
  /\ capturer = "reads"
  /\ capturer' = IF present /\ (driver = "usb" => handle = "open")
                 THEN "loop" ELSE "ended"
  /\ UNCHANGED <<driver, present, handle, attempts, quit, captureQuit, ok,
                 daemon, main>>

(* USBCamera tests under the mutex that the camera was not closed by the   *)
(* destructor or by a daemon that gives up.                                *)
CaptureReads ==
  /\ capturer = "reads"
  /\ IF present /\ (driver = "usb" => handle = "open")
     THEN capturer' = "loop" /\ UNCHANGED ok
     ELSE capturer' = "ended" /\ ok' = FALSE
  /\ UNCHANGED <<driver, present, handle, attempts, quit, captureQuit, daemon,
                 main>>

Capturer == CaptureStarts \/ CaptureTest \/ CaptureReads

-----------------------------------------------------------------------------
(* The destructor; only that of USBCamera closes the camera first.         *)
Quit ==
  /\ main = "use"
  /\ quit' = TRUE
  /\ main' = IF driver = "usb" THEN "close" ELSE "join_daemon"
  /\ UNCHANGED <<driver, present, handle, attempts, captureQuit, ok, capturer,
                 daemon>>

CloseFirst ==
  /\ main = "close"
  /\ handle' = Closed
  /\ main' = "join_daemon"
  /\ UNCHANGED <<driver, present, attempts, quit, captureQuit, ok, capturer,
                 daemon>>

JoinDaemon ==
  /\ main = "join_daemon"
  /\ daemon = "done"
  /\ main' = IF driver = "hikrobot" THEN "destroyed" ELSE "join"
  /\ UNCHANGED <<driver, present, handle, attempts, quit, captureQuit, ok,
                 capturer, daemon>>

(* The rest of the destructors; USBCamera's handle is freed as a member.   *)
JoinCapturer ==
  /\ main = "join"
  /\ capturer \in {"absent", "ended"}
  /\ capturer' = "absent"
  /\ handle' = Closed
  /\ main' = "destroyed"
  /\ UNCHANGED <<driver, present, attempts, quit, captureQuit, ok, daemon>>

Destructor == CloseFirst \/ JoinDaemon \/ JoinCapturer

(* The device is pulled out, fails, or is back.                            *)
PlugOrUnplug ==
  /\ present' = ~present
  /\ UNCHANGED <<driver, handle, attempts, quit, captureQuit, ok, capturer,
                 daemon, main>>

Next == Construct \/ Daemon \/ Capturer \/ Quit \/ Destructor \/ PlugOrUnplug

Fairness ==
  WF_vars(Construct) /\ WF_vars(Daemon) /\ WF_vars(Capturer) /\ WF_vars(Destructor)

Spec == Init /\ [][Next]_vars /\ Fairness

-----------------------------------------------------------------------------
(* No thread is started while one that was not joined is still kept, which *)
(* would end the program; no driver but USBCamera, which tests its handle, *)
(* reads from a handle that is closed; and when the destructor has         *)
(* returned both threads have ended and nothing is open, but for what      *)
(* HikRobot could not stop.                                                *)
CaptureIsSound ==
  /\ daemon = "open" => ~Joinable
  /\ capturer \in {"starts", "loop", "reads"} /\ driver # "usb" => handle = "open"
  /\ main = "destroyed" =>
       daemon = "done" /\ ~Joinable /\ (driver # "hikrobot" => handle # "open")

(* A new capture thread runs before the daemon has slept for 100 ms.       *)
RunsInTime == daemon = "look" => capturer # "starts"

(* A device that is back for good is captured again, unless the driver is  *)
(* destroyed or USBCamera has given up; and a destructor returns.  Only    *)
(* HikRobot needs threads that run in time: it stops a thread that did not *)
(* and starts another, where the others wait for it.                       *)
Reopens ==
  /\ <>[](present /\ (driver = "hikrobot" => RunsInTime))
       => <>[](capturer \in {"loop", "reads"} \/ quit)
  /\ main \notin {"construct", "use"} ~> main = "destroyed"
=============================================================================
