----------------------------- MODULE Orientation ------------------------------
(***************************************************************************)
(* The orientation of the gimbal at the time of an image: a thread stamps  *)
(* the samples it receives and queues them, and the main loop asks for the *)
(* orientation at a time t, which is interpolated between two samples.     *)
(* CBoard::imu_at and DM_IMU::imu_at remember the pair of the last answer  *)
(* and go on from there; Gimbal::q takes samples out of the queue until a  *)
(* pair fits, and its thread empties the queue when the serial port had to *)
(* be opened again.                                                        *)
(*                                                                         *)
(* Sample n is stamped 2n, so that a query at an even time meets a sample  *)
(* exactly and one at an odd time lies between two.  The queue refuses a   *)
(* sample when it is full (5000 and 1000 samples in the code).             *)
(***************************************************************************)
EXTENDS Naturals, Sequences, ThreadSafeQueue

CONSTANTS
  Devices,    (* the devices looked at                                     *)
  QueueSize,  (* queue_                                                    *)
  MaxSamples  (* bound: samples received                                   *)

OrientationAssumption ==
  /\ Devices \subseteq {"imu", "gimbal"}
  /\ QueueSize \in Nat \ {0}
  /\ MaxSamples \in Nat

VARIABLES
  device,   (* "imu" for CBoard and DM_IMU, or "gimbal"; never changes     *)
  received, (* samples received so far                                     *)
  accepted, (* the stamps of those the queue accepted                      *)
  queue,    (* queue_                                                      *)
  ahead,    (* data_ahead_, t_a                                            *)
  behind,   (* data_behind_, t_b                                           *)
  reader,   (* the main loop                                               *)
  asked,    (* the time of its query                                       *)
  latest,   (* the latest time of its earlier queries                      *)
  fresh,    (* the query is for a time after the last pair, and no sample  *)
            (* after that pair was lost                                    *)
  cleared   (* the queue was emptied since the last pair was complete      *)

historyVars == <<latest, fresh, cleared>>
vars == <<device, received, accepted, queue, ahead, behind, reader, asked,
          historyVars>>

Times == 0..2 * MaxSamples + 1

-----------------------------------------------------------------------------
Init ==
  /\ device \in Devices
  /\ received = 0
  /\ accepted = {}
  /\ queue = <<>>
  /\ ahead = 0
  /\ behind = 0
  /\ reader = "first"
  /\ asked = 0
  /\ latest = 0
  /\ fresh = FALSE
  /\ cleared = FALSE

(* CBoard::callback, get_imu_data_thread, read_thread: a sample is queued, *)
(* or it is invalid.                                                       *)
Sample ==
  /\ received < MaxSamples
  /\ received' = received + 1
  /\ \/ /\ queue' = Pushed(queue, 2 * received', QueueSize)
        /\ accepted' = IF Len(queue) < QueueSize
                       THEN accepted \cup {2 * received'} ELSE accepted
     \/ UNCHANGED <<queue, accepted>>
  /\ UNCHANGED <<device, ahead, behind, reader, asked, historyVars>>

(* Gimbal::reconnect, when the serial port could be opened again.          *)
Reconnect ==
  /\ device = "gimbal"
  /\ queue' = <<>>
  /\ cleared' = TRUE
  /\ fresh' = (fresh /\ reader = "answer")
  /\ UNCHANGED <<device, received, accepted, ahead, behind, reader, asked,
                 latest>>

(* The constructors wait for two samples, which become the first pair, or  *)
(* for one, which Gimbal drops.                                            *)
WaitForFirst ==
  /\ reader = "first"
  /\ CanPop(queue)
  /\ queue' = Popped(queue)
  /\ IF device = "imu"
     THEN ahead' = Front(queue) /\ reader' = "second"
     ELSE reader' = "idle" /\ UNCHANGED ahead
  /\ UNCHANGED <<device, received, accepted, behind, asked, historyVars>>

WaitForSecond ==
  /\ reader = "second"
  /\ CanPop(queue)
  /\ queue' = Popped(queue)
  /\ behind' = Front(queue)
  /\ reader' = "idle"
  /\ UNCHANGED <<device, received, accepted, ahead, asked, historyVars>>

-----------------------------------------------------------------------------
(* Mutant: imu_at does not move on to the last sample it knows.            *)
AskFromOldPair(t) ==
  /\ reader = "idle"
  /\ asked' = t
  /\ fresh' = (behind # 0 /\ behind < t /\ ~cleared)
  /\ reader' = "pop"
  /\ UNCHANGED <<device, received, accepted, queue, ahead, behind, latest,
                 cleared>>

(* A query for the time of an image.  imu_at moves on if it can.           *)
Ask(t) ==
  /\ reader = "idle"
  /\ asked' = t
  /\ fresh' = (behind # 0 /\ behind < t /\ ~cleared)
  /\ ahead' = IF device = "imu" /\ behind < t THEN behind ELSE ahead
  /\ reader' = "pop"
  /\ UNCHANGED <<device, received, accepted, queue, behind, latest, cleared>>

(* The loop of imu_at.                                                     *)
PopBehind ==
  /\ device = "imu"
  /\ reader = "pop"
  /\ CanPop(queue)
  /\ queue' = Popped(queue)
  /\ behind' = Front(queue)
  /\ IF behind' > asked
     THEN reader' = "answer" /\ UNCHANGED ahead
     ELSE ahead' = behind' /\ UNCHANGED reader
  /\ UNCHANGED <<device, received, accepted, asked, historyVars>>

(* The loop of Gimbal::q: one sample is taken, the next is looked at.      *)
PopAhead ==
  /\ device = "gimbal"
  /\ reader = "pop"
  /\ CanPop(queue)
  /\ queue' = Popped(queue)
  /\ ahead' = Front(queue)
  /\ reader' = "front"
  /\ UNCHANGED <<device, received, accepted, behind, asked, historyVars>>

LookBehind ==
  /\ reader = "front"
  /\ CanPop(queue)
  /\ behind' = Front(queue)
  /\ reader' = IF asked < ahead \/ (ahead < asked /\ asked <= behind')
               THEN "answer" ELSE "pop"
  /\ cleared' = FALSE
  /\ UNCHANGED <<device, received, accepted, queue, ahead, asked, latest, fresh>>

Answer ==
  /\ reader = "answer"
  /\ reader' = "idle"
  /\ latest' = IF asked > latest THEN asked ELSE latest
  /\ UNCHANGED <<device, received, accepted, queue, ahead, behind, asked, fresh,
                 cleared>>

Next ==
  \/ Sample \/ Reconnect
  \/ WaitForFirst \/ WaitForSecond
  \/ \E t \in Times : Ask(t)
  \/ PopBehind \/ PopAhead \/ LookBehind \/ Answer

Spec == Init /\ [][Next]_vars

-----------------------------------------------------------------------------
Covered ==
  IF device = "imu" THEN ahead <= asked /\ asked < behind
                    ELSE ahead < asked /\ asked <= behind

Adjacent == \A stamp \in accepted : ~(ahead < stamp /\ stamp < behind)

(* An image newer than the pair of the last answer gets its orientation    *)
(* from the two samples beside it that the queue accepted, unless the      *)
(* serial port was opened again meanwhile.  A query that repeats a time,   *)
(* or falls between the same two samples, gets a wider pair from imu_at,   *)
(* which holds the time all the same as long as the queries do not go      *)
(* back, and later samples from Gimbal::q, whose answer is extrapolated    *)
(* from them: no answer of it is older than its query.                     *)
Brackets ==
  reader = "answer" =>
    /\ fresh => Covered /\ Adjacent
    /\ device = "imu" /\ asked >= latest /\ (\E stamp \in accepted : stamp <= asked)
         => Covered
    /\ asked <= behind
=============================================================================
