------------------------- MODULE MqttTransportProofs -------------------------
(***************************************************************************)
(* Proofs about MqttTransport, for any number of IDs, any broker policies  *)
(* and any number of starts.                                               *)
(***************************************************************************)
EXTENDS MqttTransport, TLAPS

(* The network thread lives only while the worker serves the attempt that  *)
(* the broker accepted, or is about to join it.                            *)
NetInv ==
  /\ net # "none" =>
       worker \in {"serving", "finally", "loop_stop"} /\ attempt.accepted
  /\ worker = "loop_start" => attempt.accepted

(* The worker exists exactly between start() and the end of stop(), and    *)
(* the end is announced before the owner does anything else.               *)
OwnerInv ==
  /\ worker = "none" <=> owner = "stopped"
  /\ owner = "running" => ~stopEvent
  /\ owner = "stopped" => ~connected /\ client = None

(* Unless the end was announced, a loss is recorded before it is reported. *)
LossInv ==
  owner = "running" =>
    /\ attempt.disconnected \/ net = "report" => ~connected
    /\ worker \in {"connect", "handshake", "loop_start"} => ~attempt.disconnected

IInv == TypeOK /\ ConnectedMeansAccepted /\ NetInv /\ OwnerInv /\ LossInv

-----------------------------------------------------------------------------
(* The search begins again after the last ID.                              *)
LEMMA NextIdIsValid ==
  ASSUME NEW id \in 0..(NumIds - 1)
  PROVE  (id + 1) % NumIds \in 0..(NumIds - 1)
BY IdAssumption

(* The network, the broker and the network thread.                         *)
LEMMA EnvironmentPreserves ==
  ASSUME IInv, NetworkChanges \/ PolicyChanges \/ NetDisconnects \/ NetReports
  PROVE  IInv'
<1> USE IdAssumption
        DEF IInv, TypeOK, ConnectedMeansAccepted, NetInv, OwnerInv, LossInv,
            NewAttempt, envVars, ownerVars
<1>1. CASE NetworkChanges
  BY <1>1 DEF NetworkChanges
<1>2. CASE PolicyChanges
  BY <1>2 DEF PolicyChanges
<1>3. CASE NetDisconnects
  BY <1>3 DEF NetDisconnects
<1>4. CASE NetReports
  <2>1. /\ attempt' \in [accepted : BOOLEAN, disconnected : BOOLEAN]
        /\ attempt'.accepted = attempt.accepted
    BY <1>4 DEF NetReports
  <2>2. UNCHANGED <<envVars, ownerVars, connected, client, worker, current,
                    idIndex, result>>
    BY <1>4 DEF NetReports
  <2>3. net = "report" /\ net' = "ended"
    BY <1>4 DEF NetReports
  <2>4. QED
    BY <2>1, <2>2, <2>3
<1>5. QED
  BY <1>1, <1>2, <1>3, <1>4

(* start() and stop().                                                     *)
LEMMA OwnerPreserves ==
  ASSUME IInv, Start \/ StopAnnounce \/ Stop
  PROVE  IInv'
<1> USE IdAssumption
        DEF IInv, TypeOK, ConnectedMeansAccepted, NetInv, OwnerInv, LossInv,
            NewAttempt, envVars, ownerVars
<1>1. CASE Start
  <2>1. stopEvent' \in BOOLEAN /\ ~stopEvent' /\ ~connected
    BY <1>1, Zenon DEF Start
  <2>2. starts' \in 0..MaxStarts /\ idIndex' \in 0..(NumIds - 1)
    BY <1>1 DEF Start
  <2>3. net = "none"
    BY <1>1 DEF Start
  <2>4. QED
    BY <1>1, <2>1, <2>2, <2>3 DEF Start
<1>2. CASE StopAnnounce
  BY <1>2 DEF StopAnnounce
<1>3. CASE StopReadClient
  BY <1>3 DEF StopReadClient
<1>4. CASE StopDisconnect
  <2>1. /\ attempt' \in [accepted : BOOLEAN, disconnected : BOOLEAN]
        /\ attempt'.accepted = attempt.accepted
    BY <1>4 DEF StopDisconnect
  <2>2. /\ link' \in {"closed", "open", "lost"} /\ owner = "disconnect"
        /\ owner' = "join"
        /\ UNCHANGED <<network, policy, starts, stopEvent, connected, client,
                      worker, current, idIndex, result, net>>
    BY <1>4 DEF StopDisconnect
  <2>3. QED
    BY <2>1, <2>2
<1>5. CASE StopJoin
  BY <1>5 DEF StopJoin
<1>6. QED
  BY <1>1, <1>2, <1>3, <1>4, <1>5 DEF Stop

(* The worker.                                                             *)
LEMMA WorkerPreserves ==
  ASSUME IInv, Worker
  PROVE  IInv'
<1> USE IdAssumption
        DEF IInv, TypeOK, ConnectedMeansAccepted, NetInv, OwnerInv, LossInv,
            NewAttempt, envVars, ownerVars
<1>1. CASE WorkerTest
  BY <1>1 DEF WorkerTest
<1>2. CASE CreateClient
  <2>1. ~connected' /\ connected' \in BOOLEAN /\ result' \in BOOLEAN
    BY <1>2, Zenon DEF CreateClient
  <2>2. current' \in {0, 1} /\ client' = current'
    BY <1>2 DEF CreateClient
  <2>3. /\ attempt' \in [accepted : BOOLEAN, disconnected : BOOLEAN]
        /\ ~attempt'.disconnected
    BY <1>2 DEF CreateClient
  <2>4. QED
    BY <1>2, <2>1, <2>2, <2>3 DEF CreateClient
<1>3. CASE Connect
  <2>1. /\ connected' \in BOOLEAN /\ result' \in BOOLEAN
        /\ connected' => connected
    <3>1. connected \in BOOLEAN /\ result \in BOOLEAN
      OBVIOUS
    <3>2. CASE network
      <4>1. connected' = connected /\ result' = result
        BY <1>3, <3>2 DEF Connect
      <4>2. QED
        BY <3>1, <4>1, Zenon
    <3>3. CASE ~network
      BY <1>3, <3>3, Zenon DEF Connect, GiveUp
    <3>4. QED
      BY <3>2, <3>3
  <2>2. /\ worker = "connect" /\ worker' \in {"handshake", "finally"}
        /\ link' \in {"closed", "open", "lost"}
        /\ UNCHANGED <<network, policy, ownerVars, client, current, idIndex,
                      attempt, net>>
    BY <1>3 DEF Connect, GiveUp
  <2>3. QED
    BY <2>1, <2>2
<1>4. CASE HandshakeStops
  BY <1>4 DEF HandshakeStops
<1>5. CASE HandshakeFails
  BY <1>5 DEF HandshakeFails, GiveUp
<1>6. CASE HandshakeRefused
  BY <1>6 DEF HandshakeRefused, GiveUp
<1>7. CASE HandshakeAccepted
  BY <1>7 DEF HandshakeAccepted
<1>8. CASE LoopStart
  BY <1>8 DEF LoopStart
<1>9. CASE ServingEnds
  BY <1>9 DEF ServingEnds
<1>10. CASE Disconnect
  BY <1>10 DEF Disconnect
<1>11. CASE LoopStop
  BY <1>11 DEF LoopStop
<1>12. CASE ClearClient
  <2>1. idIndex' \in 0..(NumIds - 1)
    BY <1>12, NextIdIsValid DEF ClearClient
  <2>2. /\ connected' \in BOOLEAN /\ client' \in {None, 0, 1}
        /\ connected' => connected /\ client' = client
    <3>1. CASE client = current
      BY <1>12, <3>1, Zenon DEF ClearClient
    <3>2. CASE client # current
      BY <1>12, <3>2, Zenon DEF ClearClient
    <3>3. QED
      BY <3>1, <3>2
  <2>3. /\ worker = "clear" /\ worker' = "wait"
        /\ UNCHANGED <<envVars, ownerVars, current, attempt, result, net>>
    BY <1>12 DEF ClearClient
  <2>4. QED
    BY <2>1, <2>2, <2>3
<1>13. CASE Wait
  BY <1>13 DEF Wait
<1>14. QED
  BY <1>1, <1>2, <1>3, <1>4, <1>5, <1>6, <1>7, <1>8, <1>9, <1>10, <1>11,
     <1>12, <1>13 DEF Worker

(* The invariant holds in every behaviour.                                 *)
LEMMA Invariance == Spec => []IInv
<1>1. Init => IInv
  <2>1. Init => /\ ~connected /\ connected \in BOOLEAN
                /\ stopEvent \in BOOLEAN /\ result \in BOOLEAN
    BY Zenon DEF Init
  <2>2. QED
    BY <2>1, IdAssumption
       DEF Init, IInv, TypeOK, ConnectedMeansAccepted, NetInv, OwnerInv, LossInv,
           NewAttempt
<1>2. IInv /\ [Next]_vars => IInv'
  <2>1. ASSUME IInv, UNCHANGED vars
        PROVE  IInv'
    BY <2>1
       DEF vars, envVars, ownerVars, IInv, TypeOK, ConnectedMeansAccepted,
           NetInv, OwnerInv, LossInv
  <2>2. QED
    BY <2>1, EnvironmentPreserves, OwnerPreserves, WorkerPreserves DEF Next
<1>3. QED
  BY <1>1, <1>2, PTL DEF Spec

-----------------------------------------------------------------------------
(* Type correctness: in particular the ID that is tried exists.            *)
THEOREM TypeCorrect == Spec => []TypeOK
<1>1. IInv => TypeOK
  BY DEF IInv
<1>2. QED
  BY <1>1, Invariance, PTL

(* While the transport says it is connected, its client is the one that    *)
(* the broker accepted.                                                    *)
THEOREM ConnectedIsUsable == Spec => []ConnectedMeansAccepted
<1>1. IInv => ConnectedMeansAccepted
  BY DEF IInv
<1>2. QED
  BY <1>1, Invariance, PTL

(* The network thread lives only in its own attempt, and after stop() no   *)
(* thread is left that could call the node.                                *)
THEOREM NoLateCall == Spec => []NothingCallsBackLate
<1>1. IInv => NothingCallsBackLate
  BY DEF IInv, TypeOK, NetInv, OwnerInv, NothingCallsBackLate
<1>2. QED
  BY <1>1, Invariance, PTL

(* The node knows of a loss before the worker acts on it.                  *)
THEOREM LossKnownFirst == Spec => []LossIsKnownFirst
<1>1. IInv => LossIsKnownFirst
  BY DEF IInv, LossInv, LossIsKnownFirst
<1>2. QED
  BY <1>1, Invariance, PTL
===============================================================================
