---------------------------- MODULE MqttTransport -----------------------------
(***************************************************************************)
(* rm_mqtt.MqttTransport: a worker thread that keeps one MQTT connection   *)
(* alive and searches for a client ID that the broker accepts, the network *)
(* thread of the Paho client, and the thread that starts and stops both    *)
(* and publishes in between.  _state_lock protects single reads and        *)
(* writes, so each of its critical sections is one step.                   *)
(*                                                                         *)
(* The Paho client (external) delivers callbacks from loop() during the    *)
(* handshake, from its network thread later, and from disconnect().  The   *)
(* broker accepts some of the IDs.                                         *)
(***************************************************************************)
EXTENDS Naturals

CONSTANTS
  NumIds,     (* len(CLIENT_IDS)                                           *)
  Policies,   (* sets of ID indices: what the broker may accept at a time  *)
  None,       (* no client                                                 *)
  MaxStarts   (* bound: the calls of start()                               *)

ASSUME IdAssumption ==
  /\ NumIds \in Nat \ {0}
  /\ Policies \subseteq SUBSET (0..(NumIds - 1)) /\ Policies # {}
  /\ MaxStarts \in Nat

VARIABLES
  network,    (* the network to the broker works                           *)
  policy,     (* the indices of the IDs the broker accepts now             *)
  link,       (* the TCP connection of the present attempt                 *)
  owner,      (* control point of the thread that calls start() and stop() *)
  starts,     (* calls of start() so far                                   *)
  stopEvent,  (* _stop_event                                               *)
  connected,  (* _connected                                                *)
  client,     (* _client: the parity of the attempt that created it        *)
  worker,     (* control point of _run and _connect_once                   *)
  current,    (* parity of the present attempt                             *)
  idIndex,    (* client_id_index                                           *)
  attempt,    (* the _ConnectionAttempt                                    *)
  result,     (* what _connect_once returns: was the ID rejected?          *)
  net         (* the network thread of the Paho client                     *)

envVars == <<network, policy, link>>
ownerVars == <<owner, starts, stopEvent>>
vars == <<envVars, ownerVars, connected, client, worker, current, idIndex,
          attempt, result, net>>

NewAttempt == [accepted |-> FALSE, disconnected |-> FALSE]

-----------------------------------------------------------------------------
Init ==
  /\ network \in BOOLEAN
  /\ policy \in Policies
  /\ link = "closed"
  /\ owner = "stopped"
  /\ starts = 0
  /\ stopEvent = FALSE
  /\ connected = FALSE
  /\ client = None
  /\ worker = "none"
  /\ current = 0
  /\ idIndex = 0
  /\ attempt = NewAttempt
  /\ result = FALSE
  /\ net = "none"

(* The network fails, and with it an open connection, or it recovers.      *)
NetworkChanges ==
  /\ network' = ~network
  /\ link' = IF network /\ link = "open" THEN "lost" ELSE link
  /\ UNCHANGED <<policy, ownerVars, connected, client, worker, current,
                 idIndex, attempt, result, net>>

(* Another robot is served: the broker accepts other IDs from now on.      *)
PolicyChanges ==
  /\ policy' \in Policies \ {policy}
  /\ UNCHANGED <<network, link, ownerVars, connected, client, worker, current,
                 idIndex, attempt, result, net>>

-----------------------------------------------------------------------------
(* start()                                                                 *)
Start ==
  /\ owner = "stopped"
  /\ starts < MaxStarts
  /\ starts' = starts + 1
  /\ stopEvent' = FALSE
  /\ worker' = "test"
  /\ idIndex' = 0
  /\ owner' = "running"
  /\ UNCHANGED <<envVars, connected, client, current, attempt, result, net>>

(* stop(): announce, disconnect the client that is known, join, clear.     *)
StopAnnounce ==
  /\ owner = "running"
  /\ stopEvent' = TRUE
  /\ owner' = "read_client"
  /\ UNCHANGED <<envVars, starts, connected, client, worker, current, idIndex,
                 attempt, result, net>>

StopReadClient ==
  /\ owner = "read_client"
  /\ owner' = IF client = None THEN "join" ELSE "disconnect"
  /\ UNCHANGED <<envVars, starts, stopEvent, connected, client, worker,
                 current, idIndex, attempt, result, net>>

(* client.disconnect(); without a network thread it calls on_disconnect    *)
(* itself, which leaves the state alone once the end is announced.         *)
StopDisconnect ==
  /\ owner = "disconnect"
  /\ owner' = "join"
  /\ link' = IF link = "open" THEN "lost" ELSE link
  /\ attempt' = [attempt EXCEPT !.disconnected =
                   @ \/ (link = "open" /\ net = "none")]
  /\ UNCHANGED <<network, policy, starts, stopEvent, connected, client, worker,
                 current, idIndex, result, net>>

StopJoin ==
  /\ owner = "join"
  /\ worker = "done"
  /\ connected' = FALSE
  /\ client' = None
  /\ worker' = "none"
  /\ owner' = "stopped"
  /\ UNCHANGED <<envVars, starts, stopEvent, current, idIndex, attempt, result,
                 net>>

-----------------------------------------------------------------------------
(* _run: leave the loop, or begin an attempt.                              *)
WorkerTest ==
  /\ worker = "test"
  /\ worker' = IF stopEvent THEN "done" ELSE "create"
  /\ UNCHANGED <<envVars, ownerVars, connected, client, current, idIndex,
                 attempt, result, net>>

(* _connect_once up to client.connect().                                   *)
CreateClient ==
  /\ worker = "create"
  /\ current' = 1 - current
  /\ client' = current'
  /\ connected' = FALSE
  /\ attempt' = NewAttempt
  /\ result' = FALSE
  /\ link' = "closed"
  /\ worker' = "connect"
  /\ UNCHANGED <<network, policy, ownerVars, idIndex, net>>

(* _set_disconnected, and _connect_once returns through its finally block. *)
GiveUp(rejected) ==
  /\ connected' = FALSE
  /\ result' = rejected
  /\ worker' = "finally"

(* client.connect() opens a connection or fails in time.                   *)
Connect ==
  /\ worker = "connect"
  /\ \/ /\ network
        /\ link' = "open"
        /\ worker' = "handshake"
        /\ UNCHANGED <<connected, result>>
     \/ /\ ~network
        /\ GiveUp(FALSE)
        /\ UNCHANGED link
  /\ UNCHANGED <<network, policy, ownerVars, client, current, idIndex, attempt, net>>

HandshakeStops ==
  /\ worker = "handshake"
  /\ stopEvent
  /\ worker' = "finally"
  /\ UNCHANGED <<envVars, ownerVars, connected, client, current, idIndex,
                 attempt, result, net>>

(* No CONNACK in time, or loop() fails: try the same ID again.             *)
HandshakeFails ==
  /\ worker = "handshake"
  /\ link = "lost" \/ ~network
  /\ GiveUp(FALSE)
  /\ UNCHANGED <<envVars, ownerVars, client, current, idIndex, attempt, net>>

(* Mutant: a refusal is taken for a network failure.                       *)
HandshakeRefusedRetries ==
  /\ worker = "handshake"
  /\ link = "open"
  /\ idIndex \notin policy
  /\ GiveUp(FALSE)
  /\ UNCHANGED <<envVars, ownerVars, client, current, idIndex, attempt, net>>

(* The broker refuses the ID, by a CONNACK code or by an error of loop().  *)
HandshakeRefused ==
  /\ worker = "handshake"
  /\ link = "open"
  /\ idIndex \notin policy
  /\ GiveUp(TRUE)
  /\ UNCHANGED <<envVars, ownerVars, client, current, idIndex, attempt, net>>

(* on_connect within loop(): subscribe, and the connection counts.         *)
HandshakeAccepted ==
  /\ worker = "handshake"
  /\ link = "open"
  /\ idIndex \in policy
  /\ attempt' = [attempt EXCEPT !.accepted = TRUE]
  /\ connected' = (connected \/ client = current)
  /\ worker' = "loop_start"
  /\ UNCHANGED <<envVars, ownerVars, client, current, idIndex, result, net>>

(* client.loop_start(), which cannot fail for a client without a thread.   *)
LoopStart ==
  /\ worker = "loop_start"
  /\ net' = "running"
  /\ worker' = "serving"
  /\ UNCHANGED <<envVars, ownerVars, connected, client, current, idIndex,
                 attempt, result>>

(* Mutant: the worker relies on stop() to disconnect its client.           *)
ServingEndsOnLoss ==
  /\ worker = "serving"
  /\ attempt.disconnected
  /\ worker' = "finally"
  /\ UNCHANGED <<envVars, ownerVars, connected, client, current, idIndex,
                 attempt, result, net>>

(* The worker polls both events.                                           *)
ServingEnds ==
  /\ worker = "serving"
  /\ stopEvent \/ attempt.disconnected
  /\ worker' = "finally"
  /\ UNCHANGED <<envVars, ownerVars, connected, client, current, idIndex,
                 attempt, result, net>>

(* finally: client.disconnect(), which may end the network thread.         *)
Disconnect ==
  /\ worker = "finally"
  /\ link' = "closed"
  /\ worker' = "loop_stop"
  /\ UNCHANGED <<network, policy, ownerVars, connected, client, current, idIndex,
                 attempt, result, net>>

(* Mutant: the network thread is not joined.                               *)
LoopStopNoJoin ==
  /\ worker = "loop_stop"
  /\ worker' = "clear"
  /\ UNCHANGED <<envVars, ownerVars, connected, client, current, idIndex,
                 attempt, result, net>>

(* finally: client.loop_stop() joins the network thread.                   *)
LoopStop ==
  /\ worker = "loop_stop"
  /\ net \in {"none", "ended"}
  /\ net' = "none"
  /\ worker' = "clear"
  /\ UNCHANGED <<envVars, ownerVars, connected, client, current, idIndex,
                 attempt, result>>

(* Mutant: the client is forgotten but still counts as connected.          *)
ClearClientOnly ==
  /\ worker = "clear"
  /\ client' = IF client = current THEN None ELSE client
  /\ idIndex' = IF result THEN (idIndex + 1) % NumIds ELSE idIndex
  /\ worker' = "wait"
  /\ UNCHANGED <<envVars, ownerVars, connected, current, attempt, result, net>>

(* finally: the state of this client is cleared; a rejected ID is followed *)
(* by the next one.                                                        *)
ClearClient ==
  /\ worker = "clear"
  /\ IF client = current
     THEN connected' = FALSE /\ client' = None
     ELSE UNCHANGED <<connected, client>>
  /\ idIndex' = IF result THEN (idIndex + 1) % NumIds ELSE idIndex
  /\ worker' = "wait"
  /\ UNCHANGED <<envVars, ownerVars, current, attempt, result, net>>

(* _stop_event.wait(reconnect_interval_sec)                                *)
Wait ==
  /\ worker = "wait"
  /\ worker' = IF stopEvent THEN "done" ELSE "test"
  /\ UNCHANGED <<envVars, ownerVars, connected, client, current, idIndex,
                 attempt, result, net>>

Worker ==
  \/ WorkerTest \/ CreateClient \/ Connect \/ HandshakeStops \/ HandshakeFails
  \/ HandshakeRefused \/ HandshakeAccepted \/ LoopStart \/ ServingEnds
  \/ Disconnect \/ LoopStop \/ ClearClient \/ Wait

-----------------------------------------------------------------------------
(* Mutant: the state is not updated, only the worker is told.              *)
NetDisconnectsSilently ==
  /\ net = "running"
  /\ link \in {"lost", "closed"}
  /\ net' = "report"
  /\ UNCHANGED <<envVars, ownerVars, connected, client, worker, current,
                 idIndex, attempt, result>>

(* The network thread notices the end of the connection; on_disconnect     *)
(* first records it, unless the end was announced ...                      *)
NetDisconnects ==
  /\ net = "running"
  /\ link \in {"lost", "closed"}
  /\ connected' = (connected /\ (stopEvent \/ ~attempt.accepted))
  /\ net' = "report"
  /\ UNCHANGED <<envVars, ownerVars, client, worker, current, idIndex,
                 attempt, result>>

(* ... and then wakes the worker.                                          *)
NetReports ==
  /\ net = "report"
  /\ attempt' = [attempt EXCEPT !.disconnected = TRUE]
  /\ net' = "ended"
  /\ UNCHANGED <<envVars, ownerVars, connected, client, worker, current,
                 idIndex, result>>

Stop == StopReadClient \/ StopDisconnect \/ StopJoin

Next ==
  \/ NetworkChanges \/ PolicyChanges
  \/ Start \/ StopAnnounce \/ Stop
  \/ Worker
  \/ NetDisconnects \/ NetReports

(* Threads are scheduled, every blocking call has a time-out, a lost       *)
(* connection is noticed by the keepalive.                                 *)
Fairness ==
  /\ WF_vars(Stop) /\ WF_vars(Worker)
  /\ WF_vars(NetDisconnects) /\ WF_vars(NetReports)

Spec == Init /\ [][Next]_vars /\ Fairness

-----------------------------------------------------------------------------
TypeOK ==
  /\ network \in BOOLEAN
  /\ policy \in Policies
  /\ link \in {"closed", "open", "lost"}
  /\ owner \in {"stopped", "running", "read_client", "disconnect", "join"}
  /\ starts \in 0..MaxStarts
  /\ stopEvent \in BOOLEAN
  /\ connected \in BOOLEAN
  /\ client \in {None, 0, 1}
  /\ worker \in {"none", "test", "create", "connect", "handshake",
                 "loop_start", "serving", "finally", "loop_stop", "clear",
                 "wait", "done"}
  /\ current \in {0, 1}
  /\ idIndex \in 0..(NumIds - 1)
  /\ attempt \in [accepted : BOOLEAN, disconnected : BOOLEAN]
  /\ result \in BOOLEAN
  /\ net \in {"none", "running", "report", "ended"}

(* publish() only ever gets a client that the broker has accepted and that *)
(* is subscribed: "connected" never refers to a later or an earlier        *)
(* attempt (_on_connect, the finally block of _connect_once).              *)
ConnectedMeansAccepted ==
  connected => client = current /\ attempt.accepted

(* The network thread of one attempt never outlives it, so that its report *)
(* of a lost connection cannot end the next one; and when stop() has       *)
(* returned, no thread is left to call back into the node, whose           *)
(* publishers are destroyed next (_run, RmMqttNode.destroy_node).          *)
NothingCallsBackLate ==
  /\ net # "none" => worker \in {"serving", "finally", "loop_stop"}
  /\ owner = "stopped" =>
       net = "none" /\ worker = "none" /\ ~connected /\ client = None

(* When the worker is told of a lost connection, the node knows already:   *)
(* no message is handed to a client between the report and the next        *)
(* attempt (_on_disconnect, connected).                                    *)
LossIsKnownFirst ==
  attempt.disconnected /\ owner = "running" => ~connected

(* stop() returns although it may miss the client that the worker is just  *)
(* creating.                                                               *)
StopReturns == owner = "read_client" ~> owner = "stopped"

(* An ID the broker accepts is found, and a lost connection is opened      *)
(* again: when the network stays up, the broker keeps to some IDs and      *)
(* nobody stops the transport, it is connected in the end and remains so   *)
(* (_run, "rejected").                                                     *)
FindsAcceptedId ==
  \A ids \in Policies \ {{}} :
    <>[](network /\ policy = ids /\ owner = "running") => <>[]connected
=============================================================================
