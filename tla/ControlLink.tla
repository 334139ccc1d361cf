----------------------------- MODULE ControlLink ------------------------------
(***************************************************************************)
(* The way of a result to the robot.  ResultGate publishes it; ROS brings  *)
(* it to the subscription of the node rm_mqtt, which keeps the last        *)
(* message only; the node takes it from there, limits the rate, and sends  *)
(* an Aim_Rx block over MQTT.  Any message may be lost on both ways, and   *)
(* the link cut at any time.  The robot obeys the last block it received:  *)
(* the time-out of its own that the protocol asks of the firmware is left  *)
(* out, so the model shows what the programs guarantee without it.         *)
(*                                                                         *)
(* topic and unread of ResultGate are the message on its way.  One is      *)
(* enough: when the next is published, the one before has arrived or is    *)
(* lost, since nobody sees at which moment it enters the subscription.     *)
(***************************************************************************)
EXTENDS ResultGate

CONSTANTS
  SendPeriod,  (* 1 / max_send_rate_hz, in ticks                           *)
  AllowFire    (* control.allow_fire                                       *)

ASSUME LinkAssumption == SendPeriod \in Nat /\ AllowFire \in BOOLEAN

VARIABLES
  slot,       (* the message in the subscription, or none                  *)
  held,       (* the message _handle_control_message works on, or none     *)
  connected,  (* the transport is connected                                *)
  sinceSend,  (* ticks since _last_control_publish_time                    *)
  robot,      (* the last block received: mode, revision, ticks since      *)
  intact,     (* history: nothing was lost since the robot's last block    *)
  settled     (* history: a tick has passed since the last revocation      *)

nodeVars == <<slot, held, sinceSend>>
linkVars == <<nodeVars, connected, robot, intact>>
allVars == <<vars, linkVars, settled>>

OldestBlock == SendPeriod + OldestResult + 1

-----------------------------------------------------------------------------
(* What encode_custom_control makes of a result: mode 0 releases the       *)
(* robot, 2 also lets it fire.                                             *)
Mode(command) ==
  IF ~command.control THEN 0
  ELSE IF command.shoot /\ AllowFire THEN 2 ELSE 1

Message(command) ==
  [mode |-> Mode(command), finite |-> command.finite,
   rev |-> IF command.control THEN command.rev ELSE 0]

Messages == [mode : 0..2, finite : BOOLEAN, rev : 0..MaxRevision]

Pending == unread \/ slot # {} \/ held # {}
RateLimited == sinceSend < SendPeriod

LinkInit ==
  /\ Init
  /\ slot = {}
  /\ held = {}
  /\ connected \in BOOLEAN
  /\ sinceSend = SendPeriod
  /\ robot = [mode |-> 0, rev |-> 0, age |-> 0]
  /\ intact = TRUE
  /\ settled = FALSE

-----------------------------------------------------------------------------
(* ROS.                                                                    *)

MessageArrives ==
  /\ unread
  /\ unread' = FALSE
  /\ UNCHANGED <<topic, sinceResult, watchdogSent, colorVars, spinVars,
                 loopVars, resultMutex>>

(* The message replaces one that rm_mqtt has not taken yet.                *)
DeliverResult ==
  /\ MessageArrives
  /\ slot' = {Message(topic)}
  /\ UNCHANGED <<held, sinceSend, connected, robot, intact, settled>>

(* The message is lost; what the subscription holds stays there.           *)
LoseResult ==
  /\ MessageArrives
  /\ intact' = FALSE
  /\ UNCHANGED <<nodeVars, connected, robot, settled>>

-----------------------------------------------------------------------------
(* The executor of rm_mqtt.                                                *)

(* Mutant: the limiter also postpones the next message when it drops one.  *)
TakeResultRestarts ==
  /\ slot # {} /\ held = {}
  /\ slot' = {}
  /\ held' = IF connected /\ ~RateLimited THEN slot ELSE {}
  /\ intact' = (intact /\ connected)
  /\ sinceSend' = IF RateLimited THEN 0 ELSE sinceSend
  /\ UNCHANGED <<vars, connected, robot, settled>>

(* _handle_control_message is called, and returns at once while            *)
(* disconnected or too early.                                              *)
TakeResult ==
  /\ slot # {} /\ held = {}
  /\ slot' = {}
  /\ held' = IF connected /\ ~RateLimited THEN slot ELSE {}
  /\ intact' = (intact /\ connected)
  /\ UNCHANGED <<vars, sinceSend, connected, robot, settled>>

(* decode_aim_result refuses an angle that is not finite; publish() raises *)
(* when the link has been cut since, or Paho reports an error.             *)
PublishFails ==
  /\ held # {}
  /\ held' = {}
  /\ intact' = FALSE
  /\ UNCHANGED <<vars, slot, sinceSend, connected, robot, settled>>

(* The block leaves with QoS 0: it reaches the robot or is lost.           *)
PublishBlock ==
  /\ connected
  /\ \E m \in held :
       /\ m.finite
       /\ \/ robot' = [mode |-> m.mode, rev |-> m.rev, age |-> 0]
             /\ intact' = TRUE
          \/ UNCHANGED robot /\ intact' = FALSE
  /\ held' = {}
  /\ sinceSend' = 0
  /\ UNCHANGED <<vars, slot, connected, settled>>

-----------------------------------------------------------------------------
(* The network, and time.                                                  *)

(* Mutant: the block is published as retained, so that the broker sends it *)
(* again after a reconnection.                                             *)
LinkChangesRetained ==
  /\ connected' = ~connected
  /\ robot' = IF connected' THEN [robot EXCEPT !.age = 0] ELSE robot
  /\ UNCHANGED <<vars, nodeVars, intact, settled>>

LinkChanges ==
  /\ connected' = ~connected
  /\ UNCHANGED <<vars, nodeVars, robot, intact, settled>>

(* A tick; a message is delivered and handled within the tick in which it  *)
(* was published.  After a loss only matters whether the block is of the   *)
(* present tick.                                                           *)
LinkTick ==
  /\ Tick
  /\ ~Pending
  /\ sinceSend' = Older(sinceSend, SendPeriod - 1)
  /\ robot' = IF robot.mode = 0 THEN robot
              ELSE [robot EXCEPT
                      !.age = Older(@, IF intact THEN OldestBlock ELSE 0)]
  /\ settled' = TRUE
  /\ UNCHANGED <<slot, held, connected, intact>>

(* A step of the client; the history follows the revocation of a colour.   *)
ClientStep ==
  /\ MainStep \/ SpinStep
  /\ settled' = (settled /\ spin' = spin)
  /\ UNCHANGED linkVars

LinkNext ==
  \/ ClientStep
  \/ DeliverResult \/ LoseResult
  \/ TakeResult \/ PublishFails \/ PublishBlock
  \/ LinkChanges
  \/ LinkTick

LinkSpec == LinkInit /\ [][LinkNext]_allVars

-----------------------------------------------------------------------------
(* While nothing is lost, the robot is never under the control of a block  *)
(* that nobody has confirmed for longer than one send period and the worst *)
(* case of the watchdog, whatever was lost before that block.  The rate    *)
(* limiter may drop the very message that revokes a command, and the       *)
(* watchdog sends only one message of its own: that one is never too early *)
(* for the limiter as long as the send period is not longer than the       *)
(* command timeout (_handle_control_message, watchdog_callback).           *)
NoUnattendedRobot ==
  intact /\ SendPeriod <= CommandTimeout /\ robot.mode # 0 /\ main # "exited"
    => robot.age <= OldestBlock

(* Whatever ROS and MQTT lose, the revocation itself included, the robot   *)
(* receives no command for an earlier colour in any tick after that of its *)
(* revocation: only what rm_mqtt had in its hands then may still leave,    *)
(* and nothing is kept back and sent later, as after a reconnection        *)
(* (subscriber.qos_depth, _handle_control_message, MqttTransport.publish). *)
NoLateBlock ==
  settled /\ spin = "idle" /\ robot.mode # 0 /\ robot.rev # revision
    => robot.age > 0

(* The manual asks the downstream node to take control == false as the     *)
(* reason to release the control at once: a release that rm_mqtt takes     *)
(* while it is connected and the robot obeys a command is sent on.         *)
ReleaseIsForwarded ==
  [][TakeResult /\ connected /\ robot.mode # 0 /\ (\A m \in slot : m.mode = 0)
       => held' = slot]_allVars
=============================================================================
