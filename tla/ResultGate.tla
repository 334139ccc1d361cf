------------------------------ MODULE ResultGate ------------------------------
(***************************************************************************)
(* The output side of io::AUVClient together with the main loop of         *)
(* custom_client that drives it.  Three threads of control meet here:      *)
(*                                                                         *)
(*   - the main thread: read, take the team colour, track, aim, shoot, and *)
(*     publish a result on /auto_aim/result;                               *)
(*   - the single-threaded executor: the team-colour callback, which       *)
(*     revokes the previous team's command, and the watchdog timer;        *)
(*   - time, which passes between any two of their steps.                  *)
(*                                                                         *)
(* Two mutexes protect the shared state.  team_color_mutex_ is only held   *)
(* for single reads and writes, so each of its critical sections is one    *)
(* step.  result_mutex_ is held by publish() across the comparison of the  *)
(* colour revision and the publication itself, which are two steps: the    *)
(* colour may change in between.                                           *)
(***************************************************************************)
EXTENDS Integers

CONSTANTS
  CommandTimeout,  (* command_timeout_ms, in ticks                         *)
  WatchdogPeriod,  (* max(10, command_timeout_ms / 2), in ticks            *)
  TimerSlack,      (* ticks a due timer may wait for the executor          *)
  MaxRevision      (* bound: the colour changes explored                   *)

ASSUME TimingAssumption ==
  /\ CommandTimeout \in Nat \ {0}
  /\ WatchdogPeriod \in Nat \ {0}
  /\ TimerSlack \in Nat
  /\ MaxRevision \in Nat

VARIABLES
  teamColor,      (* self_is_red_, NoColor before the first message        *)
  revision,       (* team_color_revision_                                  *)
  topic,          (* the last message published on /auto_aim/result        *)
  unread,         (* topic has not reached its subscriber yet              *)
  sinceResult,    (* now - last_result_steady_ns_                          *)
  watchdogSent,   (* watchdog_result_sent_                                 *)
  resultMutex,    (* owner of result_mutex_                                *)
  spin,           (* executor thread: idle, or waiting to revoke           *)
  timerAge,       (* ticks since the watchdog timer last became due        *)
  main,           (* control point of the main thread                      *)
  snapshot,       (* the AUVTeamColor of this iteration                    *)
  inputSize,      (* whether input_size has been fixed by a first frame    *)
  activeColor,    (* active_self_is_red                                    *)
  tracker,        (* own colour the tracker is set for, and that of target *)
  job,            (* the command main is about to publish                  *)
  verdict,        (* inside publish(): publish job as it is?               *)
  quit            (* main leaves the loop after this publication           *)

gateVars == <<topic, unread, sinceResult, watchdogSent>>
colorVars == <<teamColor, revision>>
spinVars == <<spin, timerAge>>
loopVars == <<main, snapshot, inputSize, activeColor, tracker, job, verdict,
              quit>>
vars == <<gateVars, colorVars, spinVars, loopVars, resultMutex>>

-----------------------------------------------------------------------------
Colors == {"red", "blue"}
NoColor == "none"

(* A result.  rev and target are what the model adds to the published      *)
(* JSON: the revision the command was computed for (0: published without   *)
(* one) and the own colour for which its target was acquired.              *)
Command == [control : BOOLEAN, shoot : BOOLEAN, finite : BOOLEAN,
            rev : 0..MaxRevision, target : Colors \cup {NoColor}]

SafeCommand == [control |-> FALSE, shoot |-> FALSE, finite |-> TRUE,
                rev |-> 0, target |-> NoColor]

OldestResult == CommandTimeout + WatchdogPeriod + TimerSlack
Older(age, oldest) == IF age > oldest THEN age ELSE age + 1

-----------------------------------------------------------------------------
Init ==
  /\ teamColor = NoColor
  /\ revision = 0
  /\ topic = SafeCommand
  /\ unread = FALSE
  /\ sinceResult = 0
  /\ watchdogSent = FALSE
  /\ resultMutex = "free"
  /\ spin = "idle"
  /\ timerAge = 0
  /\ main = "read"
  /\ snapshot = [color |-> NoColor, rev |-> 0]
  /\ inputSize = "unset"
  /\ activeColor = NoColor
  /\ \E c \in Colors : tracker = [self |-> c, target |-> NoColor]
  /\ job = SafeCommand
  /\ verdict = FALSE
  /\ quit = FALSE

(* Mutant: the latch that silences the watchdog is never cleared.          *)
PublishResultNoReset(message) ==
  /\ topic' = message
  /\ unread' = TRUE
  /\ sinceResult' = 0
  /\ UNCHANGED watchdogSent

(* publish_json, followed by the update of the output watchdog's state.    *)
PublishResult(message) ==
  /\ topic' = message
  /\ unread' = TRUE
  /\ sinceResult' = 0
  /\ watchdogSent' = FALSE

-----------------------------------------------------------------------------
(* The executor thread.                                                    *)

(* self_is_red_callback up to the end of its first critical section.  A    *)
(* message that repeats the known colour returns early and changes         *)
(* nothing.                                                                *)
SelfIsRedCallback(color) ==
  /\ spin = "idle"
  /\ main # "exited"
  /\ color # teamColor
  /\ revision < MaxRevision
  /\ teamColor' = color
  /\ revision' = revision + 1
  /\ spin' = "revoke"
  /\ UNCHANGED <<gateVars, loopVars, timerAge, resultMutex>>

(* Mutant: only the watchdog is re-armed, nothing is published.            *)
RevokeOldTeamSilently ==
  /\ spin = "revoke"
  /\ resultMutex = "free"
  /\ PublishResult(topic)
  /\ spin' = "idle"
  /\ UNCHANGED <<colorVars, loopVars, timerAge, resultMutex>>

(* The rest of self_is_red_callback: revoke whatever was published before. *)
(* It runs to completion even when the main loop has already ended, since  *)
(* the destructor joins the executor thread.                               *)
RevokeOldTeam ==
  /\ spin = "revoke"
  /\ resultMutex = "free"
  /\ PublishResult(SafeCommand)
  /\ spin' = "idle"
  /\ UNCHANGED <<colorVars, loopVars, timerAge, resultMutex>>

(* watchdog_callback; last_result_steady_ns_ is left alone.                *)
WatchdogCallback ==
  /\ spin = "idle"
  /\ main # "exited"
  /\ timerAge >= WatchdogPeriod
  /\ resultMutex = "free"
  /\ timerAge' = timerAge - WatchdogPeriod
  /\ IF sinceResult < CommandTimeout \/ watchdogSent
     THEN UNCHANGED gateVars
     ELSE /\ watchdogSent' = TRUE
          /\ topic' = SafeCommand
          /\ unread' = TRUE
          /\ UNCHANGED sinceResult
  /\ UNCHANGED <<colorVars, loopVars, spin, resultMutex>>

-----------------------------------------------------------------------------
(* The main thread.                                                        *)

(* read() does not return ok: publish a safe result.                       *)
ReadFails ==
  /\ main = "read"
  /\ job' = SafeCommand
  /\ main' = "publish"
  /\ UNCHANGED <<gateVars, colorVars, spinVars, resultMutex, snapshot,
                 inputSize, activeColor, tracker, verdict, quit>>

(* read() returns a frame that is not older than max_frame_age_ms.         *)
ReadFrame ==
  /\ main = "read"
  /\ main' = "color"
  /\ UNCHANGED <<gateVars, colorVars, spinVars, resultMutex, snapshot,
                 inputSize, activeColor, tracker, job, verdict, quit>>

(* team_color() returns nothing: publish a safe result.                    *)
TeamColorUnknown ==
  /\ main = "color"
  /\ teamColor = NoColor
  /\ job' = SafeCommand
  /\ main' = "publish"
  /\ UNCHANGED <<gateVars, colorVars, spinVars, resultMutex, snapshot,
                 inputSize, activeColor, tracker, verdict, quit>>

(* Mutant: the colour changes but the target survives.                     *)
SetEnemyColorKeepsTarget(color) == tracker' = [tracker EXCEPT !.self = color]

(* Tracker::set_enemy_color                                                *)
SetEnemyColor(color) ==
  IF tracker.self = color
  THEN UNCHANGED tracker
  ELSE tracker' = [self |-> color, target |-> NoColor]

(* team_color() reads colour and revision together; the tracker follows    *)
(* the colour, not the revision.                                           *)
TakeTeamColor ==
  /\ main = "color"
  /\ teamColor # NoColor
  /\ snapshot' = [color |-> teamColor, rev |-> revision]
  /\ IF activeColor = teamColor
     THEN UNCHANGED <<activeColor, tracker>>
     ELSE /\ SetEnemyColor(teamColor)
          /\ activeColor' = teamColor
  /\ main' = "size"
  /\ UNCHANGED <<gateVars, colorVars, spinVars, resultMutex,
                 inputSize, job, verdict, quit>>

(* The size of the frame is not the one the solver was fixed to; on the    *)
(* first frame the program gives up after a last safe result.              *)
RejectSize ==
  /\ main = "size"
  /\ job' = SafeCommand
  /\ quit' = (inputSize = "unset")
  /\ main' = "publish"
  /\ UNCHANGED <<gateVars, colorVars, spinVars, resultMutex, snapshot,
                 inputSize, activeColor, tracker, verdict>>

(* detect, track, aim and shoot.  Armours that do not have the enemy's     *)
(* colour are filtered, so the target is the one already tracked, a new    *)
(* one of the enemy, or none; without a target the command is empty.       *)
ComputeCommand ==
  /\ main = "size"
  /\ inputSize' = "fixed"
  /\ \E target \in {NoColor, tracker.self, tracker.target},
        control, shoot, finite \in BOOLEAN :
       /\ control => target # NoColor
       /\ shoot => control
       /\ ~control => finite
       /\ tracker' = [tracker EXCEPT !.target = target]
       /\ job' = [control |-> control, shoot |-> shoot, finite |-> finite,
                  rev |-> snapshot.rev, target |-> target]
  /\ main' = "publish"
  /\ UNCHANGED <<gateVars, colorVars, spinVars, resultMutex, snapshot,
                 activeColor, verdict, quit>>

(* Mutant: the revision is not compared.                                   *)
PublishUnchecked ==
  /\ main = "publish"
  /\ resultMutex = "free"
  /\ resultMutex' = "main"
  /\ verdict' = job.finite
  /\ main' = "send"
  /\ UNCHANGED <<gateVars, colorVars, spinVars, snapshot,
                 inputSize, activeColor, tracker, job, quit>>

(* publish(): take result_mutex_, then compare the revision under          *)
(* team_color_mutex_, which is released again at once.                     *)
PublishCheck ==
  /\ main = "publish"
  /\ resultMutex = "free"
  /\ resultMutex' = "main"
  /\ verdict' = /\ job.finite
                /\ job.rev = 0 \/ job.rev = revision
  /\ main' = "send"
  /\ UNCHANGED <<gateVars, colorVars, spinVars, snapshot,
                 inputSize, activeColor, tracker, job, quit>>

(* Mutant: result_mutex_ stays locked when the command is replaced.        *)
PublishSendLeaksLock ==
  /\ main = "send"
  /\ PublishResult(IF verdict THEN job ELSE SafeCommand)
  /\ resultMutex' = IF verdict THEN "free" ELSE "main"
  /\ main' = IF quit THEN "exited" ELSE "read"
  /\ UNCHANGED <<colorVars, spinVars, snapshot, inputSize,
                 activeColor, tracker, job, verdict, quit>>

(* publish(): publish_json and release result_mutex_.                      *)
PublishSend ==
  /\ main = "send"
  /\ PublishResult(IF verdict THEN job ELSE SafeCommand)
  /\ resultMutex' = "free"
  /\ main' = IF quit THEN "exited" ELSE "read"
  /\ UNCHANGED <<colorVars, spinVars, snapshot, inputSize,
                 activeColor, tracker, job, verdict, quit>>

(* rclcpp is shut down, the user quits or an exception ends the loop.  The *)
(* destructor cancels the timer and the executor and publishes nothing.    *)
Exit ==
  /\ main \in {"read", "size"}
  /\ main' = "exited"
  /\ UNCHANGED <<gateVars, colorVars, spinVars, resultMutex, snapshot,
                 inputSize, activeColor, tracker, job, verdict, quit>>

-----------------------------------------------------------------------------
(* A tick of time.  Critical sections and callbacks take less than         *)
(* TimerSlack ticks together: the executor never starts a due timer later. *)
(* The clocks stop counting one tick past the largest age that matters.    *)
Tick ==
  /\ main # "exited" => timerAge < WatchdogPeriod + TimerSlack
  /\ timerAge' = IF main = "exited" THEN timerAge ELSE timerAge + 1
  /\ sinceResult' = Older(sinceResult, OldestResult)
  /\ UNCHANGED <<topic, unread, watchdogSent, colorVars, spin, resultMutex,
                 main, snapshot, inputSize, activeColor, tracker, job,
                 verdict, quit>>

MainStep ==
  \/ ReadFails \/ ReadFrame \/ TeamColorUnknown \/ TakeTeamColor
  \/ RejectSize \/ ComputeCommand \/ PublishCheck \/ PublishSend \/ Exit

SpinStep ==
  \/ \E color \in Colors : SelfIsRedCallback(color)
  \/ RevokeOldTeam
  \/ WatchdogCallback

Next == MainStep \/ SpinStep \/ Tick

(* publish() and the second half of the colour callback wait for nothing   *)
(* but result_mutex_, whose holders run straight to its release.           *)
Fairness == WF_vars(PublishSend) /\ SF_vars(RevokeOldTeam)

Spec == Init /\ [][Next]_vars /\ Fairness

-----------------------------------------------------------------------------
(* Types.                                                                  *)
TypeOK ==
  /\ teamColor \in Colors \cup {NoColor}
  /\ revision \in 0..MaxRevision
  /\ topic \in Command
  /\ unread \in BOOLEAN
  /\ sinceResult \in 0..OldestResult + 1
  /\ watchdogSent \in BOOLEAN
  /\ resultMutex \in {"free", "main"}
  /\ spin \in {"idle", "revoke"}
  /\ timerAge \in 0..WatchdogPeriod + TimerSlack
  /\ main \in {"read", "color", "size", "publish", "send", "exited"}
  /\ snapshot \in [color : Colors \cup {NoColor}, rev : 0..MaxRevision]
  /\ inputSize \in {"unset", "fixed"}
  /\ activeColor \in Colors \cup {NoColor}
  /\ tracker \in [self : Colors, target : Colors \cup {NoColor}]
  /\ job \in Command
  /\ verdict \in BOOLEAN
  /\ quit \in BOOLEAN

(* Once the colour callback has revoked the previous team's command, no    *)
(* command computed for an earlier colour stands on the topic or is        *)
(* published again, however long the computation that produced it took     *)
(* (AUVClient::publish, AUVClient::self_is_red_callback).                  *)
RevokedStaysRevoked ==
  topic.control /\ spin = "idle" => topic.rev = revision

(* A command that carries the current colour revision aims at a target     *)
(* acquired as an enemy of the current own colour, even when the colour    *)
(* flipped back and forth between two iterations of the main loop, and     *)
(* none is published before the colour is known.                           *)
AimsAtTheEnemy ==
  topic.control /\ topic.rev = revision => topic.target = teamColor

(* A command is superseded no later than one watchdog period after the     *)
(* command timeout, whatever the main thread is doing: it may hang in      *)
(* detection, and the colour may change meanwhile (watchdog_callback,      *)
(* watchdog_result_sent_).                                                 *)
NoUnattendedCommand ==
  topic.control /\ main # "exited" => sinceResult <= OldestResult

(* The colour callback always gets to revoke the old command, although it  *)
(* competes with the main thread for result_mutex_.                        *)
RevocationHappens == spin = "revoke" ~> spin = "idle"

-----------------------------------------------------------------------------
(* The client implements Revocation.  The colour revision is the era; the  *)
(* old era is revoked when the callback has passed result_mutex_.          *)
Promise == INSTANCE Revocation
  WITH era <- revision,
       revoked <- IF spin = "revoke" THEN revision - 1 ELSE revision,
       command <- IF topic.control THEN topic.rev ELSE 0

(* Every behaviour of the client is one that Revocation allows: eras open  *)
(* one at a time, each is revoked once, and a revoked command never        *)
(* returns (self_is_red_callback and publish, whatever their order).       *)
ImplementsRevocation == Promise!Spec

-----------------------------------------------------------------------------
(* The test of the client says that "a result calculated for an old team   *)
(* color must not control the gimbal": the revision compared in publish()  *)
(* is current when the command is published.                               *)
OldTeamNeverControls ==
  [][PublishSend /\ topic'.control => topic'.rev = revision]_vars
=============================================================================
