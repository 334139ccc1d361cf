-------------------------- MODULE ControlLinkProofs ---------------------------
(***************************************************************************)
(* Proofs about ResultGate and ControlLink, for every timing, every send   *)
(* period and every number of colour changes.  First the gate alone.  Its  *)
(* invariant is preserved by the whole; that no robot is left unattended,  *)
(* and that none obeys an old colour needs one more, about the messages on *)
(* their way and the two clocks of rm_mqtt and the robot.                  *)
(***************************************************************************)
EXTENDS ControlLink, TLAPS

(* Mutual exclusion: main owns result_mutex_ exactly while it publishes.   *)
MutexInv == resultMutex = "main" <=> main = "send"

(* A command is at most one colour behind, and only while the executor     *)
(* still owes the revocation.                                              *)
Current(rev) == rev = revision \/ (spin = "revoke" /\ rev = revision - 1)

RevisionInv ==
  /\ teamColor = NoColor <=> revision = 0
  /\ main = "size" => snapshot.rev \in 1..revision
  /\ job.control => job.rev # 0
  /\ job.rev <= revision
  /\ topic.rev <= revision
  /\ main = "send" /\ verdict /\ job.control => Current(job.rev)
  /\ topic.control => Current(topic.rev)

(* From the snapshot through the tracker to the command, the colour goes   *)
(* with the revision it was read with.                                     *)
ColorInv ==
  /\ activeColor # NoColor => tracker.self = activeColor
  /\ tracker.target \in {NoColor, tracker.self}
  /\ main = "size" => snapshot.color = tracker.self
  /\ main = "size" /\ snapshot.rev = revision => snapshot.color = teamColor
  /\ job.control /\ job.rev = revision => job.target = teamColor
  /\ topic.control /\ topic.rev = revision => topic.target = teamColor

(* While a command stands, the watchdog is armed, and time beyond the      *)
(* timeout is time for which its timer has been running.                   *)
WatchdogInv ==
  /\ watchdogSent => ~topic.control
  /\ topic.control /\ main # "exited"
       => sinceResult <= CommandTimeout + timerAge

IInv == TypeOK /\ MutexInv /\ RevisionInv /\ ColorInv /\ WatchdogInv

-----------------------------------------------------------------------------
(* The safe command is a well-formed result.                               *)
LEMMA SafeCommandType == SafeCommand \in Command
BY TimingAssumption DEF SafeCommand, Command, NoColor

(* A published result leaves the output watchdog re-armed.                 *)
LEMMA PublishResultType ==
  ASSUME NEW message \in Command, PublishResult(message)
  PROVE  /\ topic' \in Command
         /\ unread' \in BOOLEAN
         /\ sinceResult' \in 0..OldestResult + 1
         /\ watchdogSent' \in BOOLEAN
<1>1. topic' \in Command /\ unread' \in BOOLEAN /\ watchdogSent' \in BOOLEAN
  BY Zenon DEF PublishResult
<1>2. sinceResult' \in 0..OldestResult + 1
  BY TimingAssumption DEF PublishResult, OldestResult
<1>3. QED
  BY <1>1, <1>2

(* Every step keeps the types.                                             *)
LEMMA TypePreserved ==
  ASSUME TypeOK, [Next]_vars
  PROVE  TypeOK'
<1> USE TimingAssumption DEF vars, gateVars, colorVars, spinVars, loopVars,
           TypeOK, Command, SafeCommand, Colors, NoColor, OldestResult
<1>1. CASE ReadFails
  BY <1>1 DEF ReadFails
<1>2. CASE ReadFrame
  BY <1>2 DEF ReadFrame
<1>3. CASE TeamColorUnknown
  BY <1>3 DEF TeamColorUnknown
<1>4. CASE TakeTeamColor
  BY <1>4 DEF TakeTeamColor, SetEnemyColor
<1>5. CASE RejectSize
  BY <1>5 DEF RejectSize
<1>6. CASE ComputeCommand
  BY <1>6 DEF ComputeCommand
<1>7. CASE PublishCheck
  BY <1>7 DEF PublishCheck
<1>8. CASE PublishSend
  <2> DEFINE message == IF verdict THEN job ELSE SafeCommand
  <2>1. message \in Command
    BY SafeCommandType
  <2>2. PublishResult(message)
    BY <1>8 DEF PublishSend
  <2> HIDE DEF message
  <2>3. resultMutex' \in {"free", "main"} /\ main' \in {"read", "exited"}
    BY <1>8 DEF PublishSend
  <2>4. QED
    BY <1>8, <2>1, <2>2, <2>3, PublishResultType DEF PublishSend
<1>9. CASE Exit
  BY <1>9 DEF Exit
<1>10. CASE RevokeOldTeam
  <2>1. PublishResult(SafeCommand) /\ SafeCommand \in Command
    BY <1>10, SafeCommandType DEF RevokeOldTeam
  <2>2. /\ topic' \in Command
        /\ unread' \in BOOLEAN
        /\ sinceResult' \in 0..OldestResult + 1
        /\ watchdogSent' \in BOOLEAN
    BY <2>1, PublishResultType
  <2>3. QED
    BY <1>10, <2>2 DEF RevokeOldTeam
<1>11. CASE WatchdogCallback
  <2>1. timerAge' \in 0..WatchdogPeriod + TimerSlack
    BY <1>11 DEF WatchdogCallback
  <2>2. topic' \in Command /\ sinceResult' = sinceResult
    BY <1>11, SafeCommandType DEF WatchdogCallback
  <2>3. unread' \in BOOLEAN /\ watchdogSent' \in BOOLEAN
    BY <1>11, Zenon DEF WatchdogCallback
  <2>4. QED
    BY <1>11, <2>1, <2>2, <2>3 DEF WatchdogCallback
<1>12. CASE Tick
  BY <1>12 DEF Tick, Older, OldestResult
<1>13. ASSUME NEW color \in Colors, SelfIsRedCallback(color)
      PROVE  TypeOK'
  BY <1>13 DEF SelfIsRedCallback
<1>14. CASE UNCHANGED vars
  BY <1>14
<1>15. QED
  BY <1>1, <1>2, <1>3, <1>4, <1>5, <1>6, <1>7, <1>8, <1>9, <1>10, <1>11, <1>12, <1>13, <1>14 DEF Next, MainStep, SpinStep

(* Every step keeps result_mutex_ in step with publish().                  *)
LEMMA MutexPreserved ==
  ASSUME TypeOK, MutexInv, [Next]_vars
  PROVE  MutexInv'
<1> USE TimingAssumption DEF vars, gateVars, colorVars, spinVars, loopVars, TypeOK, MutexInv
<1>1. CASE ReadFails
  BY <1>1 DEF ReadFails
<1>2. CASE ReadFrame
  BY <1>2 DEF ReadFrame
<1>3. CASE TeamColorUnknown
  BY <1>3 DEF TeamColorUnknown
<1>4. CASE TakeTeamColor
  BY <1>4 DEF TakeTeamColor, SetEnemyColor
<1>5. CASE RejectSize
  BY <1>5 DEF RejectSize
<1>6. CASE ComputeCommand
  BY <1>6 DEF ComputeCommand
<1>7. CASE PublishCheck
  BY <1>7 DEF PublishCheck
<1>8. CASE PublishSend
  BY <1>8 DEF PublishSend, PublishResult
<1>9. CASE Exit
  BY <1>9 DEF Exit
<1>10. CASE RevokeOldTeam
  BY <1>10 DEF RevokeOldTeam, PublishResult
<1>11. CASE WatchdogCallback
  BY <1>11 DEF WatchdogCallback
<1>12. CASE Tick
  BY <1>12 DEF Tick, Older, OldestResult
<1>13. ASSUME NEW color \in Colors, SelfIsRedCallback(color)
      PROVE  MutexInv'
  BY <1>13 DEF SelfIsRedCallback
<1>14. CASE UNCHANGED vars
  BY <1>14
<1>15. QED
  BY <1>1, <1>2, <1>3, <1>4, <1>5, <1>6, <1>7, <1>8, <1>9, <1>10, <1>11, <1>12, <1>13, <1>14 DEF Next, MainStep, SpinStep

(* Every step keeps commands at most one revocation behind.                *)
LEMMA RevisionPreserved ==
  ASSUME TypeOK, MutexInv, RevisionInv, [Next]_vars
  PROVE  RevisionInv'
<1> USE TimingAssumption DEF vars, gateVars, colorVars, spinVars, loopVars,
           TypeOK, MutexInv, RevisionInv, Current, Command, SafeCommand,
           Colors, NoColor
<1>1. CASE ReadFails
  BY <1>1 DEF ReadFails
<1>2. CASE ReadFrame
  BY <1>2 DEF ReadFrame
<1>3. CASE TeamColorUnknown
  BY <1>3 DEF TeamColorUnknown
<1>4. CASE TakeTeamColor
  BY <1>4 DEF TakeTeamColor, SetEnemyColor
<1>5. CASE RejectSize
  BY <1>5 DEF RejectSize
<1>6. CASE ComputeCommand
  BY <1>6 DEF ComputeCommand
<1>7. CASE PublishCheck
  BY <1>7 DEF PublishCheck
<1>8. CASE PublishSend
  BY <1>8 DEF PublishSend, PublishResult
<1>9. CASE Exit
  BY <1>9 DEF Exit
<1>10. CASE RevokeOldTeam
  BY <1>10 DEF RevokeOldTeam, PublishResult
<1>11. CASE WatchdogCallback
  BY <1>11 DEF WatchdogCallback
<1>12. CASE Tick
  BY <1>12 DEF Tick, Older, OldestResult
<1>13. ASSUME NEW color \in Colors, SelfIsRedCallback(color)
      PROVE  RevisionInv'
  BY <1>13 DEF SelfIsRedCallback
<1>14. CASE UNCHANGED vars
  BY <1>14
<1>15. QED
  BY <1>1, <1>2, <1>3, <1>4, <1>5, <1>6, <1>7, <1>8, <1>9, <1>10, <1>11, <1>12, <1>13, <1>14 DEF Next, MainStep, SpinStep

(* Every step keeps the colour of a command with its revision.             *)
LEMMA ColorPreserved ==
  ASSUME TypeOK, MutexInv, RevisionInv, ColorInv, [Next]_vars
  PROVE  ColorInv'
<1> USE TimingAssumption DEF vars, gateVars, colorVars, spinVars, loopVars,
           TypeOK, RevisionInv, ColorInv, Command, SafeCommand, Colors,
           NoColor
<1>1. CASE ReadFails
  BY <1>1 DEF ReadFails
<1>2. CASE ReadFrame
  BY <1>2 DEF ReadFrame
<1>3. CASE TeamColorUnknown
  BY <1>3 DEF TeamColorUnknown
<1>4. CASE TakeTeamColor
  BY <1>4 DEF TakeTeamColor, SetEnemyColor
<1>5. CASE RejectSize
  BY <1>5 DEF RejectSize
<1>6. CASE ComputeCommand
  BY <1>6 DEF ComputeCommand
<1>7. CASE PublishCheck
  BY <1>7 DEF PublishCheck
<1>8. CASE PublishSend
  BY <1>8 DEF PublishSend, PublishResult
<1>9. CASE Exit
  BY <1>9 DEF Exit
<1>10. CASE RevokeOldTeam
  BY <1>10 DEF RevokeOldTeam, PublishResult
<1>11. CASE WatchdogCallback
  BY <1>11 DEF WatchdogCallback
<1>12. CASE Tick
  BY <1>12 DEF Tick, Older, OldestResult
<1>13. ASSUME NEW color \in Colors, SelfIsRedCallback(color)
      PROVE  ColorInv'
  BY <1>13 DEF SelfIsRedCallback
<1>14. CASE UNCHANGED vars
  BY <1>14
<1>15. QED
  BY <1>1, <1>2, <1>3, <1>4, <1>5, <1>6, <1>7, <1>8, <1>9, <1>10, <1>11, <1>12, <1>13, <1>14 DEF Next, MainStep, SpinStep

(* Every step keeps the watchdog ahead of a standing command.              *)
LEMMA WatchdogPreserved ==
  ASSUME TypeOK, MutexInv, WatchdogInv, [Next]_vars
  PROVE  WatchdogInv'
<1> USE TimingAssumption DEF vars, gateVars, colorVars, spinVars, loopVars,
           TypeOK, MutexInv, WatchdogInv, Command, SafeCommand, OldestResult
<1>1. CASE ReadFails
  BY <1>1 DEF ReadFails
<1>2. CASE ReadFrame
  BY <1>2 DEF ReadFrame
<1>3. CASE TeamColorUnknown
  BY <1>3 DEF TeamColorUnknown
<1>4. CASE TakeTeamColor
  BY <1>4 DEF TakeTeamColor, SetEnemyColor
<1>5. CASE RejectSize
  BY <1>5 DEF RejectSize
<1>6. CASE ComputeCommand
  BY <1>6 DEF ComputeCommand
<1>7. CASE PublishCheck
  BY <1>7 DEF PublishCheck
<1>8. CASE PublishSend
  BY <1>8 DEF PublishSend, PublishResult
<1>9. CASE Exit
  BY <1>9 DEF Exit
<1>10. CASE RevokeOldTeam
  BY <1>10 DEF RevokeOldTeam, PublishResult
<1>11. CASE WatchdogCallback
  BY <1>11 DEF WatchdogCallback
<1>12. CASE Tick
  BY <1>12 DEF Tick, Older, OldestResult
<1>13. ASSUME NEW color \in Colors, SelfIsRedCallback(color)
      PROVE  WatchdogInv'
  BY <1>13 DEF SelfIsRedCallback
<1>14. CASE UNCHANGED vars
  BY <1>14
<1>15. QED
  BY <1>1, <1>2, <1>3, <1>4, <1>5, <1>6, <1>7, <1>8, <1>9, <1>10, <1>11, <1>12, <1>13, <1>14 DEF Next, MainStep, SpinStep

-----------------------------------------------------------------------------
(* Init starts in the invariant.                                           *)
LEMMA InitInv == Init => IInv
<1> SUFFICES ASSUME Init PROVE IInv
  OBVIOUS
<1>1. TypeOK
  <2>1. topic \in Command /\ job \in Command
    BY SafeCommandType DEF Init
  <2>2. unread \in BOOLEAN /\ watchdogSent \in BOOLEAN
        /\ verdict \in BOOLEAN /\ quit \in BOOLEAN
    BY DEF Init
  <2>3. QED
    BY <2>1, <2>2, TimingAssumption
       DEF Init, TypeOK, Colors, NoColor, OldestResult
<1>2. MutexInv /\ RevisionInv
  BY DEF Init, MutexInv, RevisionInv, Current, SafeCommand
<1>3. ColorInv
  BY DEF Init, ColorInv, SafeCommand, Colors, NoColor
<1>4. WatchdogInv
  BY DEF Init, WatchdogInv, SafeCommand
<1>5. QED
  BY <1>1, <1>2, <1>3, <1>4 DEF IInv

(* IInv is inductive.                                                      *)
LEMMA InvPreserved == IInv /\ [Next]_vars => IInv'
BY TypePreserved, MutexPreserved, RevisionPreserved, ColorPreserved,
   WatchdogPreserved DEF IInv

(* Every reachable state satisfies IInv.                                   *)
THEOREM Invariance == Spec => []IInv
BY InitInv, InvPreserved, PTL DEF Spec

(* The variables always have their types.                                  *)
THEOREM TypeCorrect == Spec => []TypeOK
<1>1. IInv => TypeOK
  BY DEF IInv
<1>2. QED
  BY <1>1, Invariance, PTL

(* After the revocation of a colour, no command computed for an earlier    *)
(* colour stands on /auto_aim/result, whatever the interleaving of main    *)
(* loop and executor and however many changes of colour there are.         *)
THEOREM OldTeamRevoked == Spec => []RevokedStaysRevoked
<1>1. IInv => RevokedStaysRevoked
  BY DEF IInv, RevisionInv, Current, RevokedStaysRevoked, TypeOK
<1>2. QED
  BY <1>1, Invariance, PTL

(* A command of the current revision aims at an enemy of the current team. *)
THEOREM EnemyOnly == Spec => []AimsAtTheEnemy
<1>1. IInv => AimsAtTheEnemy
  BY DEF IInv, ColorInv, AimsAtTheEnemy
<1>2. QED
  BY <1>1, Invariance, PTL

(* However long the main thread hangs, a command never outlives the        *)
(* timeout by more than a watchdog period and the lateness of its timer.   *)
THEOREM WatchdogBound == Spec => []NoUnattendedCommand
<1>1. IInv => NoUnattendedCommand
  BY TimingAssumption
     DEF IInv, WatchdogInv, NoUnattendedCommand, TypeOK, OldestResult
<1>2. QED
  BY <1>1, Invariance, PTL

-----------------------------------------------------------------------------
(* Every step of the client is a step of Revocation or leaves it alone.    *)
(* Only a publication by main needs the invariant: the command it engages  *)
(* is of the current era, or of the previous one while that is not revoked. *)
LEMMA StepSimulation ==
  ASSUME IInv, [Next]_vars
  PROVE  [Promise!Next]_<<revision,
           IF spin = "revoke" THEN revision - 1 ELSE revision,
           IF topic.control THEN topic.rev ELSE 0>>
<1> DEFINE engaged == IF topic.control THEN topic.rev ELSE 0
           revoked == IF spin = "revoke" THEN revision - 1 ELSE revision
           stutter == UNCHANGED <<revision, revoked, engaged>>
<1> USE DEF vars, gateVars, colorVars, spinVars, loopVars, IInv
<1>1. CASE UNCHANGED <<topic, revision, spin>>
  <2>1. stutter
    BY <1>1
  <2>2. QED
    BY <2>1
<1>2. CASE PublishSend
  <2>1. UNCHANGED <<revision, spin>> /\ revoked' = revoked
    BY <1>2 DEF PublishSend
  <2>2. topic' = IF verdict THEN job ELSE SafeCommand
    BY <1>2 DEF PublishSend, PublishResult
  <2>3. CASE verdict /\ job.control
    <3>1. topic'.control /\ topic'.rev = job.rev
      BY <2>2, <2>3 DEF TypeOK, Command
    <3>2. job.rev # 0 /\ job.rev \in revoked..revision
      BY <1>2, <2>3 DEF PublishSend, RevisionInv, Current, TypeOK, Command
    <3>3. engaged' \in (revoked..revision) \ {0}
      BY <3>1, <3>2
    <3>4. QED
      BY <2>1, <3>3 DEF Promise!Next, Promise!Engage, Promise!Safe
  <2>4. CASE ~(verdict /\ job.control)
    <3>1. ~topic'.control
      BY <2>2, <2>4 DEF TypeOK, Command, SafeCommand
    <3>2. QED
      BY <2>1, <3>1 DEF Promise!Next, Promise!Release, Promise!Safe
  <2>5. QED
    BY <2>3, <2>4
<1>3. CASE RevokeOldTeam
  <2>1. spin = "revoke" /\ spin' = "idle" /\ ~topic'.control
        /\ revision' = revision
    BY <1>3 DEF RevokeOldTeam, PublishResult, SafeCommand
  <2>2. QED
    BY <2>1 DEF Promise!Next, Promise!Revoke, Promise!Safe, TypeOK
<1>4. CASE WatchdogCallback
  <2>1. UNCHANGED <<revision, spin>> /\ (topic' = topic \/ ~topic'.control)
    BY <1>4 DEF WatchdogCallback, SafeCommand
  <2>2. QED
    BY <2>1 DEF Promise!Next, Promise!Release, Promise!Safe
<1>5. ASSUME NEW color \in Colors, SelfIsRedCallback(color)
      PROVE  Promise!OpenEra
  BY <1>5 DEF SelfIsRedCallback, Promise!OpenEra, TypeOK
<1>6. ReadFails \/ ReadFrame \/ TeamColorUnknown \/ TakeTeamColor \/ RejectSize
        \/ ComputeCommand \/ PublishCheck \/ Exit \/ Tick
      => UNCHANGED <<topic, revision, spin>>
  BY DEF ReadFails, ReadFrame, TeamColorUnknown, TakeTeamColor, RejectSize,
         ComputeCommand, PublishCheck, Exit, Tick
<1>7. QED
  BY <1>1, <1>2, <1>3, <1>4, <1>5, <1>6
     DEF Next, MainStep, SpinStep, Promise!Next

(* The client keeps the promise of Revocation: refinement for every        *)
(* timing and every number of colour changes.                              *)
THEOREM Refinement == Spec => ImplementsRevocation
<1>1. Init => Promise!Init
  BY DEF Init, SafeCommand, Promise!Init, Promise!Safe
<1>2. QED
  BY <1>1, StepSimulation, Invariance, PTL
     DEF Spec, ImplementsRevocation, Promise!Spec

-----------------------------------------------------------------------------
(* The gate with rm_mqtt and the robot behind it.                          *)
LinkTypeOK ==
  /\ slot \in SUBSET Messages
  /\ held \in SUBSET Messages
  /\ sinceSend \in Nat
  /\ robot \in [mode : 0..2, rev : 0..MaxRevision, age : Nat]
  /\ intact \in BOOLEAN
  /\ settled \in BOOLEAN

(* rm_mqtt never has to refuse what the client publishes.                  *)
FiniteInv ==
  /\ topic.finite
  /\ main = "send" /\ verdict => job.finite
  /\ \A m \in slot \cup held : m.finite

(* Unless the watchdog has fired it is armed, and what is on its way to    *)
(* the robot was published in this tick.  When it has fired, no command is *)
(* on its way.                                                             *)
ArmedInv ==
  /\ ~watchdogSent /\ main # "exited" => sinceResult <= CommandTimeout + timerAge
  /\ ~watchdogSent /\ Pending => sinceResult = 0
  /\ watchdogSent => \A m \in slot \cup held : m.mode = 0

(* While nothing is lost, the limiter counts the age of the robot's block. *)
RateInv ==
  intact /\ robot.mode # 0 =>
    sinceSend = IF robot.age < SendPeriod THEN robot.age ELSE SendPeriod

Driven ==
  /\ intact
  /\ SendPeriod <= CommandTimeout
  /\ main # "exited"
  /\ robot.mode # 0

(* The block of a driven robot is at least as old as the last result, and  *)
(* older by no more than a send period, in which results are dropped.  The *)
(* message of the watchdog is too late to be dropped.                      *)
DrivenInv ==
  Driven =>
    /\ ~Pending => /\ ~watchdogSent
                   /\ sinceResult <= robot.age
                   /\ robot.age <= sinceResult + SendPeriod
    /\ Pending => robot.age <= OldestBlock
    /\ Pending /\ watchdogSent => SendPeriod <= robot.age

(* After the tick of a revocation, rm_mqtt has no command of an earlier    *)
(* colour any more, and what the robot has of one is older.                *)
RevokedInv ==
  settled /\ spin = "idle" =>
    /\ \A m \in slot \cup held : m.mode # 0 => m.rev = revision
    /\ robot.mode # 0 /\ robot.rev # revision => robot.age > 0

LinkInv ==
  LinkTypeOK /\ FiniteInv /\ ArmedInv /\ RateInv /\ DrivenInv /\ RevokedInv

-----------------------------------------------------------------------------
(* A step of the client leaves the robot alone; those behind it leave the  *)
(* client alone, and all they take from it is the message on its way.      *)
LEMMA GatePreserved ==
  ASSUME IInv, [LinkNext]_allVars
  PROVE  IInv'
<1>1. CASE [Next]_vars
  BY <1>1, InvPreserved
<1>2. CASE MessageArrives
  <2>1. /\ unread' \in BOOLEAN
        /\ UNCHANGED <<topic, sinceResult, watchdogSent, colorVars, spinVars,
                       loopVars, resultMutex>>
    BY <1>2, Zenon DEF MessageArrives
  <2>2. TypeOK'
    BY <2>1 DEF colorVars, spinVars, loopVars, IInv, TypeOK
  <2>3. MutexInv' /\ RevisionInv' /\ ColorInv' /\ WatchdogInv'
    BY <2>1 DEF colorVars, spinVars, loopVars, IInv, MutexInv, RevisionInv,
                Current, ColorInv, WatchdogInv
  <2>4. QED
    BY <2>2, <2>3 DEF IInv
<1>3. [Next]_vars \/ MessageArrives
  BY DEF LinkNext, allVars, ClientStep, DeliverResult, LoseResult, TakeResult,
         PublishFails, PublishBlock, LinkChanges, LinkTick, Next
<1>4. QED
  BY <1>1, <1>2, <1>3

(* A message to the robot carries the revision of the result, and the      *)
(* result commands if the message does.                                    *)
LEMMA MessageFacts ==
  ASSUME NEW command \in Command
  PROVE  /\ Message(command) \in Messages
         /\ Message(command).finite = command.finite
         /\ Message(command).mode # 0 =>
              command.control /\ Message(command).rev = command.rev
BY TimingAssumption DEF Message, Mode, Messages, Command

-----------------------------------------------------------------------------
(* A step of the client changes colour or revokes, or keeps both.          *)
LEMMA ClientKeepsRevision ==
  ASSUME LinkInv, ClientStep
  PROVE  RevokedInv' /\ LinkTypeOK' /\ RateInv'
<1> USE DEF linkVars, nodeVars
<1>1. spin' = spin => revision' = revision
  BY DEF ClientStep, MainStep, SpinStep, ReadFails, ReadFrame,
         TeamColorUnknown, TakeTeamColor, RejectSize, ComputeCommand,
         PublishCheck, PublishSend, Exit, RevokeOldTeam, WatchdogCallback,
         SelfIsRedCallback, colorVars
<1>2. settled' = (settled /\ spin' = spin) /\ UNCHANGED linkVars
  BY DEF ClientStep
<1>3. RevokedInv'
  BY <1>1, <1>2 DEF LinkInv, RevokedInv
<1>4. settled' \in BOOLEAN
  BY <1>2, Zenon
<1>5. LinkTypeOK' /\ RateInv'
  BY <1>2, <1>4 DEF LinkInv, LinkTypeOK, RateInv
<1>6. QED
  BY <1>3, <1>5

(* The steps of the client that do not publish.                            *)
Silent ==
  \/ ReadFails \/ ReadFrame \/ TeamColorUnknown \/ TakeTeamColor
  \/ RejectSize \/ ComputeCommand \/ PublishCheck \/ Exit
  \/ \E color \in Colors : SelfIsRedCallback(color)

LEMMA SilentPreserves ==
  ASSUME LinkInv, Silent, ClientStep
  PROVE  LinkInv'
<1> USE DEF gateVars, colorVars, spinVars, loopVars, linkVars, nodeVars
<1>1. /\ UNCHANGED <<gateVars, timerAge>>
      /\ main' # "exited" => main # "exited"
  BY DEF Silent, ReadFails, ReadFrame, TeamColorUnknown, TakeTeamColor,
         RejectSize, ComputeCommand, PublishCheck, Exit, SelfIsRedCallback
<1>2. main' = "send" /\ verdict' => job'.finite
  BY DEF Silent, ReadFails, ReadFrame, TeamColorUnknown, TakeTeamColor,
         RejectSize, ComputeCommand, PublishCheck, Exit, SelfIsRedCallback,
         LinkInv, FiniteInv
<1>3. UNCHANGED linkVars
  BY DEF ClientStep
<1>4. FiniteInv'
  BY <1>1, <1>2, <1>3 DEF LinkInv, FiniteInv
<1>5. ArmedInv'
  BY <1>1, <1>3 DEF LinkInv, ArmedInv, Pending
<1>6. DrivenInv'
  BY <1>1, <1>3 DEF LinkInv, DrivenInv, Driven, Pending
<1>7. QED
  BY <1>4, <1>5, <1>6, ClientKeepsRevision DEF LinkInv

(* A publication by main, or by the colour callback.                       *)
LEMMA PublicationPreserves ==
  ASSUME IInv, LinkInv, PublishSend \/ RevokeOldTeam, ClientStep
  PROVE  LinkInv'
<1> USE TimingAssumption, LinkAssumption
    DEF gateVars, colorVars, spinVars, loopVars, linkVars, nodeVars
<1>1. /\ sinceResult' = 0 /\ unread' /\ ~watchdogSent'
      /\ timerAge' = timerAge
      /\ main' # "exited" => main # "exited"
      /\ main' # "send"
  <2>1. CASE PublishSend
    BY <2>1 DEF PublishSend, PublishResult
  <2>2. CASE RevokeOldTeam
    BY <2>2 DEF RevokeOldTeam, PublishResult, IInv, MutexInv
  <2>3. QED
    BY <2>1, <2>2
<1>2. topic'.finite
  BY DEF PublishSend, RevokeOldTeam, PublishResult, SafeCommand, LinkInv,
         FiniteInv, IInv, TypeOK, Command
<1>3. UNCHANGED linkVars
  BY DEF ClientStep
<1>4. FiniteInv'
  BY <1>1, <1>2, <1>3 DEF LinkInv, FiniteInv
<1>5. ArmedInv'
  BY <1>1 DEF ArmedInv, IInv, TypeOK
<1>6. DrivenInv'
  <2>1. Driven' => Driven
    BY <1>1, <1>3 DEF Driven
  <2>2. Driven => robot.age <= OldestBlock
    <3>1. ~Pending /\ Driven => robot.age <= OldestBlock
      BY DEF LinkInv, DrivenInv, LinkTypeOK, ArmedInv, Driven, IInv, TypeOK,
             OldestBlock, OldestResult
    <3>2. QED
      BY <3>1 DEF LinkInv, DrivenInv
  <2>3. Pending'
    BY <1>1 DEF Pending
  <2>4. QED
    BY <1>1, <1>3, <2>1, <2>2, <2>3 DEF DrivenInv
<1>7. QED
  BY <1>4, <1>5, <1>6, ClientKeepsRevision DEF LinkInv

(* The watchdog publishes when the robot's block is old enough not to be   *)
(* followed too soon, and when nothing else is on its way.                 *)
LEMMA WatchdogPreservesLink ==
  ASSUME IInv, LinkInv, WatchdogCallback, ClientStep
  PROVE  LinkInv'
<1> USE TimingAssumption, LinkAssumption
    DEF gateVars, colorVars, spinVars, loopVars, linkVars, nodeVars
<1>1. UNCHANGED linkVars /\ UNCHANGED <<main, verdict, job, sinceResult>>
  BY DEF ClientStep, WatchdogCallback
<1>2. FiniteInv'
  BY <1>1 DEF WatchdogCallback, LinkInv, FiniteInv, SafeCommand
<1>3. CASE sinceResult < CommandTimeout \/ watchdogSent
  <2>1. UNCHANGED <<watchdogSent, unread>> /\ timerAge' = timerAge - WatchdogPeriod
    BY <1>3 DEF WatchdogCallback
  <2>2. ~watchdogSent => sinceResult < CommandTimeout
    BY <1>3
  <2>3. timerAge' \in Nat
    BY <2>1 DEF WatchdogCallback, IInv, TypeOK
  <2>4. ArmedInv'
    BY <1>1, <2>1, <2>2, <2>3 DEF LinkInv, ArmedInv, Pending, IInv, TypeOK
  <2>5. DrivenInv'
    BY <1>1, <2>1 DEF LinkInv, DrivenInv, Driven, Pending
  <2>6. QED
    BY <1>2, <2>4, <2>5, ClientKeepsRevision DEF LinkInv
<1>4. CASE ~(sinceResult < CommandTimeout \/ watchdogSent)
  <2>1. unread' /\ watchdogSent'
    BY <1>4 DEF WatchdogCallback
  <2>2. ~Pending
    BY <1>4 DEF LinkInv, ArmedInv, IInv, TypeOK
  <2>3. Driven => SendPeriod <= robot.age /\ robot.age <= OldestBlock
    BY <1>4, <2>2 DEF LinkInv, DrivenInv, LinkTypeOK, ArmedInv, Driven, IInv,
                      TypeOK, OldestBlock, OldestResult
  <2>4. ArmedInv'
    BY <1>1, <2>1, <2>2 DEF ArmedInv, Pending
  <2>5. DrivenInv'
    BY <1>1, <2>1, <2>3 DEF DrivenInv, Driven, Pending
  <2>6. QED
    BY <1>2, <2>4, <2>5, ClientKeepsRevision DEF LinkInv
<1>5. QED
  BY <1>3, <1>4

-----------------------------------------------------------------------------
(* ROS delivers a message.  Were it a command for an earlier colour, the   *)
(* revocation would still be owed.                                         *)
LEMMA DeliveryPreserves ==
  ASSUME IInv, LinkInv, DeliverResult
  PROVE  LinkInv'
<1> USE DEF colorVars, spinVars, loopVars
<1>1. /\ unread
      /\ slot' = {Message(topic)}
      /\ UNCHANGED <<topic, sinceResult, watchdogSent, revision, spin, timerAge,
                     main, verdict, job, held, sinceSend, connected, robot,
                     intact, settled>>
  BY DEF DeliverResult, MessageArrives
<1>2. /\ Message(topic) \in Messages
      /\ Message(topic).finite
      /\ Message(topic).mode # 0 => topic.control /\ Message(topic).rev = topic.rev
  BY MessageFacts DEF IInv, TypeOK, LinkInv, FiniteInv
<1>3. LinkTypeOK' /\ FiniteInv' /\ RateInv'
  BY <1>1, <1>2 DEF LinkInv, LinkTypeOK, FiniteInv, RateInv
<1>4. Pending /\ Pending'
  BY <1>1 DEF Pending
<1>5. ArmedInv'
  <2>1. watchdogSent => ~topic.control
    BY DEF IInv, WatchdogInv
  <2>2. QED
    BY <1>1, <1>2, <1>4, <2>1 DEF LinkInv, ArmedInv
<1>6. DrivenInv'
  BY <1>1, <1>4 DEF LinkInv, DrivenInv, Driven
<1>7. RevokedInv'
  <2>1. topic.control /\ spin = "idle" => topic.rev = revision
    BY DEF IInv, RevisionInv, Current
  <2>2. QED
    BY <1>1, <1>2, <2>1 DEF LinkInv, RevokedInv
<1>8. QED
  BY <1>3, <1>5, <1>6, <1>7 DEF LinkInv

(* A message is lost: by ROS, by the cut link, or by an error.             *)
LEMMA LossPreserves ==
  ASSUME LinkInv, ~intact', settled' = settled,
         UNCHANGED <<topic, sinceResult, watchdogSent, revision, spin, timerAge,
                     main, verdict, job>>,
         UNCHANGED robot, sinceSend' \in Nat,
         slot' \in {slot, {}}, held' \in {held, slot, {}},
         Pending' => Pending, intact' \in BOOLEAN
  PROVE  LinkInv'
<1>1. slot' \cup held' \subseteq slot \cup held
  OBVIOUS
<1>2. LinkTypeOK'
  BY DEF LinkInv, LinkTypeOK
<1>3. FiniteInv' /\ ArmedInv'
  BY <1>1 DEF LinkInv, FiniteInv, ArmedInv
<1>4. RateInv' /\ DrivenInv'
  BY DEF RateInv, DrivenInv, Driven
<1>5. RevokedInv'
  BY <1>1 DEF LinkInv, RevokedInv
<1>6. QED
  BY <1>2, <1>3, <1>4, <1>5 DEF LinkInv

(* rm_mqtt takes a message, and drops it when it comes too early.          *)
LEMMA TakingPreserves ==
  ASSUME IInv, LinkInv, TakeResult
  PROVE  LinkInv'
<1> USE TimingAssumption, LinkAssumption
    DEF vars, gateVars, colorVars, spinVars, loopVars
<1>1. /\ slot # {} /\ slot' = {} /\ held' \in {slot, {}}
      /\ UNCHANGED <<topic, unread, sinceResult, watchdogSent, revision, spin,
                     timerAge, main, verdict, job, sinceSend, robot, settled>>
  BY DEF TakeResult
<1>2. Pending /\ slot' \cup held' \subseteq slot \cup held
  BY <1>1 DEF Pending
<1>3. intact' \in BOOLEAN /\ (intact' => intact /\ connected)
  BY Zenon DEF TakeResult
<1>4. CASE ~intact'
  BY <1>1, <1>2, <1>3, <1>4, LossPreserves DEF LinkInv, LinkTypeOK
<1>5. CASE intact'
  <2>1. LinkTypeOK'
    BY <1>1, <1>3 DEF LinkInv, LinkTypeOK
  <2>2. FiniteInv' /\ ArmedInv' /\ RevokedInv'
    BY <1>1, <1>2 DEF LinkInv, FiniteInv, ArmedInv, RevokedInv
  <2>3. RateInv'
    BY <1>1, <1>3, <1>5 DEF LinkInv, RateInv
  <2>4. Driven' <=> Driven
    BY <1>1, <1>3, <1>5 DEF Driven
  <2>5. Pending' => DrivenInv'
    BY <1>1, <1>2, <2>4 DEF LinkInv, DrivenInv
  <2>6. ASSUME ~Pending' PROVE DrivenInv'
    <3>1. RateLimited
      BY <1>1, <1>3, <1>5, <2>6 DEF TakeResult, Pending
    <3>2. Driven => robot.age < SendPeriod
      BY <3>1 DEF RateLimited, Driven, LinkInv, LinkTypeOK, RateInv
    <3>3. Driven => ~watchdogSent /\ sinceResult = 0
      BY <1>2, <3>2 DEF LinkInv, LinkTypeOK, DrivenInv, ArmedInv
    <3>4. QED
      BY <1>1, <2>4, <2>6, <3>2, <3>3 DEF DrivenInv, LinkInv, LinkTypeOK
  <2>7. QED
    BY <2>1, <2>2, <2>3, <2>5, <2>6 DEF LinkInv
<1>6. QED
  BY <1>4, <1>5

(* A block reaches the robot, or is lost on the way.                       *)
LEMMA SendingPreserves ==
  ASSUME IInv, LinkInv, PublishBlock
  PROVE  LinkInv'
<1> USE TimingAssumption, LinkAssumption
    DEF vars, gateVars, colorVars, spinVars, loopVars
<1>1. /\ held # {} /\ held' = {} /\ sinceSend' = 0
      /\ UNCHANGED <<topic, unread, sinceResult, watchdogSent, revision, spin,
                     timerAge, main, verdict, job, slot, settled>>
  BY DEF PublishBlock
<1>2. Pending
  BY <1>1 DEF Pending
<1>3. CASE UNCHANGED robot /\ intact' = FALSE
  BY <1>1, <1>2, <1>3, LossPreserves DEF Pending
<1>4. ASSUME NEW m \in held, intact' = TRUE,
             robot' = [mode |-> m.mode, rev |-> m.rev, age |-> 0]
      PROVE  LinkInv'
  <2>1. m.mode \in 0..2 /\ m.rev \in 0..MaxRevision
    BY DEF LinkInv, LinkTypeOK, Messages
  <2>2. robot'.mode = m.mode /\ robot'.rev = m.rev /\ robot'.age = 0
    BY <1>4
  <2>3. LinkTypeOK'
    BY <1>1, <1>4, <2>1 DEF LinkInv, LinkTypeOK
  <2>4. FiniteInv' /\ RateInv'
    BY <1>1, <2>2 DEF LinkInv, FiniteInv, RateInv
  <2>5. ArmedInv'
    BY <1>1, <1>2 DEF LinkInv, ArmedInv
  <2>6. DrivenInv'
    <3>1. m.mode # 0 => ~watchdogSent /\ sinceResult = 0
      BY <1>2 DEF LinkInv, ArmedInv
    <3>2. QED
      BY <1>1, <2>2, <3>1 DEF DrivenInv, Driven, OldestBlock, OldestResult
  <2>7. RevokedInv'
    BY <1>1, <2>2 DEF LinkInv, RevokedInv
  <2>8. QED
    BY <2>3, <2>4, <2>5, <2>6, <2>7 DEF LinkInv
<1>5. QED
  BY <1>3, <1>4 DEF PublishBlock

(* A tick makes result and block older together.                           *)
LEMMA LinkTickPreserves ==
  ASSUME IInv, LinkInv, LinkTick
  PROVE  LinkInv'
<1> USE TimingAssumption, LinkAssumption DEF colorVars
<1>1. /\ ~Pending
      /\ UNCHANGED <<topic, unread, watchdogSent, revision, spin, main, job,
                     verdict, slot, held, intact>>
      /\ sinceResult' = Older(sinceResult, OldestResult)
      /\ timerAge' = IF main = "exited" THEN timerAge ELSE timerAge + 1
      /\ sinceSend' = Older(sinceSend, SendPeriod - 1)
  BY DEF LinkTick, Tick
<1>2. /\ sinceResult \in Nat /\ timerAge \in Nat
      /\ main # "exited" => timerAge + 1 <= WatchdogPeriod + TimerSlack
      /\ sinceSend \in Nat /\ robot.age \in Nat
      /\ OldestResult \in Nat /\ OldestBlock = SendPeriod + OldestResult + 1
  BY DEF LinkTick, Tick, IInv, TypeOK, LinkInv, LinkTypeOK, OldestResult,
         OldestBlock
<1>3. /\ robot' \in [mode : 0..2, rev : 0..MaxRevision, age : Nat]
      /\ robot'.mode = robot.mode
      /\ robot.mode # 0 => robot'.age > 0
      /\ robot.mode # 0 /\ intact => robot'.age = Older(robot.age, OldestBlock)
  BY <1>2 DEF LinkTick, LinkInv, LinkTypeOK, Older
<1>4. ~Pending' /\ slot = {} /\ held = {} /\ slot' = {} /\ held' = {}
  BY <1>1 DEF Pending
<1>5. LinkTypeOK'
  <2>1. sinceSend' \in Nat
    BY <1>1, <1>2 DEF Older
  <2>2. settled' \in BOOLEAN
    BY Zenon DEF LinkTick
  <2>3. QED
    BY <1>1, <1>3, <2>1, <2>2 DEF LinkInv, LinkTypeOK
<1>6. FiniteInv'
  BY <1>1 DEF LinkInv, FiniteInv
<1>7. ArmedInv'
  BY <1>1, <1>2, <1>4 DEF LinkInv, ArmedInv, Older
<1>8. RateInv'
  BY <1>1, <1>2, <1>3 DEF LinkInv, RateInv, Older
<1>9. RevokedInv'
  BY <1>3, <1>4 DEF RevokedInv
<1>10. DrivenInv'
  <2>1. Driven' <=> Driven
    BY <1>1, <1>3 DEF Driven
  <2>2. Driven => /\ ~watchdogSent
                  /\ sinceResult <= robot.age
                  /\ robot.age <= sinceResult + SendPeriod
                  /\ sinceResult <= OldestResult
    BY <1>1, <1>2 DEF LinkInv, DrivenInv, ArmedInv, Driven, OldestResult
  <2>3. Driven => sinceResult' = sinceResult + 1 /\ robot'.age = robot.age + 1
    BY <1>1, <1>2, <1>3, <2>2 DEF Older, Driven
  <2>4. QED
    BY <1>1, <1>2, <1>4, <2>1, <2>2, <2>3 DEF DrivenInv
<1>11. QED
  BY <1>5, <1>6, <1>7, <1>8, <1>9, <1>10 DEF LinkInv

-----------------------------------------------------------------------------
(* Every reachable state satisfies both invariants.                        *)
LEMMA LinkInvariance == LinkSpec => [](IInv /\ LinkInv)
<1>1. LinkInit => IInv /\ LinkInv
  <2> SUFFICES ASSUME LinkInit PROVE IInv /\ LinkInv
    OBVIOUS
  <2>1. IInv
    BY InitInv DEF LinkInit
  <2>2. intact \in BOOLEAN /\ settled \in BOOLEAN
    BY Zenon DEF LinkInit
  <2>3. LinkTypeOK
    BY <2>2, TimingAssumption, LinkAssumption DEF LinkInit, LinkTypeOK
  <2>4. FiniteInv /\ ArmedInv /\ RateInv /\ DrivenInv /\ RevokedInv
    BY TimingAssumption
       DEF LinkInit, Init, SafeCommand, FiniteInv, ArmedInv, RateInv, DrivenInv,
           Driven, RevokedInv
  <2>5. QED
    BY <2>1, <2>3, <2>4 DEF LinkInv
<1>2. IInv /\ LinkInv /\ [LinkNext]_allVars => IInv' /\ LinkInv'
  <2> SUFFICES ASSUME IInv, LinkInv, [LinkNext]_allVars
               PROVE  LinkInv'
    BY GatePreserved
  <2> USE DEF vars, gateVars, colorVars, spinVars, loopVars, linkVars, nodeVars
  <2>1. CASE ClientStep
    <3>1. Silent \/ PublishSend \/ RevokeOldTeam \/ WatchdogCallback
      BY <2>1, Zenon DEF ClientStep, MainStep, SpinStep, Silent
    <3>2. QED
      BY <2>1, <3>1, SilentPreserves, PublicationPreserves,
         WatchdogPreservesLink, Zenon
  <2>2. CASE DeliverResult
    BY <2>2, DeliveryPreserves
  <2>3. CASE LoseResult
    <3>1. UNCHANGED <<slot, held>> /\ unread
      BY <2>3 DEF LoseResult, MessageArrives
    <3>2. QED
      BY <2>3, <3>1, LossPreserves
         DEF LoseResult, MessageArrives, Pending, LinkInv, LinkTypeOK
  <2>4. CASE TakeResult
    BY <2>4, TakingPreserves
  <2>5. CASE PublishFails
    BY <2>5, LossPreserves DEF PublishFails, Pending, LinkInv, LinkTypeOK
  <2>6. CASE PublishBlock
    BY <2>6, SendingPreserves
  <2>7. CASE LinkChanges \/ UNCHANGED allVars
    BY <2>7 DEF LinkChanges, allVars, LinkInv, LinkTypeOK, FiniteInv, ArmedInv,
                RateInv, DrivenInv, Driven, RevokedInv, Pending
  <2>8. CASE LinkTick
    BY <2>8, LinkTickPreserves
  <2>9. QED
    BY <2>1, <2>2, <2>3, <2>4, <2>5, <2>6, <2>7, <2>8 DEF LinkNext
<1>3. QED
  BY <1>1, <1>2, PTL DEF LinkSpec

(* As long as its period does not exceed the command timeout, the limiter  *)
(* delays the release of an unattended robot by that period at most: for   *)
(* every block after which nothing is lost (watchdog_callback,             *)
(* _handle_control_message).                                               *)
THEOREM RobotIsAttended == LinkSpec => []NoUnattendedRobot
<1>1. IInv /\ LinkInv => NoUnattendedRobot
  BY TimingAssumption, LinkAssumption
     DEF IInv, TypeOK, LinkInv, LinkTypeOK, ArmedInv, DrivenInv, Driven,
         NoUnattendedRobot, OldestBlock, OldestResult
<1>2. QED
  BY <1>1, LinkInvariance, PTL

(* Whatever is lost, and however often the link is cut and restored, no    *)
(* command for an earlier colour reaches the robot later than in the tick  *)
(* of its revocation.                                                      *)
THEOREM OldBlocksEnd == LinkSpec => []NoLateBlock
<1>1. LinkInv => NoLateBlock
  BY DEF LinkInv, RevokedInv, NoLateBlock
<1>2. QED
  BY <1>1, LinkInvariance, PTL
===============================================================================
