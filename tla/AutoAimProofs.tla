----------------------------- MODULE AutoAimProofs ----------------------------
(***************************************************************************)
(* Proofs about Tracker and AutoAim, for every set of armour kinds, every  *)
(* limit and every set of times between frames.  First the Tracker alone.  *)
(* The loop's steps are steps of the Tracker, so that what is proved of it *)
(* holds in the loop, and what the Aimer and the Shooter do is right for   *)
(* every geometry, tolerance and yaw.                                      *)
(***************************************************************************)
EXTENDS AutoAim, FiniteSetTheorems, TLAPS

(* What each state says about the counters and the history of the target.  *)
DetectingInv ==
  state = "detecting" =>
    /\ detectCount = matched
    /\ detectCount = 1 \/ detectCount \in 1..(MinDetect - 1)
    /\ unseen = 0 /\ age = 0

TrackingInv ==
  state = "tracking" => matched >= MinDetect /\ unseen = 0 /\ age = 0

TempLostInv ==
  state = "temp_lost" =>
    /\ matched >= MinDetect
    /\ unseen = tempLostCount
    /\ unseen \in 1..Limit(target.kind)
    /\ age <= unseen * MaxGap

IInv == TypeOK /\ TargetIsUsable /\ DetectingInv /\ TrackingInv /\ TempLostInv

-----------------------------------------------------------------------------
(* The limit of every kind is one of the two, and at least one frame.      *)
LEMMA LimitType ==
  ASSUME NEW kind \in Kinds
  PROVE  Limit(kind) \in {MaxLost, OutpostMaxLost} /\ Limit(kind) \in Nat \ {0}
BY TrackerAssumption DEF Limit

(* One more missed frame allows one more gap.                              *)
LEMMA OneMoreGap ==
  ASSUME NEW n \in Nat, NEW a \in Nat, NEW gap \in Nat, a <= n * MaxGap, gap <= MaxGap
  PROVE  a + gap <= (n + 1) * MaxGap
<1> DEFINE product == n * MaxGap
<1>1. MaxGap \in Nat /\ product \in Nat
  BY TrackerAssumption
<1>2. (n + 1) * MaxGap = product + MaxGap
  BY <1>1
<1> HIDE DEF product
<1>3. a <= product
  BY DEF product
<1>4. QED
  BY <1>1, <1>2, <1>3

(* The front of a list of armours is one of them.                          *)
LEMMA ForemostIsMember == \A armors : Foremost(armors) \subseteq armors
BY DEF Foremost

(* What set_target() and update_target() make of the target.               *)
LEMMA SetTargetResult ==
  ASSUME IInv, NEW armors \in SUBSET Armors, NEW found \in BOOLEAN,
         SetTarget(Enemies(armors), found)
  PROVE  /\ target' \in Targets \union {NoTarget}
         /\ found => /\ target' \in Targets
                     /\ target'.color = enemyColor
                     /\ ~target'.diverged
                     /\ ~target'.failing
<1>1. CASE ~found
  BY <1>1, Zenon DEF SetTarget, IInv, TypeOK
<1>2. CASE found
  <2>1. PICK a \in Foremost(Enemies(armors)) : target' = NewTarget(a)
    BY <1>2, Zenon DEF SetTarget
  <2>2. a \in Armors /\ a.color = enemyColor
    BY <2>1, ForemostIsMember DEF Enemies
  <2>3. QED
    BY <2>1, <2>2 DEF NewTarget, Armors, Targets
<1>3. QED
  BY <1>1, <1>2

LEMMA UpdateTargetResult ==
  ASSUME IInv, state # "lost", NEW armors, NEW found \in BOOLEAN,
         UpdateTarget(armors, found)
  PROVE  /\ target' \in Targets
         /\ target'.kind = target.kind
         /\ target'.color = enemyColor
         /\ ~found => ~target'.diverged /\ ~target'.failing
<1>1. /\ target \in Targets /\ target.color = enemyColor
      /\ ~target.diverged /\ ~target.failing
  BY DEF IInv, TargetIsUsable
<1>2. CASE ~found
  BY <1>1, <1>2, Zenon DEF UpdateTarget
<1>3. CASE found
  <2>1. PICK diverged, failing \in BOOLEAN :
          target' = [target EXCEPT !.diverged = diverged, !.failing = failing]
    BY <1>3, Zenon DEF UpdateTarget
  <2>2. QED
    BY <1>1, <1>3, <2>1 DEF Targets
<1>4. QED
  BY <1>2, <1>3

-----------------------------------------------------------------------------
(* A colour change forgets everything.                                     *)
LEMMA SetEnemyColorPreserves ==
  ASSUME IInv, NEW color \in Colors, SetEnemyColor(color)
  PROVE  IInv'
BY TrackerAssumption
   DEF IInv, TypeOK, TargetIsUsable, DetectingInv, TrackingInv, TempLostInv,
       SetEnemyColor, States, history

(* A frame keeps the invariant, whatever it shows and however late it is.  *)
LEMMA TrackPreserves ==
  ASSUME IInv, NEW armors \in SUBSET Armors, NEW gap \in Gaps, Track(armors, gap)
  PROVE  IInv'
<1> DEFINE s == AfterGap(gap)
<1>1. PICK found \in BOOLEAN, t \in States :
        /\ IF s = "lost" THEN SetTarget(Enemies(armors), found)
                         ELSE UpdateTarget(Enemies(armors), found)
        /\ StateMachine(s, found, t)
        /\ state' = Checked(t)
        /\ Record(s, found, gap)
        /\ enemyColor' = enemyColor
  BY Zenon DEF Track
<1>2. /\ s \in States
      /\ s # "lost" => s = state /\ gap <= MaxGap
      /\ gap \in Nat /\ MaxGap \in Nat
  BY TrackerAssumption DEF AfterGap, IInv, TypeOK, States
<1>3. /\ target' \in Targets \union {NoTarget}
      /\ s = "lost" /\ found => target' \in Targets /\ target'.color = enemyColor
      /\ s # "lost" => /\ target' \in Targets
                       /\ target'.kind = target.kind
                       /\ target'.color = enemyColor
  BY <1>1, <1>2, SetTargetResult, UpdateTargetResult
<1>4. t # "lost" => s # "lost" \/ found
  BY <1>1 DEF StateMachine, StayLost, Acquire, Detect, DetectFails, Found, Miss,
              MissAgain
<1>5. /\ state' \in States
      /\ state' # "lost" => state' = t /\ ~target'.diverged /\ ~target'.failing
  BY <1>1 DEF Checked, States
<1> HIDE DEF s
<1>6. TargetIsUsable'
  BY <1>1, <1>3, <1>4, <1>5, Zenon DEF TargetIsUsable
<1>7. CASE s = "lost"
  <2>1. /\ detectCount' \in {detectCount, 1} /\ tempLostCount' = tempLostCount
        /\ maxTempLost' = maxTempLost
        /\ t # "lost" => t = "detecting" /\ detectCount' = 1 /\ found
    BY <1>1, <1>7
       DEF StateMachine, StayLost, Acquire, Detect, DetectFails, Found, Miss,
           MissAgain, counts
  <2>2. unseen' = 0 /\ age' = 0 /\ matched' = IF found THEN 1 ELSE 0
    BY <1>1, <1>7 DEF Record
  <2>3. QED
    BY <1>1, <1>3, <1>5, <1>6, <2>1, <2>2, TrackerAssumption
       DEF IInv, TypeOK, DetectingInv, TrackingInv, TempLostInv
<1>8. CASE s # "lost" /\ found
  <2>1. unseen' = 0 /\ age' = 0
    BY <1>1, <1>8 DEF Record
  <2>2. CASE s = "detecting"
    <3>1. matched' = matched + 1
      BY <1>1, <1>8, <2>2 DEF Record
    <3>2. /\ detectCount' = detectCount + 1
          /\ t = IF detectCount' >= MinDetect THEN "tracking" ELSE "detecting"
          /\ tempLostCount' = tempLostCount /\ maxTempLost' = maxTempLost
      BY <1>1, <1>8, <2>2
         DEF StateMachine, StayLost, Acquire, Detect, DetectFails, Found, Miss,
             MissAgain
    <3>3. QED
      BY <1>1, <1>2, <1>3, <1>5, <1>6, <2>1, <2>2, <3>1, <3>2, TrackerAssumption
         DEF IInv, TypeOK, DetectingInv, TrackingInv, TempLostInv
  <2>3. CASE s # "detecting"
    <3>1. matched' = matched
      BY <1>1, <1>8, <2>3 DEF Record
    <3>2. /\ t = "tracking"
          /\ detectCount' = detectCount
          /\ tempLostCount' = tempLostCount /\ maxTempLost' = maxTempLost
      BY <1>1, <1>8, <2>3
         DEF StateMachine, StayLost, Acquire, Detect, DetectFails, Found, Miss,
             MissAgain, counts
    <3>3. QED
      BY <1>1, <1>2, <1>3, <1>5, <1>6, <1>8, <2>1, <2>3, <3>1, <3>2
         DEF IInv, TypeOK, States, DetectingInv, TrackingInv, TempLostInv
  <2>4. QED
    BY <2>2, <2>3
<1>9. CASE s # "lost" /\ ~found
  <2>1. matched' = matched /\ unseen' = unseen + 1 /\ age' = age + gap
    BY <1>1, <1>9 DEF Record
  <2>2. CASE s = "detecting"
    <3>1. /\ t = "lost" /\ detectCount' = 0
          /\ tempLostCount' = tempLostCount /\ maxTempLost' = maxTempLost
      BY <1>1, <1>9, <2>2
         DEF StateMachine, StayLost, Acquire, Detect, DetectFails, Found, Miss,
             MissAgain
    <3>2. QED
      BY <1>1, <1>2, <1>3, <1>5, <1>6, <2>1, <3>1, TrackerAssumption
         DEF IInv, TypeOK, DetectingInv, TrackingInv, TempLostInv
  <2>3. CASE s = "tracking"
    <3>1. /\ t = "temp_lost" /\ tempLostCount' = 1
          /\ detectCount' = detectCount /\ maxTempLost' = maxTempLost
      BY <1>1, <1>9, <2>3
         DEF StateMachine, StayLost, Acquire, Detect, DetectFails, Found, Miss,
             MissAgain
    <3>2. unseen' = 1 /\ age' = gap /\ age' <= unseen' * MaxGap
      BY <1>2, <2>1, <2>3 DEF IInv, TrackingInv
    <3>3. Limit(target'.kind) \in Nat \ {0}
      BY <1>2, <1>3, <2>3, LimitType DEF Targets
    <3>4. QED
      BY <1>1, <1>2, <1>3, <1>5, <1>6, <2>1, <2>3, <3>1, <3>2, <3>3,
         TrackerAssumption
         DEF IInv, TypeOK, DetectingInv, TrackingInv, TempLostInv
  <2>4. CASE s = "temp_lost"
    <3>1. /\ tempLostCount' = tempLostCount + 1
          /\ maxTempLost' = Limit(target'.kind)
          /\ t = IF tempLostCount' > maxTempLost' THEN "lost" ELSE "temp_lost"
          /\ detectCount' = detectCount
      BY <1>1, <1>9, <2>4
         DEF StateMachine, StayLost, Acquire, Detect, DetectFails, Found, Miss,
             MissAgain
    <3>2. /\ Limit(target'.kind) \in {MaxLost, OutpostMaxLost}
          /\ Limit(target'.kind) \in Nat \ {0}
          /\ Limit(target'.kind) = Limit(target.kind)
      BY <1>2, <1>3, <2>4, LimitType DEF Targets
    <3>3. /\ matched >= MinDetect /\ unseen = tempLostCount
          /\ unseen \in 1..Limit(target.kind) /\ age <= unseen * MaxGap
          /\ unseen \in Nat /\ age \in Nat /\ matched \in Nat
      BY <1>2, <2>4 DEF IInv, TypeOK, TempLostInv
    <3>4. age' <= unseen' * MaxGap
      BY <1>2, <2>1, <2>4, <3>3, OneMoreGap
    <3>5. TypeOK'
      BY <1>1, <1>2, <1>3, <1>5, <2>1, <3>1, <3>2, <3>3 DEF IInv, TypeOK
    <3>6. DetectingInv' /\ TrackingInv'
      BY <1>5, <3>1 DEF DetectingInv, TrackingInv
    <3>7. TempLostInv'
      BY <1>5, <2>1, <3>1, <3>2, <3>3, <3>4 DEF TempLostInv
    <3>8. QED
      BY <1>6, <3>5, <3>6, <3>7 DEF IInv
  <2>5. QED
    BY <1>2, <1>9, <2>2, <2>3, <2>4 DEF States
<1>10. QED
  BY <1>7, <1>8, <1>9

(* The invariant holds in every behaviour.                                 *)
LEMMA Invariance == Spec => []IInv
<1>1. Init => IInv
  BY TrackerAssumption
     DEF Init, IInv, TypeOK, States, TargetIsUsable, DetectingInv, TrackingInv,
         TempLostInv
<1>2. IInv /\ [Next]_vars => IInv'
  <2> SUFFICES ASSUME IInv, [Next]_vars
               PROVE  IInv'
    OBVIOUS
  <2>1. CASE Frame
    BY <2>1, TrackPreserves DEF Frame
  <2>2. CASE \E color \in Colors : SetEnemyColor(color)
    BY <2>2, SetEnemyColorPreserves
  <2>3. CASE UNCHANGED vars
    BY <2>3
       DEF vars, counts, history, IInv, TypeOK, TargetIsUsable, DetectingInv,
           TrackingInv, TempLostInv
  <2>4. QED
    BY <2>1, <2>2, <2>3 DEF Next
<1>3. QED
  BY <1>1, <1>2, PTL DEF Spec

-----------------------------------------------------------------------------
(* The counters of the state machine stay within their limits.             *)
THEOREM TypeCorrect == Spec => []TypeOK
<1>1. IInv => TypeOK
  BY DEF IInv
<1>2. QED
  BY <1>1, Invariance, PTL

(* No frame is answered, or predicted, from a target that does not exist,  *)
(* that belongs to the own team, or whose filter was found to be bad.      *)
THEOREM UsableTargets == Spec => []TargetIsUsable
<1>1. IInv => TargetIsUsable
  BY DEF IInv
<1>2. QED
  BY <1>1, Invariance, PTL

(* Whatever the detector reports, a tracked target was confirmed by        *)
(* min_detect_count frames in a row.                                       *)
THEOREM ConfirmedTracking == Spec => []TrackingIsConfirmed
<1>1. IInv => TrackingIsConfirmed
  BY DEF IInv, TrackingInv, TempLostInv, TrackingIsConfirmed
<1>2. QED
  BY <1>1, Invariance, PTL

(* No target outlives the frames and the time its kind may stay unseen.    *)
THEOREM BoundedPrediction == Spec => []UnseenIsBounded
<1>1. IInv => UnseenIsBounded
  <2> SUFFICES ASSUME IInv, state # "lost"
               PROVE  /\ unseen <= Limit(target.kind)
                      /\ age <= unseen * MaxGap
    BY DEF UnseenIsBounded
  <2>1. Limit(target.kind) \in Nat \ {0} /\ MaxGap \in Nat
    BY LimitType, TrackerAssumption DEF IInv, TargetIsUsable, Targets
  <2>2. CASE state = "temp_lost"
    BY <2>1, <2>2 DEF IInv, TempLostInv
  <2>3. CASE state \in {"detecting", "tracking"}
    <3>1. unseen = 0 /\ age = 0
      BY <2>3 DEF IInv, DetectingInv, TrackingInv
    <3>2. QED
      BY <2>1, <3>1
  <2>4. QED
    BY <2>2, <2>3 DEF IInv, TypeOK, States
<1>2. QED
  BY <1>1, Invariance, PTL

-----------------------------------------------------------------------------
(* The loop: Tracker, Aimer and Shooter.                                   *)
AutoTypeOK ==
  /\ phase \in {"track", "aim", "shoot"}
  /\ calls \in Nat
  /\ command \in [control : BOOLEAN, yaw : Int]
  /\ lastYaw \in Int

(* A plate is being aimed at, for good or in one of the iterations.        *)
Aiming == command.control \/ (phase = "aim" /\ calls > 0)

AimingInv ==
  /\ phase = "aim" => state # "lost" /\ ~command.control
  /\ Aiming => state # "lost" /\ point.valid

(* The last plate of an outpost was seen, and one that is aimed at, too.   *)
SeenInv ==
  /\ target # NoTarget /\ target.kind = Outpost => lastId \in seen
  /\ Aiming /\ IsOutpost => point.plate \in seen

LockInv == Cardinality(among) > 1 => point.plate = lockId

AutoInv == AutoTypeOK /\ AimingInv /\ SeenInv /\ LockInv

-----------------------------------------------------------------------------
(* The loop refines the Tracker: its frames are frames, its colour changes *)
(* colour changes, and everything else leaves the Tracker alone.           *)
THEOREM LoopImplementsTracker == AutoSpec => Spec
<1>1. AutoInit => Init
  BY DEF AutoInit
<1>2. [AutoNext]_autoVars => [Next]_vars
  <2>1. ASSUME NEW armors \in SUBSET Armors, NEW gap \in Gaps,
               TrackFrame(armors, gap)
        PROVE  Next
    BY <2>1, Zenon DEF TrackFrame, Next, Frame
  <2>2. ASSUME NEW color \in Colors, ChangeEnemyColor(color)
        PROVE  Next
    BY <2>2, Zenon DEF ChangeEnemyColor, Next
  <2>3. Aim => UNCHANGED vars
    BY Zenon DEF Aim, GiveUp, Iterate, Choose, Unsolvable, Converge
  <2>4. HoldFire => UNCHANGED vars
    BY Zenon DEF HoldFire
  <2>5. ASSUME NEW gimbal, NEW tolerance, Shoot(gimbal, tolerance)
        PROVE  UNCHANGED vars
    BY <2>5, Zenon DEF Shoot
  <2>6. UNCHANGED autoVars => UNCHANGED vars
    BY DEF autoVars
  <2>7. QED
    BY <2>1, <2>2, <2>3, <2>4, <2>5, <2>6, Zenon DEF AutoNext
<1>3. QED
  BY <1>1, <1>2, PTL DEF AutoSpec, Spec

-----------------------------------------------------------------------------
(* A valid choice for an outpost is a plate that was seen.                 *)
LEMMA ChosenPlateWasSeen ==
  ASSUME IsOutpost, lastId \in seen, NEW angle, NEW spin,
         ChooseAimPoint(angle, spin), point'.valid
  PROVE  point'.plate \in seen
<1>1. ChooseSpinning(angle, spin)
  BY Zenon DEF ChooseAimPoint, ChooseOnlyKnown, ChooseSlowly
<1>2. ~TakeNone
  <2> SUFFICES ASSUME TakeNone PROVE FALSE
    OBVIOUS
  <2>1. PICK id \in Candidates : point' = [valid |-> FALSE, plate |-> id]
    BY Zenon DEF TakeNone
  <2>2. QED
    BY <2>1
<1>3. PICK id \in Candidates : Take(id)
  BY <1>1, <1>2, Zenon DEF ChooseSpinning
<1>4. Candidates \subseteq seen
  BY DEF Candidates
<1>5. QED
  BY <1>3, <1>4 DEF Take

(* A choice between two plates aims at the one it locks on.                *)
LEMMA ChoiceFollowsLock ==
  ASSUME NEW angle, NEW spin, ChooseAimPoint(angle, spin), Cardinality(among') > 1
  PROVE  /\ point'.plate = lockId'
         /\ lockId \in among' => lockId' = lockId
<1>1. Cardinality({}) = 0
  BY FS_EmptySet
<1>2. among' # {}
  BY <1>1
<1>3. ChooseSlowly(angle, spin)
  BY <1>2, Zenon DEF ChooseAimPoint, ChooseOnlyKnown, ChooseSpinning
<1>4. among' = FirstTwo(angle)
  BY <1>3, Zenon DEF ChooseSlowly
<1>5. InReach(angle) # {}
  BY <1>2, <1>4 DEF FirstTwo
<1>6. ASSUME NEW id, InReach(angle) = {id}
      PROVE  FALSE
  <2>1. Cardinality({id}) = 1
    BY FS_Singleton
  <2>2. among' \subseteq {id}
    BY <1>4, <1>6 DEF FirstTwo
  <2>3. among' = {id}
    BY <1>2, <2>2
  <2>4. QED
    BY <2>1, <2>3
<1>7. TakeLocked(angle)
  BY <1>3, <1>5, <1>6, Zenon DEF ChooseSlowly
<1>8. QED
  BY <1>4, <1>7 DEF TakeLocked, Take

-----------------------------------------------------------------------------
(* Every step of the loop keeps the invariant.                             *)
LEMMA TrackFramePreserves ==
  ASSUME IInv, IInv', AutoInv, NEW armors \in SUBSET Armors, NEW gap \in Gaps,
         TrackFrame(armors, gap)
  PROVE  AutoInv'
<1> DEFINE s == AfterGap(gap)
           enemies == Enemies(armors)
<1>1. /\ phase' = (IF state' = "lost" THEN "shoot" ELSE "aim")
      /\ command' = NoCommand /\ calls' = 0 /\ lastYaw' = lastYaw
      /\ point' = point /\ lockId' = lockId
  BY DEF TrackFrame
<1>2. AutoTypeOK' /\ AimingInv' /\ ~Aiming'
  BY <1>1 DEF AutoInv, AutoTypeOK, AimingInv, Aiming, NoCommand
<1>3. PICK found \in BOOLEAN :
        IF s = "lost" THEN SetTarget(enemies, found) ELSE UpdateTarget(enemies, found)
  BY Zenon DEF TrackFrame, Track
<1>4. s # "lost" => s = state
  BY DEF AfterGap
<1>5. Estimate(s, enemies)
  BY DEF TrackFrame
<1>6. CASE s = "lost" /\ enemies # {} /\ NewModel
  <2>1. target' # NoTarget /\ target'.kind = Outpost => lastId' \in seen'
    BY <1>6 DEF NewModel
  <2>2. among' = {}
    BY <1>6 DEF NewModel
  <2>3. QED
    BY <1>2, <2>1, <2>2, FS_EmptySet DEF AutoInv, SeenInv, LockInv
<1>7. CASE s # "lost" /\ Matches(enemies) /\ UpdateModel
  <2>1. PICK first, last \in Ids(target.kind) :
          IF target.kind = Outpost
          THEN lastId' = last /\ seen' = seen \union {first, last}
          ELSE UNCHANGED <<lastId, seen>>
    BY <1>7, Zenon DEF UpdateModel
  <2>2. among' = among
    BY <1>7, Zenon DEF UpdateModel
  <2>3. target'.kind = target.kind
    BY <1>3, <1>4, <1>7, UpdateTargetResult
  <2>4. target' # NoTarget /\ target'.kind = Outpost => lastId' \in seen'
    BY <2>1, <2>3
  <2>5. QED
    BY <1>1, <1>2, <2>2, <2>4 DEF AutoInv, SeenInv, LockInv
<1>8. CASE ~(IF s = "lost" THEN enemies # {} ELSE Matches(enemies)) /\ KeepModel
  <2>1. ~found
    <3>1. CASE s = "lost"
      <4>1. Foremost(enemies) = {}
        BY <1>8, <3>1, ForemostIsMember
      <4>2. QED
        BY <1>3, <3>1, <4>1, Zenon DEF SetTarget
    <3>2. CASE s # "lost"
      BY <1>3, <1>8, <3>2, Zenon DEF UpdateTarget
    <3>3. QED
      BY <3>1, <3>2
  <2>2. target' = target
    BY <1>3, <2>1, Zenon DEF SetTarget, UpdateTarget
  <2>3. QED
    BY <1>1, <1>2, <1>8, <2>2 DEF AutoInv, SeenInv, LockInv, KeepModel
<1>9. QED
  BY <1>5, <1>6, <1>7, <1>8, Zenon DEF Estimate

LEMMA ChangeEnemyColorPreserves ==
  ASSUME AutoInv, NEW color \in Colors, ChangeEnemyColor(color)
  PROVE  AutoInv'
BY DEF AutoInv, AutoTypeOK, AimingInv, SeenInv, LockInv, Aiming, ChangeEnemyColor,
       SetEnemyColor, NoCommand, modelVars, aimVars

(* What any choice leaves alone, and what it makes true.                   *)
LEMMA ChoiceResult ==
  ASSUME IInv, AutoInv, NEW angle, NEW spin, Choose(angle, spin)
  PROVE  /\ UNCHANGED <<target, state, lastId, seen, lastYaw>>
         /\ phase = "aim" /\ state # "lost"
         /\ LockInv'
         /\ point'.valid /\ IsOutpost => point'.plate \in seen
<1>1. /\ UNCHANGED <<target, state, lastId, seen, lastYaw>>
      /\ phase = "aim" /\ ChooseAimPoint(angle, spin)
  BY DEF Choose, vars, modelVars, shootVars
<1>2. state # "lost" /\ target # NoTarget
  BY <1>1, TrackerAssumption DEF AutoInv, AimingInv, IInv, TargetIsUsable
<1>3. LockInv'
  BY <1>1, ChoiceFollowsLock DEF LockInv
<1>4. IsOutpost => lastId \in seen
  BY <1>2 DEF AutoInv, SeenInv, IsOutpost
<1>5. point'.valid /\ IsOutpost => point'.plate \in seen
  BY <1>1, <1>4, ChosenPlateWasSeen
<1>6. QED
  BY <1>1, <1>2, <1>3, <1>5

LEMMA AimPreserves ==
  ASSUME IInv, AutoInv, Aim
  PROVE  AutoInv'
<1>1. ASSUME NEW angle \in 0..(Turn - 1), NEW spin \in -1..1, GiveUp(angle, spin)
      PROVE  AutoInv'
  <2>1. /\ Choose(angle, spin) /\ ~point'.valid
        /\ calls' = 0 /\ phase' = "shoot" /\ command' = command
    BY <1>1 DEF GiveUp
  <2>2. /\ UNCHANGED <<target, state, lastId, seen, lastYaw>> /\ LockInv'
        /\ ~command.control
    BY <2>1, ChoiceResult DEF AutoInv, AimingInv
  <2>3. QED
    BY <2>1, <2>2 DEF AutoInv, AutoTypeOK, AimingInv, SeenInv, Aiming
<1>2. ASSUME NEW angle \in 0..(Turn - 1), NEW spin \in -1..1, Iterate(angle, spin)
      PROVE  AutoInv'
  <2>1. /\ Choose(angle, spin) /\ point'.valid
        /\ calls' = calls + 1 /\ phase' = phase /\ command' = command
    BY <1>2 DEF Iterate
  <2>2. /\ UNCHANGED <<target, state, lastId, seen, lastYaw>> /\ LockInv'
        /\ phase = "aim" /\ state # "lost" /\ ~command.control
        /\ IsOutpost => point'.plate \in seen
    BY <2>1, ChoiceResult DEF AutoInv, AimingInv
  <2>3. QED
    BY <2>1, <2>2 DEF AutoInv, AutoTypeOK, AimingInv, SeenInv, Aiming, IsOutpost
<1>3. CASE Unsolvable
  <2>1. /\ UNCHANGED <<target, state, lastId, seen, lastYaw, lockId, among, command>>
        /\ phase = "aim" /\ calls' = 0 /\ phase' = "shoot"
        /\ point' = [point EXCEPT !.valid = FALSE]
    BY <1>3 DEF Unsolvable, vars, modelVars, shootVars
  <2>2. Aiming
    BY <1>3 DEF Unsolvable, Aiming
  <2>3. ~command.control /\ ~Aiming'
    BY <2>1 DEF AutoInv, AimingInv, Aiming
  <2>4. point'.plate = point.plate \/ ~(Cardinality(among) > 1)
    BY <2>1
  <2>5. QED
    BY <2>1, <2>3, <2>4 DEF AutoInv, AutoTypeOK, AimingInv, SeenInv, LockInv
<1>4. CASE Converge
  <2>1. /\ UNCHANGED <<target, state, lastId, seen, lastYaw, lockId, among, point>>
        /\ phase = "aim" /\ calls > 1 /\ calls' = 0 /\ phase' = "shoot"
    BY <1>4 DEF Converge, vars, modelVars, shootVars
  <2>2. PICK yaw \in Yaws : command' = [control |-> TRUE, yaw |-> yaw]
    BY <1>4 DEF Converge
  <2>3. yaw \in Int
    BY AutoAimAssumption
  <2>4. Aiming
    BY <2>1 DEF Aiming, AutoInv, AutoTypeOK
  <2>5. QED
    BY <2>1, <2>2, <2>3, <2>4
       DEF AutoInv, AutoTypeOK, AimingInv, SeenInv, LockInv, Aiming, IsOutpost
<1>5. QED
  BY <1>1, <1>2, <1>3, <1>4 DEF Aim

LEMMA ShooterPreserves ==
  ASSUME AutoInv,
         HoldFire \/ \E gimbal \in Yaws, tolerance \in Tolerances :
                       Shoot(gimbal, tolerance)
  PROVE  AutoInv'
<1>1. /\ UNCHANGED <<target, state, lastId, seen, lockId, among, point, calls, command>>
      /\ phase = "shoot" /\ phase' = "track"
      /\ lastYaw' \in {lastYaw, command.yaw}
  BY DEF HoldFire, Shoot, vars, modelVars, aimVars, shootVars
<1>2. QED
  BY <1>1 DEF AutoInv, AutoTypeOK, AimingInv, SeenInv, LockInv, Aiming, IsOutpost

LEMMA AutoInvariance == AutoSpec => [](IInv /\ AutoInv)
<1>1. AutoInit => AutoInv
  BY FS_EmptySet
     DEF AutoInit, Init, AutoInv, AutoTypeOK, AimingInv, SeenInv, LockInv, Aiming,
         NoCommand
<1>2. IInv /\ IInv' /\ AutoInv /\ [AutoNext]_autoVars => AutoInv'
  <2> SUFFICES ASSUME IInv, IInv', AutoInv, [AutoNext]_autoVars
               PROVE  AutoInv'
    OBVIOUS
  <2>1. CASE \E armors \in SUBSET Armors, gap \in Gaps : TrackFrame(armors, gap)
    BY <2>1, TrackFramePreserves
  <2>2. CASE \E color \in Colors : ChangeEnemyColor(color)
    BY <2>2, ChangeEnemyColorPreserves
  <2>3. CASE Aim
    BY <2>3, AimPreserves
  <2>4. CASE HoldFire \/ \E gimbal \in Yaws, tolerance \in Tolerances :
                           Shoot(gimbal, tolerance)
    BY <2>4, ShooterPreserves
  <2>5. CASE UNCHANGED autoVars
    BY <2>5
       DEF autoVars, vars, modelVars, aimVars, shootVars, AutoInv, AutoTypeOK,
           AimingInv, SeenInv, LockInv, Aiming, IsOutpost
  <2>6. QED
    BY <2>1, <2>2, <2>3, <2>4, <2>5 DEF AutoNext
<1>3. AutoSpec => []IInv
  BY LoopImplementsTracker, Invariance, PTL
<1>4. QED
  BY <1>1, <1>2, <1>3, PTL DEF AutoSpec

-----------------------------------------------------------------------------
(* In no behaviour of the loop does a command aim at a plate of an outpost *)
(* whose height is only a guess.                                           *)
THEOREM KnownOutpostPlates == AutoSpec => []OutpostPlateIsKnown
<1>1. AutoInv => OutpostPlateIsKnown
  BY DEF AutoInv, SeenInv, Aiming, OutpostPlateIsKnown
<1>2. QED
  BY <1>1, AutoInvariance, PTL

(* The aim is not torn between two plates, however many a target has and   *)
(* wherever they are.                                                      *)
THEOREM LockedAim == AutoSpec => LockHolds
<1>1. AutoInv /\ [AutoNext]_autoVars =>
        [/\ Cardinality(among) > 1
         /\ Cardinality(among') > 1
         /\ point.plate \in among'
         => point'.plate = point.plate]_autoVars
  <2> SUFFICES ASSUME AutoInv, AutoNext,
                      Cardinality(among) > 1, Cardinality(among') > 1,
                      point.plate \in among'
               PROVE  point'.plate = point.plate
    OBVIOUS
  <2>1. point.plate = lockId
    BY DEF AutoInv, LockInv
  <2>2. ASSUME NEW angle, NEW spin, Choose(angle, spin)
        PROVE  point'.plate = point.plate
    BY <2>1, <2>2, ChoiceFollowsLock DEF Choose
  <2>3. CASE Aim
    <3>1. CASE Unsolvable
      <4>1. point' = [point EXCEPT !.valid = FALSE]
        BY <3>1 DEF Unsolvable
      <4>2. QED
        BY <4>1
    <3>2. CASE Converge
      BY <3>2 DEF Converge
    <3>3. QED
      BY <2>2, <2>3, <3>1, <3>2, Zenon DEF Aim, GiveUp, Iterate
  <2>4. CASE ~Aim
    <3>1. point' = point
      BY <2>4, Zenon
         DEF AutoNext, TrackFrame, ChangeEnemyColor, HoldFire, Shoot, aimVars
    <3>2. QED
      BY <3>1
  <2>5. QED
    BY <2>3, <2>4
<1>2. QED
  BY <1>1, AutoInvariance, PTL DEF AutoSpec, LockHolds

(* The two tolerances add up.                                              *)
LEMMA TolerancesAddUp ==
  ASSUME NEW gimbal \in Int, NEW last \in Int, NEW yaw \in Int, NEW tolerance \in Nat,
         Distance(last - yaw) < 2 * tolerance, Distance(gimbal - last) < tolerance
  PROVE  Distance(gimbal - yaw) < 3 * tolerance
BY DEF Distance

(* For every tolerance and every angle, a shot is fired only near the      *)
(* command it belongs to.                                                  *)
THEOREM FiringIsAligned == AutoSpec => FiresOnTarget
<1>1. AutoInv /\ [AutoNext]_autoVars =>
        [\A gimbal \in Yaws, tolerance \in Tolerances :
           Shoot(gimbal, tolerance) /\ shoot' =>
             /\ state # "lost"
             /\ point.valid
             /\ Distance(gimbal - command.yaw) < 3 * tolerance]_autoVars
  <2> SUFFICES ASSUME AutoInv, NEW gimbal \in Yaws, NEW tolerance \in Tolerances,
                      Shoot(gimbal, tolerance), shoot'
               PROVE  /\ state # "lost"
                      /\ point.valid
                      /\ Distance(gimbal - command.yaw) < 3 * tolerance
    OBVIOUS
  <2>1. command.control /\ SteadyEnough(gimbal, tolerance)
    BY Zenon DEF Shoot
  <2>2. state # "lost" /\ point.valid
    BY <2>1 DEF AutoInv, AimingInv, Aiming
  <2>3. gimbal \in Int /\ tolerance \in Nat /\ lastYaw \in Int /\ command.yaw \in Int
    BY AutoAimAssumption DEF AutoInv, AutoTypeOK
  <2>4. QED
    BY <2>1, <2>2, <2>3, TolerancesAddUp DEF SteadyEnough
<1>2. QED
  BY <1>1, AutoInvariance, PTL DEF AutoSpec, FiresOnTarget
===============================================================================
