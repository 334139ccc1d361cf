-------------------------------- MODULE AutoAim -------------------------------
(***************************************************************************)
(* One frame of custom_client's loop after the detector: the Tracker       *)
(* tracks, the Aimer chooses a plate of the target, the Shooter decides    *)
(* whether to fire.  A Target numbers its plates from the first one it     *)
(* saw; the filter's estimate is reduced to the angle of plate 0 and the   *)
(* sense of rotation, and the ballistics to whether a trajectory exists.   *)
(*                                                                         *)
(* Angles are counted in units of a turn / Turn.  Those of the plates are  *)
(* relative to the line from the gimbal to the target's centre and wrap    *)
(* around; those of commands do not, because the Shooter subtracts them    *)
(* as they are.                                                            *)
(***************************************************************************)
EXTENDS Tracker, FiniteSets

CONSTANTS
  Plates,         (* armor_num_ of a target of each kind                   *)
  Turn,           (* units in a turn, a multiple of every number of plates *)
  Reach,          (* the first angle beyond 60 degrees                     *)
  Coming,         (* the first angle beyond comming_angle, and beyond 70   *)
  OutpostComing,  (* degrees for an outpost                                *)
  Leaving,        (* the first angle beyond leaving_angle, and beyond 30   *)
  OutpostLeaving, (* degrees for an outpost                                *)
  MaxIterations,  (* the iterations for the time of flight, 10 in the code *)
  Yaws,           (* the yaws of commands and of the gimbal                *)
  Tolerances,     (* first_tolerance and second_tolerance                  *)
  AutoFire        (* auto_fire                                             *)

ASSUME AutoAimAssumption ==
  /\ Plates \in [Kinds -> Nat \ {0}]
  /\ Turn \in Nat \ {0}
  /\ \A kind \in Kinds : Turn % Plates[kind] = 0
  /\ {Reach, Coming, OutpostComing, Leaving, OutpostLeaving} \subseteq Nat
  /\ MaxIterations \in Nat \ {0}
  /\ Yaws \subseteq Int
  /\ 0 \in Yaws
  /\ Tolerances \subseteq Nat
  /\ AutoFire \in BOOLEAN

NoPlate == -1

VARIABLES
  phase,   (* where the loop is: "track", "aim" or "shoot"                 *)
  jumped,  (* target_.jumped: another plate than the first was seen        *)
  lastId,  (* target_.last_id, which is read for an outpost only           *)
  seen,    (* outpost_observed_                                            *)
  lockId,  (* Aimer::lock_id_                                              *)
  point,   (* Aimer::debug_aim_point: is it valid, and of which plate      *)
  calls,   (* calls of choose_aim_point for this frame                     *)
  command, (* the Command of this frame: control and yaw                   *)
  lastYaw, (* Shooter::last_command_.yaw                                   *)
  shoot,   (* the Command's shoot                                          *)
  among    (* history: the two plates the last choice was made from        *)

modelVars == <<jumped, lastId, seen>>
aimVars == <<lockId, point, calls, among>>
shootVars == <<lastYaw, shoot>>
autoVars == <<vars, phase, modelVars, aimVars, command, shootVars>>

Ids(kind) == 0..(Plates[kind] - 1)
NoCommand == [control |-> FALSE, yaw |-> 0]
Distance(a) == IF a < 0 THEN -a ELSE a

AutoInit ==
  /\ Init
  /\ phase = "track"
  /\ jumped = FALSE
  /\ lastId = 0
  /\ seen = {}
  /\ lockId = NoPlate
  /\ point = [valid |-> FALSE, plate |-> 0]
  /\ calls = 0
  /\ among = {}
  /\ command = NoCommand
  /\ lastYaw = 0
  /\ shoot = FALSE

-----------------------------------------------------------------------------
(* The Target of a frame: a new one, an updated one, or none that is new.  *)

(* Target's constructor: the armour it is made from is plate 0.            *)
NewModel ==
  /\ jumped' = FALSE
  /\ lastId' = 0
  /\ seen' = IF target'.kind = Outpost THEN {0} ELSE {}
  /\ among' = {}

(* Target::update, for one armour or for two that match: each is taken for *)
(* one of the plates.  Which they were matters for an outpost only.        *)
UpdateModel ==
  /\ IF target.kind = Outpost
     THEN \E first, last \in Ids(Outpost) :
            /\ jumped' = (jumped \/ first # 0 \/ last # 0)
            /\ lastId' = last
            /\ seen' = seen \union {first, last}
     ELSE /\ \E id \in Ids(target.kind) : jumped' = (jumped \/ id # 0)
          /\ UNCHANGED <<lastId, seen>>
  /\ UNCHANGED among

KeepModel == UNCHANGED <<jumped, lastId, seen, among>>

Estimate(s, enemies) ==
  \/ s = "lost" /\ enemies # {} /\ NewModel
  \/ s # "lost" /\ Matches(enemies) /\ UpdateModel
  \/ ~(IF s = "lost" THEN enemies # {} ELSE Matches(enemies)) /\ KeepModel

(* Tracker::track, and the head of Aimer::aim: no target, no command.      *)
TrackFrame(armors, gap) ==
  /\ phase = "track"
  /\ Track(armors, gap)
  /\ Estimate(AfterGap(gap), Enemies(armors))
  /\ phase' = IF state' = "lost" THEN "shoot" ELSE "aim"
  /\ command' = NoCommand
  /\ shoot' = FALSE
  /\ calls' = 0
  /\ UNCHANGED <<lockId, point, lastYaw>>

(* Tracker::set_enemy_color also replaces target_ by a default Target.     *)
ChangeEnemyColor(color) ==
  /\ phase = "track"
  /\ SetEnemyColor(color)
  /\ command' = NoCommand
  /\ shoot' = FALSE
  /\ UNCHANGED <<phase, modelVars, aimVars, lastYaw>>

-----------------------------------------------------------------------------
(* Aimer::choose_aim_point, for a target whose plate 0 is at this angle    *)
(* and which rotates with this sense, 0 if too slowly to matter.           *)
Wrap(a) == ((a + Turn \div 2) % Turn) - Turn \div 2

IsOutpost == target.kind = Outpost

(* Mutant: an outpost is aimed at as if all its plates had been seen.      *)
CandidatesGuessed == Ids(target.kind)

(* The heights of an outpost's plates are known once all were seen         *)
(* (outpost_layout_complete); until then only the last one is considered.  *)
Candidates ==
  IF IsOutpost /\ seen # Ids(target.kind) THEN {lastId} ELSE Ids(target.kind)

Offset(angle, id) == Wrap(angle + id * (Turn \div Plates[target.kind]))

InReach(angle) == {id \in Candidates : Distance(Offset(angle, id)) < Reach}

(* Of some plates, the first and the last; the first two of those in       *)
(* reach; the nearer of two, the second one if they are equally near.      *)
IsFirst(id, ids) == id \in ids /\ \A i \in ids : id <= i
IsLast(id, ids) == id \in ids /\ \A i \in ids : i <= id

FirstTwo(angle) ==
  LET ids == InReach(angle)
  IN {id \in ids : Cardinality({i \in ids : i < id}) < 2}

IsNearer(angle, id, ids) ==
  /\ id \in ids
  /\ \A i \in ids \ {id} :
       \/ Distance(Offset(angle, id)) < Distance(Offset(angle, i))
       \/ Distance(Offset(angle, id)) = Distance(Offset(angle, i)) /\ i < id

(* The plates of a spinning target that are coming, not yet leaving.       *)
Approaching(angle, spin) ==
  LET coming == IF IsOutpost THEN OutpostComing ELSE Coming
      leaving == IF IsOutpost THEN OutpostLeaving ELSE Leaving
  IN {id \in Candidates :
        /\ Distance(Offset(angle, id)) < coming
        /\ \/ spin = 1 /\ Offset(angle, id) < leaving
           \/ spin = -1 /\ Offset(angle, id) > -leaving}

(* The plates of an outpost that nearly face the gimbal, and the best of   *)
(* them.                                                                   *)
Facing(angle) ==
  {id \in Candidates : IsOutpost /\ Distance(Offset(angle, id)) < OutpostLeaving}

Best(angle) ==
  {id \in Facing(angle) : \A i \in Facing(angle) :
     Distance(Offset(angle, id)) <= Distance(Offset(angle, i))}

Take(id) == point' = [valid |-> TRUE, plate |-> id]

TakeNone ==
  \E id \in Candidates :
    IsFirst(id, Candidates) /\ point' = [valid |-> FALSE, plate |-> id]

ChooseOnlyKnown ==
  /\ ~jumped /\ ~IsOutpost
  /\ Take(0)
  /\ among' = {}
  /\ UNCHANGED lockId

(* Mutant: the lock is kept only on the second plate in reach.             *)
TakeLockedOfLast(angle) ==
  /\ lockId' \in FirstTwo(angle)
  /\ IF IsLast(lockId, FirstTwo(angle)) THEN lockId' = lockId
     ELSE IsNearer(angle, lockId', FirstTwo(angle))
  /\ Take(lockId')

(* The plate the aim is locked on, as long as it is one of the two.        *)
TakeLocked(angle) ==
  /\ lockId' \in FirstTwo(angle)
  /\ IF lockId \in FirstTwo(angle) THEN lockId' = lockId
     ELSE IsNearer(angle, lockId', FirstTwo(angle))
  /\ Take(lockId')

(* A target that does not spin: none, the only plate, or one of the first  *)
(* two plates in reach.                                                    *)
ChooseSlowly(angle, spin) ==
  /\ jumped /\ ~IsOutpost /\ spin = 0
  /\ among' = FirstTwo(angle)
  /\ \/ InReach(angle) = {} /\ TakeNone /\ UNCHANGED lockId
     \/ /\ \E id \in InReach(angle) : InReach(angle) = {id} /\ Take(id)
        /\ lockId' = NoPlate
     \/ Cardinality(InReach(angle)) > 1 /\ TakeLocked(angle)

(* A spinning target, or any outpost: the first plate that is coming, or   *)
(* else the outpost's plate that faces the gimbal best, the last if equal. *)
ChooseSpinning(angle, spin) ==
  /\ IsOutpost \/ (jumped /\ spin # 0)
  /\ \/ \E id \in Candidates : IsFirst(id, Approaching(angle, spin)) /\ Take(id)
     \/ /\ Approaching(angle, spin) = {}
        /\ \/ \E id \in Candidates : IsLast(id, Best(angle)) /\ Take(id)
           \/ Facing(angle) = {} /\ TakeNone
  /\ among' = {}
  /\ UNCHANGED lockId

ChooseAimPoint(angle, spin) ==
  ChooseOnlyKnown \/ ChooseSlowly(angle, spin) \/ ChooseSpinning(angle, spin)

-----------------------------------------------------------------------------
(* Aimer::aim chooses a plate for the present, and again for every new     *)
(* estimate of the time of flight, until two estimates agree.              *)
Choose(angle, spin) ==
  /\ phase = "aim"
  /\ calls <= MaxIterations
  /\ ChooseAimPoint(angle, spin)
  /\ UNCHANGED <<vars, modelVars, shootVars>>

GiveUp(angle, spin) ==
  /\ Choose(angle, spin)
  /\ ~point'.valid
  /\ calls' = 0
  /\ phase' = "shoot"
  /\ UNCHANGED command

(* The chosen point cannot be hit: it is marked as invalid.                *)
Unsolvable ==
  /\ phase = "aim" /\ calls > 0
  /\ point' = [point EXCEPT !.valid = FALSE]
  /\ calls' = 0
  /\ phase' = "shoot"
  /\ UNCHANGED <<vars, modelVars, lockId, among, command, shootVars>>

Iterate(angle, spin) ==
  /\ Choose(angle, spin)
  /\ point'.valid
  /\ calls' = calls + 1
  /\ UNCHANGED <<phase, command>>

(* The estimates agree, or there were enough of them.                      *)
Converge ==
  /\ phase = "aim" /\ calls > 1
  /\ \E yaw \in Yaws : command' = [control |-> TRUE, yaw |-> yaw]
  /\ calls' = 0
  /\ phase' = "shoot"
  /\ UNCHANGED <<vars, modelVars, lockId, point, among, shootVars>>

Aim ==
  \/ /\ phase = "aim"
     /\ \E angle \in 0..(Turn - 1), spin \in -1..1 :
          GiveUp(angle, spin) \/ Iterate(angle, spin)
  \/ Unsolvable
  \/ Converge

-----------------------------------------------------------------------------
(* Shooter::shoot.                                                         *)
HoldFire ==
  /\ phase = "shoot"
  /\ ~command.control \/ ~AutoFire
  /\ phase' = "track"
  /\ UNCHANGED <<vars, modelVars, aimVars, command, shootVars>>

(* Mutant: the gimbal is not compared with the command it was given.       *)
SteadyEnoughBlind(gimbal, tolerance) ==
  /\ Distance(lastYaw - command.yaw) < 2 * tolerance
  /\ point.valid

SteadyEnough(gimbal, tolerance) ==
  /\ Distance(lastYaw - command.yaw) < 2 * tolerance
  /\ Distance(gimbal - lastYaw) < tolerance
  /\ point.valid

Shoot(gimbal, tolerance) ==
  /\ phase = "shoot"
  /\ command.control /\ AutoFire
  /\ shoot' = SteadyEnough(gimbal, tolerance)
  /\ lastYaw' = command.yaw
  /\ phase' = "track"
  /\ UNCHANGED <<vars, modelVars, aimVars, command>>

AutoNext ==
  \/ \E armors \in SUBSET Armors, gap \in Gaps : TrackFrame(armors, gap)
  \/ \E color \in Colors : ChangeEnemyColor(color)
  \/ Aim
  \/ HoldFire
  \/ \E gimbal \in Yaws, tolerance \in Tolerances : Shoot(gimbal, tolerance)

AutoSpec == AutoInit /\ [][AutoNext]_autoVars

-----------------------------------------------------------------------------
(* Between two plates that are both in reach the aim does not go back and  *)
(* forth: as long as there is more than one, the plate that was aimed at   *)
(* is left only when it is no longer one of the first two in reach, within *)
(* the iterations of a frame as well as from frame to frame (lock_id_).    *)
LockHolds ==
  [][/\ Cardinality(among) > 1
     /\ Cardinality(among') > 1
     /\ point.plate \in among'
     => point'.plate = point.plate]_autoVars

(* The height of an outpost's plate is guessed until the plate was seen:   *)
(* a command never aims at a plate of an outpost that this target has not  *)
(* seen itself, whatever targets there were before (choose_aim_point).     *)
OutpostPlateIsKnown ==
  command.control /\ IsOutpost => point.plate \in seen

(* A shot is fired only at a valid point of a target that is still         *)
(* tracked, and with the gimbal less than three tolerances away from the   *)
(* command of this very frame, although the Shooter compares it with the   *)
(* command before: the two tolerances it tests add up (shoot).             *)
FiresOnTarget ==
  [][\A gimbal \in Yaws, tolerance \in Tolerances :
       Shoot(gimbal, tolerance) /\ shoot' =>
         /\ state # "lost"
         /\ point.valid
         /\ Distance(gimbal - command.yaw) < 3 * tolerance]_autoVars
===============================================================================
