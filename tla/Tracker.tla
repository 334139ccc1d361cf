-------------------------------- MODULE Tracker --------------------------------
(***************************************************************************)
(* auto_aim::Tracker as custom_client uses it: one call of track() for     *)
(* every frame that was read, and set_enemy_color() between two frames.    *)
(* The list that track() returns is empty exactly when it leaves state_ at *)
(* "lost"; otherwise it holds target_.  What the Kalman filter does to an  *)
(* updated target is reduced to the two verdicts the tracker asks for:     *)
(* diverged, and too many recent failures of the NIS test.                 *)
(*                                                                         *)
(* The state "switching" and pre_state_ belong to the overload for the     *)
(* omnidirectional cameras, which custom_client never calls.               *)
(***************************************************************************)
EXTENDS Integers

CONSTANTS
  Kinds,          (* the pairs of ArmorName and ArmorType                  *)
  Outpost,        (* the kind of the outpost                               *)
  Priority,       (* the ArmorPriority of a kind, 1 is the highest         *)
  MinDetect,      (* min_detect_count                                      *)
  MaxLost,        (* max_temp_lost_count                                   *)
  OutpostMaxLost, (* outpost_max_temp_lost_count                           *)
  MaxGap,         (* 0.1 s between two frames, in ticks                    *)
  Gaps,           (* the times between two frames, in ticks                *)
  NoTarget        (* a default-constructed Target                          *)

Colors == {"red", "blue"}
States == {"lost", "detecting", "tracking", "temp_lost"}
Armors == [kind : Kinds, color : Colors]
Targets == [kind : Kinds, color : Colors, diverged : BOOLEAN, failing : BOOLEAN]

ASSUME TrackerAssumption ==
  /\ Outpost \in Kinds
  /\ Priority \in [Kinds -> Nat]
  /\ MinDetect \in Nat \ {0}
  /\ MaxLost \in Nat \ {0}
  /\ OutpostMaxLost \in Nat \ {0}
  /\ MaxGap \in Nat
  /\ Gaps \subseteq Nat
  /\ NoTarget \notin Targets

VARIABLES
  enemyColor,    (* enemy_color_                                           *)
  state,         (* state_                                                 *)
  detectCount,   (* detect_count_                                          *)
  tempLostCount, (* temp_lost_count_                                       *)
  maxTempLost,   (* max_temp_lost_count_                                   *)
  target,        (* target_, with the colour of the armour it came from    *)
  matched,       (* history: frames that matched before the first miss     *)
  unseen,        (* history: frames since the last one that matched        *)
  age            (* history: ticks since the last frame that matched       *)

counts == <<detectCount, tempLostCount, maxTempLost>>
history == <<matched, unseen, age>>
vars == <<enemyColor, state, counts, target, history>>

Limit(kind) == IF kind = Outpost THEN OutpostMaxLost ELSE MaxLost

-----------------------------------------------------------------------------
Init ==
  /\ enemyColor \in Colors
  /\ state = "lost"
  /\ detectCount = 0
  /\ tempLostCount = 0
  /\ maxTempLost = MaxLost
  /\ target = NoTarget
  /\ matched = 0
  /\ unseen = 0
  /\ age = 0

(* Mutant: a colour change keeps the target that is being tracked.         *)
SetEnemyColorOnly(color) ==
  /\ color # enemyColor
  /\ enemyColor' = color
  /\ UNCHANGED <<state, counts, target, history>>

(* Nothing happens when the colour is the same.                            *)
SetEnemyColor(color) ==
  /\ color # enemyColor
  /\ enemyColor' = color
  /\ state' = "lost"
  /\ detectCount' = 0
  /\ tempLostCount' = 0
  /\ maxTempLost' = MaxLost
  /\ target' = NoTarget
  /\ UNCHANGED history

-----------------------------------------------------------------------------
(* What a frame starts with: after a long gap the target is given up.      *)
AfterGap(gap) == IF gap > MaxGap THEN "lost" ELSE state

Enemies(armors) == {a \in armors : a.color = enemyColor}

(* The armours sort() may leave at the front of the list.                  *)
Foremost(armors) ==
  {a \in armors : \A b \in armors : Priority[a.kind] <= Priority[b.kind]}

NewTarget(a) ==
  [kind |-> a.kind, color |-> a.color, diverged |-> FALSE, failing |-> FALSE]

Matches(armors) == \E a \in armors : a.kind = target.kind

(* set_target() and update_target(): what they return, what becomes of the *)
(* target.                                                                 *)
SetTarget(armors, found) ==
  \/ /\ ~found
     /\ armors = {}
     /\ UNCHANGED target
  \/ /\ found
     /\ \E a \in Foremost(armors) : target' = NewTarget(a)

UpdateTarget(armors, found) ==
  /\ found = Matches(armors)
  /\ \/ /\ ~found
        /\ UNCHANGED target
     \/ /\ found
        /\ \E diverged, failing \in BOOLEAN :
             target' = [target EXCEPT !.diverged = diverged, !.failing = failing]

-----------------------------------------------------------------------------
(* state_machine(): from state s to state t.                               *)
StayLost(s, found, t) ==
  /\ s = "lost" /\ ~found
  /\ t = "lost"
  /\ UNCHANGED counts

(* Mutant: the count of an earlier target goes on.                         *)
AcquireCounting(s, found, t) ==
  /\ s = "lost" /\ found
  /\ t = "detecting"
  /\ detectCount' = detectCount + 1
  /\ UNCHANGED <<tempLostCount, maxTempLost>>

Acquire(s, found, t) ==
  /\ s = "lost" /\ found
  /\ t = "detecting"
  /\ detectCount' = 1
  /\ UNCHANGED <<tempLostCount, maxTempLost>>

Detect(s, found, t) ==
  /\ s = "detecting" /\ found
  /\ detectCount' = detectCount + 1
  /\ t = IF detectCount' >= MinDetect THEN "tracking" ELSE "detecting"
  /\ UNCHANGED <<tempLostCount, maxTempLost>>

DetectFails(s, found, t) ==
  /\ s = "detecting" /\ ~found
  /\ t = "lost"
  /\ detectCount' = 0
  /\ UNCHANGED <<tempLostCount, maxTempLost>>

Found(s, found, t) ==
  /\ s \in {"tracking", "temp_lost"} /\ found
  /\ t = "tracking"
  /\ UNCHANGED counts

Miss(s, found, t) ==
  /\ s = "tracking" /\ ~found
  /\ t = "temp_lost"
  /\ tempLostCount' = 1
  /\ UNCHANGED <<detectCount, maxTempLost>>

(* Mutant: the larger limit of an outpost is kept for the next target.     *)
MissAgainStaleLimit(s, found, t) ==
  /\ s = "temp_lost" /\ ~found
  /\ tempLostCount' = tempLostCount + 1
  /\ maxTempLost' = IF target'.kind = Outpost THEN OutpostMaxLost ELSE maxTempLost
  /\ t = IF tempLostCount' > maxTempLost' THEN "lost" ELSE "temp_lost"
  /\ UNCHANGED detectCount

MissAgain(s, found, t) ==
  /\ s = "temp_lost" /\ ~found
  /\ tempLostCount' = tempLostCount + 1
  /\ maxTempLost' = Limit(target'.kind)
  /\ t = IF tempLostCount' > maxTempLost' THEN "lost" ELSE "temp_lost"
  /\ UNCHANGED detectCount

StateMachine(s, found, t) ==
  \/ StayLost(s, found, t)
  \/ Acquire(s, found, t)
  \/ Detect(s, found, t)
  \/ DetectFails(s, found, t)
  \/ Found(s, found, t)
  \/ Miss(s, found, t)
  \/ MissAgain(s, found, t)

(* The two tests that may still discard the target.                        *)
Checked(t) ==
  IF t # "lost" /\ (target'.diverged \/ target'.failing) THEN "lost" ELSE t

-----------------------------------------------------------------------------
(* History: counts start with the frame that acquired the target.          *)
Record(s, found, gap) ==
  /\ matched' = CASE s = "lost" -> IF found THEN 1 ELSE 0
                  [] s = "detecting" /\ found -> matched + 1
                  [] OTHER -> matched
  /\ unseen' = IF found \/ s = "lost" THEN 0 ELSE unseen + 1
  /\ age' = IF found \/ s = "lost" THEN 0 ELSE age + gap

Track(armors, gap) ==
  LET s == AfterGap(gap)
      enemies == Enemies(armors)
  IN  \E found \in BOOLEAN :
        /\ IF s = "lost" THEN SetTarget(enemies, found)
                         ELSE UpdateTarget(enemies, found)
        /\ \E t \in States :
             StateMachine(s, found, t) /\ state' = Checked(t)
        /\ Record(s, found, gap)
        /\ UNCHANGED enemyColor

Frame == \E armors \in SUBSET Armors, gap \in Gaps : Track(armors, gap)

Next == Frame \/ \E color \in Colors : SetEnemyColor(color)

Spec == Init /\ [][Next]_vars

-----------------------------------------------------------------------------
(* The counters stay within one step of their limits.                      *)
TypeOK ==
  /\ enemyColor \in Colors
  /\ state \in States
  /\ detectCount \in 0..(MinDetect + 1)
  /\ tempLostCount \in Nat
  /\ tempLostCount <= MaxLost + 1 \/ tempLostCount <= OutpostMaxLost + 1
  /\ maxTempLost \in {MaxLost, OutpostMaxLost}
  /\ target \in Targets \union {NoTarget}
  /\ matched \in Nat
  /\ unseen \in Nat
  /\ age \in Nat

(* A target that track() returns, or goes on with in the next frame, was   *)
(* really acquired (the filter of a default Target has no state to read),  *)
(* from an armour of the colour that is the enemy's now, and its filter    *)
(* has neither diverged nor failed its tests.                              *)
TargetIsUsable ==
  state # "lost" =>
    /\ target \in Targets
    /\ target.color = enemyColor
    /\ ~target.diverged
    /\ ~target.failing

(* A target is called tracked only when, from its acquisition on, it was   *)
(* matched in min_detect_count frames in a row, none of them of another    *)
(* target or before a gap.                                                 *)
TrackingIsConfirmed ==
  state \in {"tracking", "temp_lost"} => matched >= MinDetect

(* A target is predicted without being seen for no more frames than the    *)
(* limit of its own kind allows, and no longer than as many largest gaps:  *)
(* not when an outpost was tracked before, and not when misses, matches    *)
(* and gaps alternate.                                                     *)
UnseenIsBounded ==
  state # "lost" =>
    /\ unseen <= Limit(target.kind)
    /\ age <= unseen * MaxGap
===============================================================================
