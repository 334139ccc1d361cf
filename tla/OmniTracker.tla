----------------------------- MODULE OmniTracker ------------------------------
(***************************************************************************)
(* The tracker of sentry_multithread, whose track() also gets what the     *)
(* cameras around the robot see.  When one of them sees an armour of a     *)
(* higher priority than the target's, the gimbal is turned there and the   *)
(* tracker is "switching" until the main camera sees an armour of that     *)
(* priority; the target stays what it was until the frame after that.      *)
(*                                                                         *)
(* Decider has filtered and sorted both inputs: an armour is its kind, the *)
(* main camera's are a set of kinds, and of the other cameras only what is *)
(* in front of the queue counts.  Outposts are filtered out, so that there *)
(* is one limit of temp_lost_count_.  A number of lower value is a higher  *)
(* priority.                                                               *)
(***************************************************************************)
EXTENDS Naturals

CONSTANTS
  Kinds,     (* names of armours                                           *)
  Priority,  (* ArmorPriority of a kind                                    *)
  MinDetect, (* min_detect_count                                           *)
  MaxLost,   (* max_temp_lost_count                                        *)
  MaxSwitch, (* 200: misses after which a switch is given up               *)
  Nothing    (* no armour, no target                                       *)

OmniAssumption ==
  /\ Priority \in [Kinds -> Nat]
  /\ MinDetect \in Nat \ {0}
  /\ MaxLost \in Nat \ {0}
  /\ MaxSwitch \in Nat \ {0}
  /\ Nothing \notin Kinds

VARIABLES
  state,         (* state_                                                 *)
  preState,      (* pre_state_                                             *)
  detectCount,   (* detect_count_, not counted beyond MinDetect            *)
  tempLostCount, (* temp_lost_count_                                       *)
  omniPriority,  (* omni_target_priority_                                  *)
  target,        (* target_                                                *)
  converged,     (* what convergened() says of it                          *)
  unseen         (* history: frames since the target was matched or set    *)

targetVars == <<target, converged>>
vars == <<state, preState, detectCount, tempLostCount, omniPriority,
          targetVars, unseen>>

States == {"lost", "detecting", "tracking", "temp_lost", "switching"}

-----------------------------------------------------------------------------
Init ==
  /\ state = "lost"
  /\ preState = "lost"
  /\ detectCount = 0
  /\ tempLostCount = 0
  /\ omniPriority = 0
  /\ target = Nothing
  /\ converged = FALSE
  /\ unseen = 0

Foremost(armors) ==
  {a \in armors : \A b \in armors : Priority[a] <= Priority[b]}

SetTarget(armors, found) ==
  \/ /\ armors = {} /\ ~found
     /\ UNCHANGED targetVars
  \/ /\ found
     /\ target' \in Foremost(armors)
     /\ converged' = FALSE

UpdateTarget(armors, found) ==
  /\ found = (target \in armors)
  /\ converged' \in (IF found THEN {converged, TRUE} ELSE {converged})
  /\ UNCHANGED target

(* What state s of the target and the cameras make of a frame: whether     *)
(* something was found, the state that state_machine() starts from.        *)
HigherInView(s, armors) ==
  s = "tracking" /\ \E a \in armors : Priority[a] < Priority[target]

HigherAround(s, omni) ==
  /\ s = "tracking" /\ converged
  /\ omni # Nothing /\ Priority[omni] < Priority[target]

Look(s, armors, omni, found, from) ==
  \/ /\ \/ s = "lost"
        \/ HigherInView(s, armors)
        \/ s = "detecting" /\ preState = "switching"
     /\ SetTarget(armors, found)
     /\ from = s
     /\ UNCHANGED omniPriority
  \/ /\ HigherAround(s, omni) /\ ~HigherInView(s, armors)
     /\ ~found
     /\ omniPriority' = Priority[omni]
     /\ from = "switching"
     /\ UNCHANGED targetVars
  \/ /\ s = "switching"
     /\ found = (\E a \in Foremost(armors) : Priority[a] = omniPriority)
     /\ from = s
     /\ UNCHANGED <<targetVars, omniPriority>>
  \/ /\ \/ s = "tracking" /\ ~HigherInView(s, armors) /\ ~HigherAround(s, omni)
        \/ s = "detecting" /\ preState # "switching"
        \/ s = "temp_lost"
     /\ UpdateTarget(armors, found)
     /\ from = s
     /\ UNCHANGED omniPriority

-----------------------------------------------------------------------------
(* state_machine().  detect_count_ survives a switch, so that one frame    *)
(* makes the new target a tracked one; so does temp_lost_count_, so that   *)
(* switches in a row share their 200 frames, and when those are used up    *)
(* the next one is given up at once.  It is not counted beyond that.       *)
Detect(from, found, to) ==
  \/ /\ from = "lost" /\ ~found
     /\ to = "lost"
     /\ UNCHANGED detectCount
  \/ /\ from = "lost" /\ found
     /\ to = "detecting"
     /\ detectCount' = 1
  \/ /\ from = "detecting" /\ found
     /\ detectCount' = IF detectCount < MinDetect THEN detectCount + 1 ELSE MinDetect
     /\ to = IF detectCount' >= MinDetect THEN "tracking" ELSE "detecting"
  \/ /\ from = "detecting" /\ ~found
     /\ to = "lost"
     /\ detectCount' = 0

(* Mutant: the frames of a switch are not counted.                         *)
SwitchUncounted(from, found, to) ==
  /\ from = "switching"
  /\ to = IF found THEN "detecting" ELSE "switching"
  /\ UNCHANGED tempLostCount

Switch(from, found, to) ==
  /\ from = "switching"
  /\ tempLostCount' = IF found \/ tempLostCount > MaxSwitch
                      THEN tempLostCount ELSE tempLostCount + 1
  /\ to = IF found THEN "detecting"
          ELSE IF tempLostCount' > MaxSwitch THEN "lost" ELSE "switching"

Keep(from, found, to) ==
  \/ /\ from \in {"tracking", "temp_lost"} /\ found
     /\ to = "tracking"
     /\ UNCHANGED tempLostCount
  \/ /\ from = "tracking" /\ ~found
     /\ to = "temp_lost"
     /\ tempLostCount' = 1
  \/ /\ from = "temp_lost" /\ ~found
     /\ tempLostCount' = tempLostCount + 1
     /\ to = IF tempLostCount' > MaxLost THEN "lost" ELSE "temp_lost"

StateMachine(from, found, to) ==
  \/ Detect(from, found, to) /\ UNCHANGED tempLostCount
  \/ (Switch(from, found, to) \/ Keep(from, found, to)) /\ UNCHANGED detectCount

(* track(): after a long gap the target is lost, and at the end it is if   *)
(* its filter has diverged.                                                *)
Track(armors, omni, longGap) ==
  LET s == IF longGap THEN "lost" ELSE state
  IN  \E found, diverged \in BOOLEAN, from, to \in States :
        /\ Look(s, armors, omni, found, from)
        /\ preState' = from
        /\ StateMachine(from, found, to)
        /\ state' = IF diverged THEN "lost" ELSE to
        /\ unseen' = IF to = "lost" \/ (found /\ from # "switching")
                     THEN 0 ELSE unseen + 1

Next ==
  \E armors \in SUBSET Kinds, omni \in Kinds \cup {Nothing}, longGap \in BOOLEAN :
    Track(armors, omni, longGap)

Spec == Init /\ [][Next]_vars

-----------------------------------------------------------------------------
(* What track() returns was really acquired and is not a target that has   *)
(* not been seen for longer than its state allows: a tracked one was seen  *)
(* in this very frame, a lost one is given up after its limit, and a       *)
(* switch keeps an old one for no more than 200 frames and the one in      *)
(* which it ends, whatever happened before it (state_machine, pre_state_). *)
TargetIsRecent ==
  state # "lost" =>
    /\ target \in Kinds
    /\ unseen <= CASE state = "tracking"  -> 0
                   [] state = "temp_lost" -> MaxLost
                   [] state = "switching" -> MaxSwitch
                   [] state = "detecting" ->
                        IF preState = "switching" THEN MaxSwitch + 1 ELSE 0
=============================================================================
