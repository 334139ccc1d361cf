------------------------------ MODULE PowerRune -------------------------------
(***************************************************************************)
(* The power rune as mt_standard shoots at it: frame by frame SmallTarget  *)
(* or BigTarget::get_target keeps the filter of its mode, and one          *)
(* auto_buff::Aimer, shared by both, answers with control and shoot.  The  *)
(* filters, the trajectory and the angles are arithmetic: a frame chooses  *)
(* whether a rune is seen, whether the filter diverges, whether the        *)
(* trajectory is solved, and whether the aim jumps by more than 5 degrees  *)
(* (to another fan blade).                                                 *)
(***************************************************************************)
EXTENDS Naturals

CONSTANTS
  MaxLoss,      (* lost frames after which a filter is made anew (6)       *)
  MaxMistakes,  (* jumps in a row that are not followed (3)                *)
  FireGap       (* fire_gap_time                                           *)

RuneAssumption ==
  MaxLoss \in Nat /\ MaxMistakes \in Nat /\ FireGap \in Nat

VARIABLES
  firstIn,     (* first_in_ of SmallTarget and BigTarget                   *)
  unsolvable,  (* unsolvable_ of both                                      *)
  lostCount,   (* their static lost_cn                                     *)
  missed,      (* history: frames of its mode without a rune since the     *)
               (* filter was made                                          *)
  switching,   (* switch_fanblade_, which has no initial value             *)
  mistakes,    (* mistake_count_                                           *)
  idle,        (* time since last_fire_t_                                  *)
  control, shoot, (* the Command of this frame                             *)
  jump,        (* history: the aim jumped in this frame                    *)
  quiet,       (* history: time since the last frame with a shot or a jump *)
  held         (* history: solved frames in a row without control          *)

targetVars == <<firstIn, unsolvable, lostCount, missed>>
vars == <<targetVars, switching, mistakes, idle, control, shoot, jump, quiet,
          held>>

Sizes == {"small", "big"}
Steps == 1..2   (* the time between two frames                             *)
AtMost(n, max) == IF n < max THEN n ELSE max

Init ==
  /\ firstIn = [k \in Sizes |-> TRUE]
  /\ unsolvable = [k \in Sizes |-> TRUE]
  /\ lostCount = [k \in Sizes |-> 0]
  /\ missed = [k \in Sizes |-> 0]
  /\ switching \in BOOLEAN
  /\ mistakes = 0
  /\ idle = 0
  /\ control = FALSE /\ shoot = FALSE /\ jump = FALSE
  /\ quiet = 0
  /\ held = 0

-----------------------------------------------------------------------------
(* get_target(): no rune in this image.  One loss over the limit is enough *)
(* to count.                                                               *)
Lose(k) ==
  /\ unsolvable' = [unsolvable EXCEPT ![k] = TRUE]
  /\ lostCount' = [lostCount EXCEPT ![k] = AtMost(@ + 1, MaxLoss + 1)]
  /\ missed' = [missed EXCEPT ![k] = AtMost(@ + 1, MaxLoss + 1)]
  /\ UNCHANGED firstIn

(* A filter is made if there is none; one that has lost the rune too often *)
(* is given up, the one just made included.                                *)
Forget(k) ==
  /\ lostCount[k] > MaxLoss
  /\ unsolvable' = [unsolvable EXCEPT ![k] = TRUE]
  /\ lostCount' = [lostCount EXCEPT ![k] = 0]
  /\ firstIn' = [firstIn EXCEPT ![k] = TRUE]
  /\ UNCHANGED missed

(* Otherwise it is updated; if it diverges the next frame makes another,   *)
(* but only SmallTarget calls this one unsolvable.                         *)
Update(k) ==
  /\ lostCount[k] <= MaxLoss
  /\ missed' = [missed EXCEPT ![k] = IF firstIn[k] THEN 0 ELSE @]
  /\ \E diverged \in BOOLEAN :
       /\ firstIn' = [firstIn EXCEPT ![k] = diverged]
       /\ unsolvable' = [unsolvable EXCEPT ![k] = diverged /\ k = "small"]
  /\ UNCHANGED lostCount

GetTarget(k) == Lose(k) \/ Forget(k) \/ Update(k)

-----------------------------------------------------------------------------
(* Aimer::aim.  No target, no command.                                     *)
NoAim ==
  /\ control' = FALSE /\ shoot' = FALSE /\ jump' = FALSE
  /\ UNCHANGED <<switching, mistakes, held>>

(* No trajectory: no control, but the fire decision is still made.         *)
Unsolved ==
  /\ control' = FALSE /\ jump' = FALSE
  /\ UNCHANGED <<switching, mistakes, held>>

(* The aim jumps: the gimbal stays, unless it has stayed too often.  After *)
(* that the next aim is followed wherever it is.                           *)
Jumps ==
  /\ mistakes <= MaxMistakes
  /\ jump' = TRUE /\ switching' = TRUE /\ control' = FALSE
  /\ mistakes' = mistakes + 1
  /\ held' = AtMost(held + 1, MaxMistakes + 2)

Follows ==
  /\ mistakes > MaxMistakes
  /\ jump' \in BOOLEAN
  /\ switching' = TRUE /\ control' = TRUE
  /\ mistakes' = 0
  /\ held' = 0

Stays ==
  /\ mistakes <= MaxMistakes
  /\ jump' = FALSE /\ switching' = FALSE /\ control' = TRUE
  /\ mistakes' = 0
  /\ held' = 0

(* Fire, unless the blade changes or a shot was fired a moment ago.        *)
Fire(d) ==
  /\ shoot' = (~switching' /\ idle + d > FireGap)
  /\ idle' = IF switching' \/ shoot' THEN 0 ELSE AtMost(idle + d, FireGap + 1)

Aim(k, d) ==
  \/ unsolvable'[k] /\ NoAim /\ idle' = AtMost(idle + d, FireGap + 1)
  \/ ~unsolvable'[k] /\ (Unsolved \/ Jumps \/ Follows \/ Stays) /\ Fire(d)

(* One frame of the loop in a buff mode.                                   *)
Frame(k, d) ==
  /\ GetTarget(k)
  /\ Aim(k, d)
  /\ quiet' = AtMost((IF shoot \/ jump THEN 0 ELSE quiet) + d, FireGap + 1)

Next == \E k \in Sizes, d \in Steps : Frame(k, d)

Spec == Init /\ [][Next]_vars

-----------------------------------------------------------------------------
(* A filter that is aimed with has missed the rune in no more frames of    *)
(* its mode than the limit, in a row or not (get_target, lost_cn); and a   *)
(* rune that jumps about is not refused for more than the limit of frames  *)
(* and one (mistake_count_).                                               *)
RuneIsFollowed ==
  /\ \A k \in Sizes : unsolvable[k] \/ missed[k] <= MaxLoss
  /\ held <= MaxMistakes + 1

(* A shot leaves time since the last shot, and since the last time the aim *)
(* jumped: the gimbal may still be turning (last_fire_t_, switch_fanblade_). *)
ShotsAreSpaced == shoot => quiet > FireGap
=============================================================================
