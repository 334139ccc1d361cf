------------------------------ MODULE Revocation ------------------------------
(***************************************************************************)
(* What the result topic promises about team colours, without threads,     *)
(* mutexes or time.  Every colour opens an era, numbered from 1.  A        *)
(* command belongs to the era it was computed in.  After a change of era   *)
(* there is one revocation; before it, a command of either era may         *)
(* stand, after it none of an earlier era ever stands again.               *)
(***************************************************************************)
EXTENDS Integers

VARIABLES
  era,      (* the eras opened so far                                      *)
  revoked,  (* the era up to which commands have been revoked              *)
  command   (* the era of the command that stands, Safe if there is none   *)

Safe == 0

Init == era = 0 /\ revoked = 0 /\ command = Safe

(* Eras do not overlap: the next one waits for the last one's revocation.  *)
OpenEra == revoked = era /\ era' = era + 1 /\ UNCHANGED <<revoked, command>>

Revoke ==
  /\ revoked < era
  /\ revoked' = era
  /\ command' = Safe
  /\ UNCHANGED era

Engage ==
  /\ command' \in (revoked..era) \ {Safe}
  /\ UNCHANGED <<era, revoked>>

Release == command' = Safe /\ UNCHANGED <<era, revoked>>

Next == OpenEra \/ Revoke \/ Engage \/ Release

Spec == Init /\ [][Next]_<<era, revoked, command>>
=============================================================================
