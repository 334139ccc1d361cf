------------------------------- MODULE Mailbox --------------------------------
(***************************************************************************)
(* What a worker thread with a one-picture slot promises, without threads, *)
(* mutexes or notifications.  A new picture replaces one that still waits: *)
(* the worker always gets the latest.  A picture that was left in the box  *)
(* is worked on even when no other one follows, until the box is closed;   *)
(* what waits when it is closed is given up.                               *)
(***************************************************************************)
EXTENDS Naturals

CONSTANT MaxPictures  (* bound: the pictures put into the box              *)

VARIABLES
  open,    (* the box has not been closed                                  *)
  posted,  (* pictures put into the box so far, numbered from 1            *)
  held,    (* the picture that waits in the box, 0 if there is none        *)
  worked   (* the last picture the worker took, 0 before the first         *)

vars == <<open, posted, held, worked>>

Init == open = TRUE /\ posted = 0 /\ held = 0 /\ worked = 0

Post ==
  /\ open
  /\ posted < MaxPictures
  /\ posted' = posted + 1
  /\ held' = posted'
  /\ UNCHANGED <<open, worked>>

Take ==
  /\ open
  /\ held # 0
  /\ worked' = held
  /\ held' = 0
  /\ UNCHANGED <<open, posted>>

Close ==
  /\ open
  /\ open' = FALSE
  /\ held' = 0
  /\ UNCHANGED <<posted, worked>>

Next == Post \/ Take \/ Close

Spec == Init /\ [][Next]_vars /\ WF_vars(Take)
=============================================================================
