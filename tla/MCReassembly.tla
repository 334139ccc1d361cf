----------------------------- MODULE MCReassembly -----------------------------
EXTENDS Reassembly

(* Frames of one, two and three fragments, and of equal and unequal sizes. *)
MixedStream == << <<1, 1>>, <<1>>, <<2, 1>>, <<1, 1>>, <<1, 1, 1>> >>
=============================================================================
