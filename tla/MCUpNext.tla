------------------------------- MODULE MCUpNext -------------------------------
(* UpNext on a small instance. *)
EXTENDS UpNext, TLC
Symmetry == Permutations(Slot)
==============================================================================
