----------------------------- MODULE MCVideoLocks -----------------------------
(* VideoLocks on a small instance: one or two videos, three or four ids. *)
EXTENDS VideoLocks, TLC
Symmetry == Permutations(Work) \cup Permutations(Person) \cup Permutations(Video)
===============================================================================
