---------------------------- MODULE MCAddLanding ----------------------------
(* Two or three changes made by hand, previews and Stops. *)
EXTENDS AddLanding, TLC
Symm == Permutations(Add) \cup Permutations(Change \ Add) \cup Permutations(Preview)
==============================================================================
