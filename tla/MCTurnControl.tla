---------------------------- MODULE MCTurnControl ----------------------------
(* TurnControl on a small instance. *)
EXTENDS TurnControl, TLC
Symmetry == Permutations(Run)
==============================================================================
