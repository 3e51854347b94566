---------------------------- MODULE MCVoiceGuard ----------------------------
(* Two lines at a time, of two speakers. *)
EXTENDS VoiceGuard, TLC
CONSTANTS s1, s2, l1, l2, c1, c2, c3, a1
Alike == Permutations({s1, s2}) \cup Permutations({l1, l2})
=============================================================================
