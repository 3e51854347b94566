---------------------------- MODULE MCOneServer ----------------------------
(* Two processes on two hosts. *)
EXTENDS OneServer, TLC
CONSTANTS p1, p2
Hosts == p1 :> "a" @@ p2 :> "b"
==============================================================================
