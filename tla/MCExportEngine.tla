---------------------------- MODULE MCExportEngine ----------------------------
(* Three files: two of one video, whose presets ask for one name with the third. *)
EXTENDS ExportEngine, TLC
CONSTANTS f1, f2, f3, v1, v2
Pictures == f1 :> v1 @@ f2 :> v1 @@ f3 :> v2
Alike == Permutations({f1, f2})
OneStem == [f \in File |-> "cut"]
===============================================================================
