---------------------------- MODULE MCBatchEngine ----------------------------
(* Two videos, of which one is answered.  `part` says what a behaviour shows:   *)
(* the clicks of two people that cross, or answers that cross.                  *)
EXTENDS BatchEngine, TLC
VARIABLE part
Symm == Permutations(Video) \cup Permutations(Answer) \cup Permutations(Clicker)

Asking == {a \in Answer : ans[a].pc # "new"}
Untouched(v) == worker[v] \in {"none", "queued"} /\ turn[v] = NoTurn /\ paid[v] = 0

\* One answer, and a turn makes one paid call.
Clicking == Cardinality(Asking) <= 1 /\ \A v \in Video : paid[v] <= 1
\* One video is at work.
Answering == Cardinality({v \in Video : ~Untouched(v)}) <= 1

MCInit ==
    /\ Init /\ part \in {"clicks", "answers"}
    /\ \E v \in Video : \A a \in Answer : ans[a].on = v
MCNext ==
    /\ Next
    /\ part = "clicks" => Clicking'
    /\ part = "answers" => Answering'
    /\ UNCHANGED part
MCSpec == MCInit /\ [][MCNext]_<<part, vars>>
==============================================================================
