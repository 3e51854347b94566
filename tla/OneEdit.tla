------------------------------- MODULE OneEdit -------------------------------
(***************************************************************************)
(* What "one edit at a time per video" promises (jobs/locks.py, header):   *)
(* a video is Ready, or Working for one piece of work of one person, or    *)
(* Waiting for that person (a go, a pause).  Work is passed on only inside *)
(* what the same person started; nobody else gets in before it is Ready.   *)
(***************************************************************************)
CONSTANTS Video, Work, Person, Nobody, Free

Starter == Person \cup {Nobody}
Doing == [phase : {"working", "paused", "waiting"}, id : Work, by : Starter]

VARIABLE doing    \* [Video -> Doing or Free]; Free is no member of Doing

Init == doing = [v \in Video |-> Free]

Start(v, w, p) ==
    /\ doing[v] = Free
    /\ doing' = [doing EXCEPT ![v] = [phase |-> "working", id |-> w, by |-> p]]

\* The request's work goes on as a turn or a job of the same person.
GoOn(v, w) ==
    /\ doing[v] # Free /\ doing[v].phase = "working"
    /\ doing' = [doing EXCEPT ![v] = [phase |-> "working", id |-> w, by |-> doing[v].by]]

\* Its person answers the go it waits for; anybody does when nobody started it.
Answer(v, w, p) ==
    /\ doing[v] # Free /\ doing[v].phase = "waiting" /\ doing[v].by \in {Nobody, p}
    /\ doing' = [doing EXCEPT ![v] = [phase |-> "working", id |-> w, by |-> p]]

\* A turn that pauses or asks keeps the video; one that is resumed has it again.
Shift(v, from, to) ==
    /\ doing[v] # Free /\ doing[v].phase = from
    /\ doing' = [doing EXCEPT ![v] = [phase |-> to, id |-> doing[v].id, by |-> doing[v].by]]

\* It landed, failed, was stopped or its holder died; a sweep, a restart or the passing of time
\* may end several at once.
End(S) == doing' = [v \in Video |-> IF v \in S THEN Free ELSE doing[v]]

Change(v) ==
    \/ \E w \in Work, p \in Starter : Start(v, w, p) \/ Answer(v, w, p)
    \/ \E w \in Work : GoOn(v, w)
    \/ Shift(v, "working", "paused") \/ Shift(v, "working", "waiting") \/ Shift(v, "paused", "working")

Next ==
    \/ \E v \in Video : Change(v)
    \/ \E S \in SUBSET Video : End(S)

Spec == Init /\ [][Next]_doing
==============================================================================
