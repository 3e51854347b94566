---------------------------- MODULE BatchEngine ----------------------------
(***************************************************************************)
(* F4: one goal across the videos of a project (jobs/batch.py): one gate,  *)
(* then a turn per video, CONCURRENCY at a time, with Cancel, Pause,       *)
(* Resume, the deadline of a pause, the answers to a video's question      *)
(* (answer_batch_video), a crash and a restart.                            *)
(*                                                                         *)
(* What the engine does under its lock is one step; its calls into a       *)
(* video's turn (Stop, Pause, Resume, one video after another) are steps   *)
(* of their own.  A turn is what TurnControl says of it: it pays call by   *)
(* call and never more than its cap, holds when asked to, ends on a        *)
(* question or not.  Money is in units; every video's cap is Cap.  `paid`  *)
(* is the usage ledger.                                                    *)
(*                                                                         *)
(* Two histories, which no step reads: `crossed`, and of an answer whether *)
(* it was `blind`, that is let in while the record did not say, or did not *)
(* say truly, what another answer of the video cost.                       *)
(*                                                                         *)
(* X_Slip is a slip in the code X models (see LockTable).                  *)
(***************************************************************************)
EXTENDS Integers, FiniteSets, Sequences, Functions

CONSTANTS
    Video,            \* the batch's children
    CONCURRENCY,      \* videos at a time
    Cap,              \* a video's turn cap: its share of the batch's
    Answer,           \* requests of answer_batch_video
    Clicker,          \* threads of the routes cancel, pause and resume
    Engine,           \* the batch itself, of whose turns an answer's is none
    MaxClicks,        \* bound on clicks
    MaxCrashes        \* bound on crashes

ASSUME BatchAssumption ==
    /\ IsFiniteSet(Video) /\ Video # {} /\ CONCURRENCY \in Nat \ {0} /\ Cap \in Nat \ {0}
    /\ IsFiniteSet(Answer) /\ Engine \notin Answer
    /\ MaxClicks \in Nat /\ MaxCrashes \in Nat

VARIABLES
    phase, cancelled, paused, late,  \* the record, and whether the pause is past its deadline
    parent,     \* the parent job's status
    child,      \* [Video -> the child job: its status and what its detail says it spent]
    answers,    \* [Video -> what the record says each answer spent]
    worker,     \* [Video -> where its thread of the batch's pool stands]
    turn,       \* [Video -> its turn: where it stands, who asked for it, what is left of its cap]
    question,   \* videos whose plan has an open question
    paid,       \* [Video -> what the ledger says was spent]
    ans,        \* [Answer -> where its request stands]
    calls,      \* [Clicker and pause points -> what they call next, and on which videos]
    crossed,    \* a history: whether the last Pause or Resume came while another click's calls were out
    clicks, up, crashes

record == <<phase, cancelled, paused, late>>
money == <<answers, question, paid, ans>>
clicking == <<crossed, clicks>>
machine == <<up, crashes>>
vars == <<record, parent, child, worker, turn, money, calls, clicking, machine>>

Over == {"done", "failed", "cancelled"}
NoTurn == [st |-> "none", by |-> Engine, cap |-> 0, left |-> 0]
NoCall == [to |-> "idle", on |-> {}]
Live(v) == turn[v].st \in {"running", "pausing", "held", "stopping"}

TypeOK ==
    /\ phase \in {"gate", "running", "finished", "cancelled"} /\ cancelled \in BOOLEAN
    /\ paused \in BOOLEAN /\ late \in BOOLEAN
    /\ parent \in {"queued", "running"} \cup Over
    /\ child \in [Video -> [status : {"none", "queued", "running"} \cup Over, spent : 0..Cap]]
    /\ answers \in [Video -> Seq(0..Cap)]
    /\ worker \in [Video -> {"none", "queued", "point", "late", "drop", "look", "start", "turn", "over"}]
    /\ turn \in [Video -> [st : {"none", "running", "pausing", "held", "stopping", "over"}, by : Answer \cup {Engine},
                           cap : 0..Cap, left : 0..Cap]]
    /\ question \in SUBSET Video /\ paid \in [Video -> Nat]
    /\ ans \in [Answer -> [pc : {"new", "read", "started", "noted", "over", "lost"}, on : Video, left : 0..Cap,
                           index : Nat, ended : BOOLEAN, cost : 0..Cap, blind : BOOLEAN]]
    /\ calls \in [Clicker \cup Video -> [to : {"idle", "pause?", "resume?", "stop", "pause", "resume"}, on : SUBSET Video]]
    /\ crossed \in BOOLEAN /\ clicks \in 0..MaxClicks /\ up \in BOOLEAN /\ crashes \in 0..MaxCrashes

Init ==
    /\ phase = "gate" /\ cancelled = FALSE /\ paused = FALSE /\ late = FALSE
    /\ parent = "queued" /\ child = [v \in Video |-> [status |-> "none", spent |-> 0]]
    /\ answers = [v \in Video |-> <<>>]
    /\ worker = [v \in Video |-> "none"] /\ turn = [v \in Video |-> NoTurn]
    /\ question = {} /\ paid = [v \in Video |-> 0]
    /\ ans \in [Answer -> [pc : {"new"}, on : Video, left : {0}, index : {0}, ended : {FALSE}, cost : {0}, blind : {FALSE}]]
    /\ calls = [c \in Clicker \cup Video |-> NoCall] /\ crossed = FALSE /\ clicks = 0
    /\ up = TRUE /\ crashes = 0

Running == {v \in Video : child[v].status = "running"}
\* A job that is over stays as it is (ActivityJobs._move).
Ended(was, status) == IF was \in Over THEN was ELSE status
SumOf(f) == FoldFunction(LAMBDA a, b : a + b, 0, f)

\* _spent, and what the batch has left: its cap is the sum of its children's.
Spent(v) == child[v].spent + SumOf(answers[v])
Left == Cap * Cardinality(Video) - SumOf([v \in Video |-> Spent(v)]) - Cap * Cardinality(Running)
------------------------------------------------------------------------------
(* The gate. *)

\* go: every child queued at once, in the lock.
Go ==
    /\ up /\ phase = "gate" /\ parent = "queued"
    /\ phase' = "running" /\ parent' = "running"
    /\ child' = [v \in Video |-> [child[v] EXCEPT !.status = "queued"]]
    /\ worker' = [v \in Video |-> "queued"]
    /\ UNCHANGED <<cancelled, paused, late, turn, money, calls, clicking, machine>>
------------------------------------------------------------------------------
(* One video: _one. *)

To(v, pc) == worker' = [worker EXCEPT ![v] = pc]
At(v, pc) == up /\ worker[v] = pc

PoolTakes(v) ==
    /\ At(v, "queued") /\ Cardinality({w \in Video : worker[w] \notin {"none", "queued", "over"}}) < CONCURRENCY
    /\ To(v, "point")
    /\ UNCHANGED <<record, parent, child, turn, money, calls, clicking, machine>>

\* _wait_while_paused: it waits while the batch is paused.
Point_Slip(v) ==
    /\ At(v, "point") /\ ~paused
    /\ To(v, "look")
    /\ UNCHANGED <<record, parent, child, turn, money, calls, clicking, machine>>
Point(v) ==
    /\ At(v, "point")
    /\ paused /\ ~cancelled => late
    /\ To(v, IF paused /\ ~cancelled THEN "late" ELSE "look")
    /\ UNCHANGED <<record, parent, child, turn, money, calls, clicking, machine>>

\* A pause past its deadline: the mark goes, and then the batch is cancelled.
Late(v) ==
    /\ At(v, "late")
    /\ paused' = FALSE
    /\ To(v, "drop")
    /\ UNCHANGED <<phase, cancelled, late, parent, child, turn, money, calls, clicking, machine>>

\* cancel, in the lock: what is queued is cancelled, what runs is stopped after it, one by one.
CancelRunning(who) ==
    /\ cancelled' = TRUE
    /\ child' = [v \in Video |-> IF child[v].status = "queued" THEN [child[v] EXCEPT !.status = "cancelled"] ELSE child[v]]
    /\ calls' = [calls EXCEPT ![who] = [to |-> "stop", on |-> Running]]

Drop(v) ==
    /\ At(v, "drop")
    /\ CancelRunning(v)
    /\ To(v, "look")
    /\ UNCHANGED <<phase, paused, late, parent, turn, money, clicking, machine>>

\* In the lock: a child cancelled while it was queued, or in a cancelled batch, does not start; nor
\* does one whose cap does not fit in the batch's, or which another ceiling refuses.
Look(v) ==
    LET refused == child[v].status \in Over \/ cancelled IN
    /\ At(v, "look") /\ calls[v] = NoCall
    /\ \/ refused /\ child' = [child EXCEPT ![v].status = Ended(@, "cancelled")] /\ To(v, "over")
       \/ ~refused /\ child' = [child EXCEPT ![v].status = Ended(@, "failed")] /\ To(v, "over")
       \/ ~refused /\ Left >= Cap /\ child' = [child EXCEPT ![v].status = "running"] /\ To(v, "start")
    /\ UNCHANGED <<record, parent, turn, money, calls, clicking, machine>>

\* run_child, _start_turn: the turn takes the video's lock, or the child fails (the video is busy).
Start(v) ==
    /\ At(v, "start")
    /\ \/ /\ turn' = [turn EXCEPT ![v] = [st |-> "running", by |-> Engine, cap |-> Cap, left |-> Cap]]
          /\ To(v, "turn") /\ UNCHANGED child
       \/ child' = [child EXCEPT ![v].status = Ended(@, "failed")] /\ To(v, "over") /\ UNCHANGED turn
    /\ UNCHANGED <<record, parent, money, calls, clicking, machine>>

\* _await_turn: the child ends with its turn and says what it spent; that of a turn that failed with no
\* result reads 0.0 ...
ReadTurn(v) ==
    /\ At(v, "turn") /\ ~Live(v)
    /\ \E status \in {"done", "failed"}, told \in {0, turn[v].cap - turn[v].left} :
          /\ status = "done" => told = turn[v].cap - turn[v].left
          /\ child' = [child EXCEPT ![v] = [status |-> Ended(@.status, status), spent |-> told]]
    /\ To(v, "over")
    /\ UNCHANGED <<record, parent, turn, money, calls, clicking, machine>>

\* ... and fails, saying nothing of that, when the turn takes longer than BRIEF_TURN_WAIT_S.
GiveUp(v) ==
    /\ At(v, "turn") /\ Live(v)
    /\ child' = [child EXCEPT ![v].status = Ended(@, "failed")]
    /\ To(v, "over")
    /\ UNCHANGED <<record, parent, turn, money, calls, clicking, machine>>

\* _close, when every thread of the pool has returned.
Close_Slip ==
    /\ up /\ phase = "running" /\ parent = "running"
    /\ \A v \in Video : worker[v] \in {"turn", "over"}
    /\ phase' = IF cancelled THEN "cancelled" ELSE "finished"
    /\ parent' = IF cancelled THEN "cancelled" ELSE "done"
    /\ UNCHANGED <<cancelled, paused, late, child, worker, turn, money, calls, clicking, machine>>
Close ==
    /\ up /\ phase = "running" /\ parent = "running"
    /\ \A v \in Video : worker[v] = "over"
    /\ phase' = IF cancelled THEN "cancelled" ELSE "finished"
    /\ parent' = IF cancelled THEN "cancelled" ELSE "done"
    /\ UNCHANGED <<cancelled, paused, late, child, worker, turn, money, calls, clicking, machine>>
------------------------------------------------------------------------------
(* The turn of a video. *)

TurnTo(v, st) == turn' = [turn EXCEPT ![v].st = st]

\* A paid call.
TurnPays_Slip(v) ==
    /\ up /\ turn[v].st \in {"running", "pausing"}
    /\ turn' = [turn EXCEPT ![v].left = @ - 1] /\ paid' = [paid EXCEPT ![v] = @ + 1]
    /\ UNCHANGED <<record, parent, child, worker, answers, question, ans, calls, clicking, machine>>
TurnPays(v) ==
    /\ up /\ turn[v].st \in {"running", "pausing"} /\ turn[v].left > 0
    /\ turn' = [turn EXCEPT ![v].left = @ - 1] /\ paid' = [paid EXCEPT ![v] = @ + 1]
    /\ UNCHANGED <<record, parent, child, worker, answers, question, ans, calls, clicking, machine>>

TurnHolds(v) ==
    /\ up /\ turn[v].st = "pausing"
    /\ TurnTo(v, "held")
    /\ UNCHANGED <<record, parent, child, worker, money, calls, clicking, machine>>

\* A turn ends on a question or without one; a stopped one, one held past its own deadline and one
\* that failed with no result, which tells of no cost, without.
TurnEnds(v) ==
    /\ up /\ Live(v)
    /\ TurnTo(v, "over")
    /\ \E told \in BOOLEAN :
          /\ question' \in IF ~told \/ turn[v].st \in {"held", "stopping"} THEN {question} ELSE {question, question \cup {v}}
          /\ ans' = [a \in Answer |->
                        IF turn[v].by = a
                        THEN [ans[a] EXCEPT !.ended = TRUE, !.cost = IF told THEN turn[v].cap - turn[v].left ELSE 0]
                        ELSE ans[a]]
    /\ UNCHANGED <<record, parent, child, worker, answers, paid, calls, clicking, machine>>
------------------------------------------------------------------------------
(* Cancel, Pause and Resume. *)

Click(c) == up /\ clicks < MaxClicks /\ calls[c] = NoCall /\ clicks' = clicks + 1
Crosses(c) == \E d \in Clicker \ {c} : calls[d] # NoCall

CancelClick(c) ==
    /\ Click(c)
    /\ \/ /\ phase = "gate" /\ phase' = "cancelled" /\ cancelled' = TRUE
          /\ parent' = Ended(parent, "cancelled")
          /\ UNCHANGED <<child, calls>>
       \/ phase = "running" /\ CancelRunning(c) /\ UNCHANGED <<phase, parent>>
    /\ UNCHANGED <<paused, late, worker, turn, money, crossed, machine>>

PauseClick(c) ==
    /\ Click(c) /\ phase = "running" /\ ~cancelled
    /\ paused' = TRUE /\ late' = FALSE
    /\ calls' = [calls EXCEPT ![c].to = "pause?"] /\ crossed' = Crosses(c)
    /\ UNCHANGED <<phase, cancelled, parent, child, worker, turn, money, machine>>

ResumeClick(c) ==
    /\ Click(c) /\ paused
    /\ paused' = FALSE
    /\ calls' = [calls EXCEPT ![c].to = "resume?"] /\ crossed' = Crosses(c)
    /\ UNCHANGED <<phase, cancelled, late, parent, child, worker, turn, money, machine>>

\* _running_videos, out of the lock.
ReadRunning(c) ==
    /\ up /\ calls[c].to \in {"pause?", "resume?"}
    /\ calls' = [calls EXCEPT ![c] = IF Running = {} THEN NoCall
                                     ELSE [to |-> IF @.to = "pause?" THEN "pause" ELSE "resume", on |-> Running]]
    /\ UNCHANGED <<record, parent, child, worker, turn, money, clicking, machine>>

\* stop_video, pause_video, resume_video on the next of them; a video between turns has none to call.
CallNext_Slip(c) ==
    /\ up /\ calls[c].to \in {"stop", "pause", "resume"}
    /\ turn' = [v \in Video |-> IF v \in calls[c].on /\ calls[c].to = "pause" /\ turn[v].st = "running"
                                THEN [turn[v] EXCEPT !.st = "pausing"] ELSE turn[v]]
    /\ calls' = [calls EXCEPT ![c] = NoCall]
    /\ UNCHANGED <<record, parent, child, worker, money, clicking, machine>>
CallNext(c) ==
    /\ up /\ calls[c].to \in {"stop", "pause", "resume"}
    /\ \/ \E v \in calls[c].on :
             /\ turn' = [turn EXCEPT ![v].st =
                    IF calls[c].to = "stop" /\ Live(v) THEN "stopping"
                    ELSE IF calls[c].to = "pause" /\ @ = "running" THEN "pausing"
                    ELSE IF calls[c].to = "resume" /\ @ \in {"pausing", "held"} THEN "running" ELSE @]
             /\ calls' = [calls EXCEPT ![c] = IF calls[c].on = {v} THEN NoCall ELSE [calls[c] EXCEPT !.on = @ \ {v}]]
       \/ calls[c].on = {} /\ calls' = [calls EXCEPT ![c] = NoCall] /\ UNCHANGED turn
    /\ UNCHANGED <<record, parent, child, worker, money, clicking, machine>>

\* Thirty minutes of a pause, longer than any route takes.
Deadline ==
    /\ up /\ paused /\ ~late /\ \A c \in Clicker : calls[c] = NoCall
    /\ late' = TRUE
    /\ UNCHANGED <<phase, cancelled, paused, parent, child, worker, turn, money, calls, clicking, machine>>
------------------------------------------------------------------------------
(* answer_batch_video. *)

\* Another answer of the video is under way, or was lost, or read blindly itself: two that read at once
\* write their costs to one place.
Untold(b, v) == ans[b].on = v /\ (ans[b].blind \/ ans[b].pc \notin {"new", "over"})

\* The row reads as waiting, and something is left of the video's share, as the record has it.
AnswerRead(a) ==
    LET v == ans[a].on IN
    /\ up /\ ans[a].pc = "new"
    /\ child[v].status = "done" /\ v \in question /\ ~(Live(v) /\ answers[v] # <<>>)
    /\ \E left \in 1..Cap :
          /\ left = Cap - Spent(v)
          /\ ans' = [ans EXCEPT ![a] = [@ EXCEPT !.pc = "read", !.left = left, !.index = Len(answers[v]),
                                                !.blind = \E b \in Answer : Untold(b, v)]]
    /\ UNCHANGED <<record, parent, child, worker, turn, answers, question, paid, calls, clicking, machine>>

\* Its turn takes the video's lock and runs under what was left, or is refused (some other
\* change holds the video).
AnswerStart(a) ==
    LET v == ans[a].on IN
    /\ up /\ ans[a].pc = "read"
    /\ \/ /\ ~Live(v)
          /\ turn' = [turn EXCEPT ![v] = [st |-> "running", by |-> a, cap |-> ans[a].left, left |-> ans[a].left]]
          /\ ans' = [ans EXCEPT ![a].pc = "started"] /\ question' = question \ {v}
       \/ ans' = [ans EXCEPT ![a].pc = "over"] /\ UNCHANGED <<turn, question>>
    /\ UNCHANGED <<record, parent, child, worker, answers, paid, calls, clicking, machine>>

AnswerNote(a) ==
    /\ up /\ ans[a].pc = "started"
    /\ answers' = [answers EXCEPT ![ans[a].on] = Append(@, 0)]
    /\ ans' = [ans EXCEPT ![a].pc = "noted"]
    /\ UNCHANGED <<record, parent, child, worker, turn, question, paid, calls, clicking, machine>>

\* _answer_settles, a thread of its own: the record says by its index what the answer spent, or nothing
\* of it when the turn's result does not ...
AnswerSettles_Slip(a) ==
    /\ up /\ ans[a].pc = "noted" /\ ans[a].ended
    /\ ans' = [ans EXCEPT ![a].pc = "over"]
    /\ UNCHANGED <<record, parent, child, worker, turn, answers, question, paid, calls, clicking, machine>>
AnswerSettles(a) ==
    /\ up /\ ans[a].pc = "noted" /\ ans[a].ended
    /\ answers' = [answers EXCEPT ![ans[a].on] = [@ EXCEPT ![ans[a].index + 1] = ans[a].cost]]
    /\ ans' = [ans EXCEPT ![a].pc = "over"]
    /\ UNCHANGED <<record, parent, child, worker, turn, question, paid, calls, clicking, machine>>

\* ... and gives up after BRIEF_TURN_WAIT_S: it says 0.0, for good, and the turn goes on.
AnswerGivesUp(a) ==
    /\ up /\ ans[a].pc = "noted" /\ ~ans[a].ended
    /\ answers' = [answers EXCEPT ![ans[a].on] = [@ EXCEPT ![ans[a].index + 1] = 0]]
    /\ ans' = [ans EXCEPT ![a].pc = "lost"]
    /\ UNCHANGED <<record, parent, child, worker, turn, question, paid, calls, clicking, machine>>
------------------------------------------------------------------------------
\* The process dies, its threads and turns with it; the record, the jobs and the ledger stay.
Crash ==
    /\ up /\ crashes < MaxCrashes
    /\ up' = FALSE /\ crashes' = crashes + 1
    /\ worker' = [v \in Video |-> "none"] /\ turn' = [v \in Video |-> NoTurn]
    /\ ans' = [a \in Answer |-> [ans[a] EXCEPT !.pc = IF @ = "read" THEN "over"
                                                     ELSE IF @ \in {"started", "noted"} THEN "lost" ELSE @]]
    /\ calls' = [c \in Clicker \cup Video |-> NoCall]
    /\ UNCHANGED <<record, parent, child, answers, question, paid, clicking>>

\* activity.interrupt_leftovers; nothing looks at the records of batches.
Restart ==
    /\ ~up /\ up' = TRUE
    /\ parent' = Ended(parent, "failed")
    /\ child' = [v \in Video |-> IF child[v].status = "none" THEN child[v]
                                 ELSE [child[v] EXCEPT !.status = Ended(@, "failed")]]
    /\ UNCHANGED <<record, worker, turn, money, calls, clicking, crashes>>

ChildStep(v) ==
    \/ PoolTakes(v) \/ Point(v) \/ Late(v) \/ Drop(v) \/ Look(v) \/ Start(v) \/ ReadTurn(v)
TurnStep(v) == TurnHolds(v) \/ TurnEnds(v)
CallStep(c) == ReadRunning(c) \/ CallNext(c)
AnswerStep(a) == AnswerStart(a) \/ AnswerNote(a) \/ AnswerSettles(a) \/ AnswerGivesUp(a)

Next ==
    \/ Go \/ Close \/ Deadline \/ Crash \/ Restart
    \/ \E v \in Video : ChildStep(v) \/ GiveUp(v) \/ TurnStep(v) \/ TurnPays(v)
    \/ \E c \in Clicker : CancelClick(c) \/ PauseClick(c) \/ ResumeClick(c)
    \/ \E c \in Clicker \cup Video : CallStep(c)
    \/ \E a \in Answer : AnswerRead(a) \/ AnswerStep(a)

Spec == Init /\ [][Next]_vars

\* Threads go on, a turn ends, thirty minutes pass, and a server that went down comes back.
Fairness ==
    /\ WF_vars(Close) /\ WF_vars(Deadline) /\ WF_vars(Restart)
    /\ \A v \in Video : WF_vars(ChildStep(v)) /\ WF_vars(TurnEnds(v))
    /\ \A c \in Clicker \cup Video : WF_vars(CallStep(c))

FairSpec == Spec /\ Fairness
------------------------------------------------------------------------------
(* Properties *)

\* "an ordinary turn in that video with the answer, under what is left of its share of the batch's
\* cap" (answer_batch_video), as far as the code keeps it, whatever crosses: the share is exceeded only
\* by answers that were let in blind, each by one share at most; a video whose answers settled one after
\* another costs its share, over pauses, cancels, refused answers, waits given up, crashes and restarts.
PaidPerBlindAnswer ==
    \A v \in Video : paid[v] <= Cap * (1 + Cardinality({a \in Answer : ans[a].on = v /\ ans[a].blind}))

\* The parent ends last: when it is over, every child job is, and a turn of the batch that still
\* runs is one the batch gave up on.
ParentEndsLast ==
    parent \in Over /\ up =>
        \A v \in Video : /\ child[v].status \in Over \cup {"none"}
                         /\ Live(v) /\ turn[v].by = Engine => child[v].status = "failed"

\* "the paused videos carry on from their next step" (resume): once the clicks have reached every
\* video, no child of a batch that is neither paused nor cancelled waits on a turn that is, unless the
\* last Pause or Resume came while the calls of another click were out.
ResumedCarriesOn ==
    ~crossed /\ ~paused /\ ~cancelled /\ (\A c \in Clicker \cup Video : calls[c] = NoCall) /\ (\A v \in Video : worker[v] # "drop")
        => \A v \in Running : turn[v].st \notin {"pausing", "held"}

\* "the parent always ends" (_drive): a batch that was started ends, paused or not.
BatchEnds == parent = "running" ~> parent \in Over
==============================================================================
