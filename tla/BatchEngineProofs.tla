------------------------- MODULE BatchEngineProofs -------------------------
(***************************************************************************)
(* The theorems about BatchEngine, for every set of videos, answers and    *)
(* clickers, every pool and cap, and every interleaving: its types, that   *)
(* the parent job ends last, that a batch whose last Pause or Resume no    *)
(* other click crossed waits on no paused turn, and that a video's turns   *)
(* cost its share, and once more for each answer let in blind.             *)
(***************************************************************************)
EXTENDS BatchEngine, SequenceTheorems, FiniteSetTheorems, WellFoundedInduction, TLAPS

Caller == Clicker \cup Video

(* The types. *)

Children == [status : {"none", "queued", "running"} \cup Over, spent : 0..Cap]
Turns == [st : {"none", "running", "pausing", "held", "stopping", "over"}, by : Answer \cup {Engine},
          cap : 0..Cap, left : 0..Cap]
Requests == [pc : {"new", "read", "started", "noted", "over", "lost"}, on : Video, left : 0..Cap, index : Nat,
             ended : BOOLEAN, cost : 0..Cap, blind : BOOLEAN]
Callings == [to : {"idle", "pause?", "resume?", "stop", "pause", "resume"}, on : SUBSET Video]
Places == {"none", "queued", "point", "late", "drop", "look", "start", "turn", "over"}

RecordOK == phase \in {"gate", "running", "finished", "cancelled"} /\ cancelled \in BOOLEAN /\ paused \in BOOLEAN /\ late \in BOOLEAN
JobsOK == parent \in {"queued", "running"} \cup Over /\ child \in [Video -> Children]
WorkerOK == worker \in [Video -> Places]
LedgerOK == question \in SUBSET Video /\ paid \in [Video -> Nat]
CallsOK == calls \in [Caller -> Callings]
MachineOK == crossed \in BOOLEAN /\ clicks \in 0..MaxClicks /\ up \in BOOLEAN /\ crashes \in 0..MaxCrashes

\* A turn spends what it was given and no more.
TurnOK == turn \in [Video -> Turns] /\ \A v \in Video : turn[v].left <= turn[v].cap

\* An answer writes what it spent on a place that the record has.
Placed(a) ==
    LET places == Len(answers[ans[a].on]) IN
    /\ ans[a].pc \in {"read", "started"} => ans[a].index <= places
    /\ ans[a].pc = "noted" => ans[a].index < places
AnswersOK ==
    /\ answers \in [Video -> Seq(0..Cap)] /\ ans \in [Answer -> Requests]
    /\ \A a \in Answer : Placed(a)

TypeInv == RecordOK /\ JobsOK /\ WorkerOK /\ LedgerOK /\ CallsOK /\ MachineOK /\ TurnOK /\ AnswersOK
------------------------------------------------------------------------------
(* The parent ends last. *)

ByBatch(v) == Live(v) /\ turn[v].by = Engine

\* A turn of the batch has the thread that waits for it, or had it; a child runs as long as its
\* thread is on its turn, and is over after it.
Waiting(v) ==
    /\ ByBatch(v) => worker[v] \in {"turn", "over"}
    /\ worker[v] \in {"start", "turn"} => child[v].status = "running"
    /\ worker[v] = "over" => child[v].status \in Over /\ (ByBatch(v) => child[v].status = "failed")
    /\ up /\ worker[v] = "none" => child[v].status \in Over \cup {"none"}

\* Behind the gate nothing has begun, and no thread is left when the parent is over.
Begun ==
    /\ phase = "gate" => \A v \in Video : worker[v] = "none" /\ child[v].status = "none"
    /\ up /\ parent \in Over => \A v \in Video : worker[v] \in {"none", "over"}

DownIsQuiet == ~up => \A v \in Video : worker[v] = "none" /\ ~Live(v)

LastInv == (\A v \in Video : Waiting(v)) /\ Begun /\ DownIsQuiet
------------------------------------------------------------------------------
(* A resumed batch carries on. *)

Dropping == \E v \in Video : worker[v] = "drop"
Stays == paused \/ cancelled \/ Dropping
Reaches(c, v) == calls[c].to = "resume?" \/ (calls[c].to = "resume" /\ v \in calls[c].on)

\* An answer, and a turn that an answer started, is one of a video whose child is done.
AfterDone ==
    /\ \A v \in Video : turn[v].by # Engine => child[v].status = "done"
    /\ \A a \in Answer : ans[a].pc # "new" => child[ans[a].on].status = "done"

\* Only a click pauses or resumes, and, where the last one was not crossed, a pause's calls go out only
\* while the pause stays.
Callers ==
    /\ \A c \in Caller : calls[c].to \notin {"idle", "stop"} => c \in Clicker
    /\ ~crossed => \A c \in Caller : calls[c].to \in {"pause?", "pause"} => Stays

\* A child whose turn is paused is one that stays so, or one that a Resume has yet to reach.
Waited(v) == child[v].status = "running" /\ turn[v].st \in {"pausing", "held"}
PausedOrReached == ~crossed => \A v \in Video : Waited(v) => Stays \/ \E c \in Caller : Reaches(c, v)

ResumeInv == AfterDone /\ Callers /\ PausedOrReached
------------------------------------------------------------------------------
(* What a video's turns and answers cost together. *)

Early == {"queued", "point", "late", "drop", "look", "start"}
Runs(a) == ans[a].pc \in {"started", "noted", "lost"}
Busy(a) == ans[a].pc = "read" \/ Runs(a)

\* A turn an answer asked for is on its video and goes on until the answer's turn has ended, and an
\* answer that has not started has no turn that ended, nor one let in blind that was not let in.
Owned(v) ==
    Live(v) /\ turn[v].by # Engine => ans[turn[v].by].on = v /\ Runs(turn[v].by) /\ ~ans[turn[v].by].ended
Unended(a) == (ans[a].pc \in {"new", "read"} => ~ans[a].ended) /\ (ans[a].pc = "new" => ~ans[a].blind)
OwnInv == (\A v \in Video : Owned(v)) /\ (\A a \in Answer : Unended(a))

\* A video none of whose answers was let in blind: what follows is of such videos.
Sighted(v) == \A a \in Answer : ans[a].on = v => ~ans[a].blind

\* Nothing is spent before the first turn, which has the whole share, and what the ledger says is
\* always what the last turn has not left of it.
Fresh(v) ==
    worker[v] \in Early \/ phase = "gate" => turn[v].st = "none" /\ paid[v] = 0 /\ child[v].status # "done"
OnTurn(v) == worker[v] = "turn" => turn[v].by = Engine /\ turn[v].st # "none" /\ turn[v].cap = Cap
Metered(v) == paid[v] <= Cap /\ (turn[v].st # "none" => paid[v] = Cap - turn[v].left)

\* Only a child that is done has answers.
Answered(v) == answers[v] # <<>> => child[v].status = "done"

\* Where a question is open and no answer runs or was lost, the record has all that the ledger has.
Exact(v) ==
    child[v].status = "done" /\ v \in question /\ (\A a \in Answer : ans[a].on = v => ~Runs(a)) => paid[v] = Spent(v)

\* An answer is alone on its video, read what the record still says, and runs under what that left.
Alone(a) ==
    Busy(a) => /\ child[ans[a].on].status = "done"
               /\ \A b \in Answer : Busy(b) /\ ans[b].on = ans[a].on => b = a
ReadsTrue(a) ==
    ans[a].pc = "read" => /\ ans[a].on \in question /\ ans[a].left = Cap - Spent(ans[a].on)
                          /\ ans[a].index = Len(answers[ans[a].on])
RunsUnder(a) ==
    LET v == ans[a].on IN
    ans[a].pc \in {"started", "noted"} =>
        /\ turn[v].by = a /\ turn[v].cap = Cap - Spent(v)
        /\ ans[a].ended => turn[v].st = "over" /\ (v \in question => ans[a].cost = turn[v].cap - turn[v].left)
        /\ ~ans[a].ended => Live(v) /\ v \notin question
        /\ ans[a].pc = "started" => ans[a].index = Len(answers[v])
        /\ ans[a].pc = "noted" => ans[a].index + 1 = Len(answers[v]) /\ answers[v][ans[a].index + 1] = 0

VideoShare(v) == Fresh(v) /\ OnTurn(v) /\ Metered(v) /\ Answered(v) /\ Exact(v)
AnswerShare(a) == Alone(a) /\ ReadsTrue(a) /\ RunsUnder(a)
ShareInv ==
    /\ \A v \in Video : Sighted(v) => VideoShare(v)
    /\ \A a \in Answer : Sighted(ans[a].on) => AnswerShare(a)

\* What a video may still come to, and the answers let in blind that have run or will not.
Owing(v) == paid[v] + IF Live(v) THEN turn[v].left ELSE 0
Used(v) == {a \in Answer : ans[a].on = v /\ ans[a].blind /\ ans[a].pc # "read"}
Bound(n) == Cap * (1 + n)

\* It is a share, and one more for each of those, also with the answer that read and was not blind, which
\* is alone of its kind.
Reading(a) == ans[a].pc = "read" /\ ~ans[a].blind
Bounded(v) == Owing(v) <= Bound(Cardinality(Used(v)))
ReadBounded(a) == Reading(a) => Owing(ans[a].on) + ans[a].left <= Bound(Cardinality(Used(ans[a].on)))
OneReads(a) == Reading(a) => \A b \in Answer : Reading(b) /\ ans[b].on = ans[a].on => b = a
BoundInv == (\A v \in Video : Bounded(v)) /\ (\A a \in Answer : ReadBounded(a) /\ OneReads(a))
------------------------------------------------------------------------------
(* Types. *)

LEMMA InvTypes == TypeInv => TypeOK
  BY DEF TypeInv, TypeOK, RecordOK, JobsOK, WorkerOK, LedgerOK, CallsOK, MachineOK, TurnOK, AnswersOK, Children, Turns,
     Requests, Callings, Places, Caller

LEMMA QuietTypes == NoTurn \in Turns /\ NoCall \in Callings
  BY BatchAssumption DEF NoTurn, NoCall, Turns, Callings

LEMMA InitTypes == ASSUME Init PROVE TypeInv
  <1>1. RecordOK /\ WorkerOK /\ LedgerOK
    BY DEF Init, RecordOK, WorkerOK, Places, LedgerOK
  <1>6. MachineOK
    <2>1. clicks \in 0..MaxClicks /\ crashes \in 0..MaxCrashes
      BY BatchAssumption DEF Init
    <2>2. crossed \in BOOLEAN /\ up \in BOOLEAN
      BY DEF Init
    <2> QED
      BY <2>1, <2>2 DEF MachineOK
  <1>2. JobsOK
    BY BatchAssumption DEF Init, JobsOK, Children
  <1>3. CallsOK
    BY QuietTypes DEF Init, CallsOK, Caller
  <1>4. TurnOK
    BY QuietTypes DEF Init, TurnOK, NoTurn
  <1>5. AnswersOK
    <2> DEFINE First == [pc : {"new"}, on : Video, left : {0}, index : {0}, ended : {FALSE}, cost : {0}, blind : {FALSE}]
    <2>5. {0} \subseteq 0..Cap
      BY BatchAssumption
    <2>3. \A r \in First : r \in Requests /\ r.pc = "new"
      <3> TAKE r \in First
      <3>1. r.pc = "new" /\ r.on \in Video /\ r.left = 0 /\ r.index = 0 /\ r.cost = 0
        OBVIOUS
      <3>2. r = [pc |-> r.pc, on |-> r.on, left |-> r.left, index |-> r.index, ended |-> r.ended, cost |-> r.cost,
                 blind |-> r.blind]
        OBVIOUS
      <3>3. r.ended \in BOOLEAN /\ r.blind \in BOOLEAN
        OBVIOUS
      <3>4. r.left \in 0..Cap /\ r.cost \in 0..Cap /\ r.index \in Nat
        BY <2>5, <3>1
      <3> QED
        BY <3>1, <3>2, <3>3, <3>4 DEF Requests
    <2>4. ans \in [Answer -> First]
      BY DEF Init
    <2> HIDE DEF First
    <2>1. ans \in [Answer -> Requests] /\ \A a \in Answer : ans[a].pc = "new"
      BY <2>3, <2>4
    <2>2. answers \in [Video -> Seq(0..Cap)]
      BY DEF Init
    <2> QED
      BY <2>1, <2>2 DEF AnswersOK, Placed
  <1> QED
    BY <1>1, <1>2, <1>3, <1>4, <1>5, <1>6 DEF TypeInv

\* A thread of the pool goes to another place.
LEMMA ThreadTo ==
    ASSUME WorkerOK, NEW v \in Video, NEW pc \in Places, To(v, pc)
    PROVE  WorkerOK' /\ worker'[v] = pc /\ \A w \in Video : w # v => worker'[w] = worker[w]
  BY DEF WorkerOK, To

\* A child ends, unless it is over already.
LEMMA ChildEnds ==
    ASSUME JobsOK, NEW v \in Video, NEW status \in Over, UNCHANGED parent,
           child' = [child EXCEPT ![v].status = Ended(@, status)]
    PROVE  /\ JobsOK' /\ child'[v].status \in Over /\ \A w \in Video : w # v => child'[w] = child[w]
           /\ child'[v].status = IF child[v].status \in Over THEN child[v].status ELSE status
  BY DEF JobsOK, Children, Over, Ended

\* Cancelling ends what is queued, and leaves whom it has to stop to a caller.
LEMMA CancelTypes ==
    ASSUME JobsOK, CallsOK, RecordOK, NEW who \in Caller, CancelRunning(who), UNCHANGED parent
    PROVE  /\ JobsOK' /\ CallsOK' /\ cancelled'
           /\ \A v \in Video : child'[v] = child[v] \/ (child[v].status = "queued" /\ child'[v].status = "cancelled")
           /\ calls'[who].to = "stop" /\ \A c \in Caller : c # who => calls'[c] = calls[c]
  <1>1. \A v \in Video : child[v] \in Children
    BY DEF JobsOK
  <1>2. \A v \in Video : [child[v] EXCEPT !.status = "cancelled"] \in Children
                         /\ [child[v] EXCEPT !.status = "cancelled"].status = "cancelled"
    BY <1>1 DEF Children, Over
  <1>3. child' = [v \in Video |-> IF child[v].status = "queued" THEN [child[v] EXCEPT !.status = "cancelled"] ELSE child[v]]
    BY DEF CancelRunning
  <1>4. child' \in [Video -> Children]
    BY <1>1, <1>2, <1>3
  <1>5. [to |-> "stop", on |-> Running] \in Callings
    BY DEF Callings, Running
  <1>6. calls' = [calls EXCEPT ![who] = [to |-> "stop", on |-> Running]]
    BY DEF CancelRunning
  <1> QED
    BY <1>2, <1>3, <1>4, <1>5, <1>6 DEF JobsOK, CallsOK, CancelRunning

\* A turn that begins, under what it may spend.
LEMMA TurnBegins ==
    ASSUME TurnOK, NEW v \in Video, NEW by \in Answer \cup {Engine}, NEW cap \in 0..Cap,
           turn' = [turn EXCEPT ![v] = [st |-> "running", by |-> by, cap |-> cap, left |-> cap]]
    PROVE  /\ TurnOK' /\ turn'[v].st = "running" /\ turn'[v].by = by
           /\ \A w \in Video : w # v => turn'[w] = turn[w]
  <1>1. [st |-> "running", by |-> by, cap |-> cap, left |-> cap] \in Turns
    BY DEF Turns
  <1>2. cap <= cap
    BY BatchAssumption
  <1> QED
    BY <1>1, <1>2 DEF TurnOK

\* A turn that is paused, resumed, stopped or over is of the same thread, and has spent as much.
LEMMA TurnGoes ==
    ASSUME TurnOK, NEW v \in Video, NEW st \in {"none", "running", "pausing", "held", "stopping", "over"},
           turn' = [turn EXCEPT ![v].st = st]
    PROVE  /\ TurnOK' /\ turn'[v].st = st /\ turn'[v].by = turn[v].by
           /\ turn'[v].cap = turn[v].cap /\ turn'[v].left = turn[v].left
           /\ \A w \in Video : w # v => turn'[w] = turn[w]
  <1>1. turn[v] \in Turns
    BY DEF TurnOK
  <1>2. /\ [turn[v] EXCEPT !.st = st] \in Turns
        /\ [turn[v] EXCEPT !.st = st].st = st /\ [turn[v] EXCEPT !.st = st].by = turn[v].by
        /\ [turn[v] EXCEPT !.st = st].left = turn[v].left /\ [turn[v] EXCEPT !.st = st].cap = turn[v].cap
    BY <1>1 DEF Turns
  <1> QED
    BY <1>2 DEF TurnOK

LEMMA SpentWithinCap ==
    ASSUME TurnOK, NEW v \in Video
    PROVE  turn[v].cap - turn[v].left \in 0..Cap
  BY BatchAssumption DEF TurnOK, Turns

\* A turn that ends tells its answer what it spent, or nothing of it.
LEMMA EndTells ==
    ASSUME TurnOK, NEW v \in Video, TurnEnds(v)
    PROVE  \E told \in 0..Cap :
               /\ ans' = [a \in Answer |-> IF turn[v].by = a THEN [ans[a] EXCEPT !.ended = TRUE, !.cost = told] ELSE ans[a]]
               /\ \A w \in Video : w # v => (w \in question' <=> w \in question)
               /\ told = turn[v].cap - turn[v].left \/ question' = question
  <1>1. PICK told \in BOOLEAN :
          /\ question' \in IF ~told \/ turn[v].st \in {"held", "stopping"} THEN {question} ELSE {question, question \cup {v}}
          /\ ans' = [a \in Answer |->
                        IF turn[v].by = a
                        THEN [ans[a] EXCEPT !.ended = TRUE, !.cost = IF told THEN turn[v].cap - turn[v].left ELSE 0]
                        ELSE ans[a]]
    BY DEF TurnEnds
  <1>2. (IF told THEN turn[v].cap - turn[v].left ELSE 0) \in 0..Cap
    BY SpentWithinCap, BatchAssumption
  <1>3. question' = question \/ (told /\ question' = question \cup {v})
    BY <1>1
  <1>4. WITNESS (IF told THEN turn[v].cap - turn[v].left ELSE 0) \in 0..Cap
  <1> QED
    BY <1>1, <1>2, <1>3

\* What a step of a video's thread writes.
LEMMA ThreadTypes ==
    ASSUME TypeInv, NEW v \in Video, ChildStep(v) \/ GiveUp(v)
    PROVE  TypeInv'
  <1> USE DEF TypeInv
  <1>1. CASE PoolTakes(v) \/ Point(v) \/ Late(v)
    <2>1. WorkerOK'
      BY <1>1 DEF WorkerOK, Places, PoolTakes, Point, Late, To
    <2> QED
      BY <1>1, <2>1 DEF PoolTakes, Point, Late, RecordOK, JobsOK, LedgerOK, CallsOK, MachineOK, TurnOK, AnswersOK, Placed,
         record, money, machine, clicking, clicking
  <1>2. CASE Drop(v)
    <2>1. JobsOK' /\ CallsOK' /\ cancelled'
      BY <1>2, CancelTypes DEF Drop, Caller
    <2>2. WorkerOK'
      BY <1>2, ThreadTo DEF Drop, Places
    <2>3. RecordOK'
      BY <1>2 DEF Drop, CancelRunning, RecordOK
    <2> QED
      BY <1>2, <2>1, <2>2, <2>3 DEF Drop, LedgerOK, MachineOK, TurnOK, AnswersOK, Placed, money, machine, clicking
  <1>3. CASE Look(v)
    <2>1. JobsOK'
      <3>1. CASE child' = [child EXCEPT ![v].status = "running"]
        BY <1>3, <3>1 DEF Look, JobsOK, Children
      <3>2. CASE \E status \in Over : child' = [child EXCEPT ![v].status = Ended(@, status)]
        BY <1>3, <3>2, ChildEnds DEF Look
      <3> QED
        BY <1>3, <3>1, <3>2 DEF Look, Over
    <2>2. WorkerOK'
      BY <1>3, ThreadTo DEF Look, Places
    <2> QED
      BY <1>3, <2>1, <2>2 DEF Look, RecordOK, LedgerOK, CallsOK, MachineOK, TurnOK, AnswersOK, Placed, record, money, machine, clicking, clicking
  <1>4. CASE Start(v)
    <2>1. JobsOK' /\ TurnOK'
      <3>1. CASE UNCHANGED child
        <4>1. Cap \in 0..Cap
          BY BatchAssumption
        <4>2. turn' = [turn EXCEPT ![v] = [st |-> "running", by |-> Engine, cap |-> Cap, left |-> Cap]] \/ turn' = turn
          BY <1>4 DEF Start
        <4> QED
          BY <1>4, <3>1, <4>1, <4>2, TurnBegins DEF Start, JobsOK, TurnOK
      <3>2. CASE child' = [child EXCEPT ![v].status = Ended(@, "failed")] /\ UNCHANGED turn
        BY <1>4, <3>2, ChildEnds DEF Start, Over, TurnOK
      <3> QED
        BY <1>4, <3>1, <3>2 DEF Start
    <2>2. WorkerOK'
      BY <1>4, ThreadTo DEF Start, Places
    <2> QED
      BY <1>4, <2>1, <2>2 DEF Start, RecordOK, LedgerOK, CallsOK, MachineOK, AnswersOK, Placed, record, money, machine, clicking, clicking
  <1>5. CASE ReadTurn(v)
    <2>1. JobsOK'
      <3>1. PICK status \in {"done", "failed"}, told \in {0, turn[v].cap - turn[v].left} :
                child' = [child EXCEPT ![v] = [status |-> Ended(@.status, status), spent |-> told]]
        BY <1>5 DEF ReadTurn
      <3>3. told \in 0..Cap
        BY SpentWithinCap, BatchAssumption
      <3>2. [status |-> Ended(child[v].status, status), spent |-> told] \in Children
        BY <3>3 DEF Children, JobsOK, Ended, Over
      <3> QED
        BY <1>5, <3>1, <3>2 DEF ReadTurn, JobsOK
    <2>2. WorkerOK'
      BY <1>5, ThreadTo DEF ReadTurn, Places
    <2> QED
      BY <1>5, <2>1, <2>2 DEF ReadTurn, RecordOK, LedgerOK, CallsOK, MachineOK, TurnOK, AnswersOK, Placed, record, money, machine, clicking, clicking
  <1>6. CASE GiveUp(v)
    <2>1. JobsOK' /\ WorkerOK'
      BY <1>6, ChildEnds, ThreadTo DEF GiveUp, Places, Over
    <2> QED
      BY <1>6, <2>1 DEF GiveUp, RecordOK, LedgerOK, CallsOK, MachineOK, TurnOK, AnswersOK, Placed, record, money, machine, clicking, clicking
  <1> QED
    BY <1>1, <1>2, <1>3, <1>4, <1>5, <1>6 DEF ChildStep

\* A turn goes on, pays or ends.
LEMMA TurnTypes ==
    ASSUME TypeInv, NEW v \in Video, TurnStep(v) \/ TurnPays(v)
    PROVE  TypeInv'
  <1> USE DEF TypeInv
  <1>1. CASE TurnHolds(v)
    <2>1. TurnOK'
      BY <1>1, TurnGoes DEF TurnHolds, TurnTo
    <2> QED
      BY <1>1, <2>1 DEF TurnHolds, RecordOK, JobsOK, WorkerOK, LedgerOK, CallsOK, MachineOK, AnswersOK, Placed, record,
         money, machine, clicking
  <1>2. CASE TurnPays(v)
    <2>1. turn[v] \in Turns /\ turn[v].left > 0 /\ turn[v].left <= turn[v].cap
      BY <1>2 DEF TurnPays, TurnOK
    <2>2. /\ [turn[v] EXCEPT !.left = @ - 1] \in Turns
          /\ [turn[v] EXCEPT !.left = @ - 1].left <= [turn[v] EXCEPT !.left = @ - 1].cap
      BY <2>1, BatchAssumption DEF Turns
    <2>3. TurnOK'
      BY <1>2, <2>2 DEF TurnPays, TurnOK
    <2>4. LedgerOK'
      BY <1>2 DEF TurnPays, LedgerOK
    <2> QED
      BY <1>2, <2>3, <2>4 DEF TurnPays, RecordOK, JobsOK, WorkerOK, CallsOK, MachineOK, AnswersOK, Placed, record, machine, clicking
  <1>3. CASE TurnEnds(v)
    <2>1. TurnOK'
      BY <1>3, TurnGoes DEF TurnEnds, TurnTo
    <2>2. LedgerOK'
      <3>1. question' = question \/ question' = question \cup {v}
        <4>1. PICK told \in BOOLEAN :
                  question' \in IF ~told \/ turn[v].st \in {"held", "stopping"}
                               THEN {question} ELSE {question, question \cup {v}}
          BY <1>3, Zenon DEF TurnEnds
        <4> QED
          BY <4>1
      <3>2. paid' = paid
        BY <1>3, Zenon DEF TurnEnds
      <3> QED
        BY <3>1, <3>2 DEF LedgerOK
    <2>3. /\ ans' \in [Answer -> Requests]
          /\ \A a \in Answer : ans'[a].pc = ans[a].pc /\ ans'[a].on = ans[a].on /\ ans'[a].index = ans[a].index
      <3>1. \A a \in Answer : ans[a] \in Requests
        BY DEF AnswersOK
      <3>2. \A r \in Requests, cost \in 0..Cap :
                LET s == [r EXCEPT !.ended = TRUE, !.cost = cost]
                IN  s \in Requests /\ s.pc = r.pc /\ s.on = r.on /\ s.index = r.index
        BY DEF Requests
      <3>3. PICK told \in 0..Cap : ans' = [a \in Answer |-> IF turn[v].by = a THEN [ans[a] EXCEPT !.ended = TRUE, !.cost = told]
                                                           ELSE ans[a]]
        BY <1>3, EndTells
      <3> DEFINE new(a) == [ans[a] EXCEPT !.ended = TRUE, !.cost = told]
      <3>4. \A a \in Answer : /\ new(a) \in Requests /\ new(a).pc = ans[a].pc /\ new(a).on = ans[a].on
                              /\ new(a).index = ans[a].index
        BY <3>1, <3>2
      <3>5. ans' = [a \in Answer |-> IF turn[v].by = a THEN new(a) ELSE ans[a]]
        BY <3>3
      <3> HIDE DEF new
      <3> QED
        BY <3>1, <3>4, <3>5
    <2>4. AnswersOK'
      BY <1>3, <2>3 DEF TurnEnds, AnswersOK, Placed
    <2> QED
      BY <1>3, <2>1, <2>2, <2>4 DEF TurnEnds, RecordOK, JobsOK, WorkerOK, CallsOK, MachineOK, record, machine, clicking
  <1> QED
    BY <1>1, <1>2, <1>3 DEF TurnStep

\* The clicks, and their calls into the turns.
ClickStep(c) == c \in Clicker /\ (CancelClick(c) \/ PauseClick(c) \/ ResumeClick(c))

\* A call leaves a turn to whom it was.  What it does not reach stays, what it reaches is stopped, goes on
\* or, from a pause, is asked to hold; and whom a Resume has not reached it has yet to call.
Moves(c, w) ==
    \/ turn'[w] = turn[w]
    \/ /\ w \in calls[c].on /\ turn'[w].by = turn[w].by /\ Live(w)
       /\ turn'[w].cap = turn[w].cap /\ turn'[w].left = turn[w].left
       /\ \/ calls[c].to = "pause" /\ turn'[w].st = "pausing"
          \/ turn'[w].st \in {"running", "stopping"}

LEMMA CallWrites ==
    ASSUME TurnOK, CallsOK, NEW c \in Caller, CallNext(c)
    PROVE  /\ TurnOK' /\ CallsOK' /\ \A w \in Video : Moves(c, w)
           /\ calls'[c].to \in {"idle", calls[c].to} /\ \A d \in Caller : d # c => calls'[d] = calls[d]
           /\ calls[c].to = "resume" => \A w \in calls[c].on :
                  turn'[w].st \notin {"pausing", "held"} \/ (calls'[c].to = "resume" /\ w \in calls'[c].on)
  <1>1. calls[c] \in Callings
    BY DEF CallsOK
  <1>2. CASE calls[c].on = {} /\ calls' = [calls EXCEPT ![c] = NoCall] /\ UNCHANGED turn
    <2>1. CallsOK' /\ calls'[c] = NoCall /\ \A d \in Caller : d # c => calls'[d] = calls[d]
      BY <1>2, QuietTypes DEF CallsOK
    <2> QED
      BY <1>2, <2>1 DEF NoCall, TurnOK, Moves
  <1>3. ASSUME NEW v \in calls[c].on,
               turn' = [turn EXCEPT ![v].st =
                    IF calls[c].to = "stop" /\ Live(v) THEN "stopping"
                    ELSE IF calls[c].to = "pause" /\ @ = "running" THEN "pausing"
                    ELSE IF calls[c].to = "resume" /\ @ \in {"pausing", "held"} THEN "running" ELSE @],
               calls' = [calls EXCEPT ![c] = IF calls[c].on = {v} THEN NoCall ELSE [calls[c] EXCEPT !.on = @ \ {v}]]
        PROVE  /\ TurnOK' /\ CallsOK' /\ \A w \in Video : Moves(c, w)
               /\ calls'[c].to \in {"idle", calls[c].to} /\ \A d \in Caller : d # c => calls'[d] = calls[d]
               /\ calls[c].to = "resume" => \A w \in calls[c].on :
                      turn'[w].st \notin {"pausing", "held"} \/ (calls'[c].to = "resume" /\ w \in calls'[c].on)
    <2>1. v \in Video /\ turn[v] \in Turns
      BY <1>1 DEF Callings, TurnOK
    <2> DEFINE st == IF calls[c].to = "stop" /\ Live(v) THEN "stopping"
                     ELSE IF calls[c].to = "pause" /\ turn[v].st = "running" THEN "pausing"
                     ELSE IF calls[c].to = "resume" /\ turn[v].st \in {"pausing", "held"} THEN "running" ELSE turn[v].st
    <2>2. turn' = [turn EXCEPT ![v].st = st] /\ st \in {"none", "running", "pausing", "held", "stopping", "over"}
      BY <1>3, <2>1 DEF TurnOK, Turns
    <2> HIDE DEF st
    <2>3. /\ TurnOK' /\ turn'[v].st = st /\ turn'[v].by = turn[v].by
          /\ turn'[v].cap = turn[v].cap /\ turn'[v].left = turn[v].left
          /\ \A w \in Video : w # v => turn'[w] = turn[w]
      BY <2>1, <2>2, TurnGoes
    <2>4. /\ [calls[c] EXCEPT !.on = @ \ {v}] \in Callings
          /\ [calls[c] EXCEPT !.on = @ \ {v}].to = calls[c].to
          /\ [calls[c] EXCEPT !.on = @ \ {v}].on = calls[c].on \ {v}
      BY <1>1 DEF Callings
    <2>5. /\ calls'[c] = IF calls[c].on = {v} THEN NoCall ELSE [calls[c] EXCEPT !.on = @ \ {v}]
          /\ CallsOK' /\ \A d \in Caller : d # c => calls'[d] = calls[d]
      <3>1. CASE calls[c].on = {v}
        BY <1>3, <3>1, QuietTypes DEF CallsOK
      <3>2. CASE calls[c].on # {v}
        <4>1. calls' = [calls EXCEPT ![c] = [calls[c] EXCEPT !.on = @ \ {v}]]
          BY <1>3, <3>2
        <4> DEFINE rest == [calls[c] EXCEPT !.on = @ \ {v}]
        <4>2. rest \in Callings /\ calls' = [calls EXCEPT ![c] = rest]
          BY <2>4, <4>1
        <4> HIDE DEF rest
        <4>3. CallsOK' /\ calls'[c] = rest /\ \A d \in Caller : d # c => calls'[d] = calls[d]
          BY <4>2 DEF CallsOK
        <4> QED
          BY <3>2, <4>3 DEF rest
      <3> QED
        BY <3>1, <3>2
    <2>6. calls[c].to = "resume" => st \notin {"pausing", "held"}
      BY DEF st
    <2>7. Moves(c, v)
      <3>1. CASE st = turn[v].st
        <4>1. [turn[v] EXCEPT !.st = st] = turn[v]
          BY <2>1, <3>1 DEF Turns
        <4> QED
          BY <2>1, <2>2, <4>1 DEF Moves, TurnOK
      <3>2. CASE st # turn[v].st
        BY <2>3, <3>2 DEF Moves, st, Live
      <3> QED
        BY <3>1, <3>2
    <2> QED
      BY <2>3, <2>4, <2>5, <2>6, <2>7 DEF Moves, NoCall
  <1> QED
    BY <1>2, <1>3 DEF CallNext

LEMMA RouteTypes ==
    ASSUME TypeInv, NEW c \in Caller, CallStep(c) \/ ClickStep(c)
    PROVE  TypeInv'
  <1> USE DEF TypeInv
  <1>1. CASE ReadRunning(c)
    <2>1. [to |-> IF calls[c].to = "pause?" THEN "pause" ELSE "resume", on |-> Running] \in Callings
      BY DEF Callings, Running
    <2>2. CallsOK'
      BY <1>1, <2>1, QuietTypes DEF ReadRunning, CallsOK
    <2> QED
      BY <1>1, <2>2 DEF ReadRunning, RecordOK, JobsOK, WorkerOK, LedgerOK, MachineOK, TurnOK, AnswersOK, Placed, record,
         money, machine, clicking
  <1>2. CASE CallNext(c)
    BY <1>2, CallWrites DEF CallNext, RecordOK, JobsOK, WorkerOK, LedgerOK, MachineOK, AnswersOK, Placed, record, money,
       machine, clicking
  <1>3. CASE ClickStep(c) /\ CancelClick(c)
    <2>1. MachineOK'
      BY <1>3, BatchAssumption DEF CancelClick, Click, MachineOK, machine, clicking
    <2>2. RecordOK' /\ JobsOK' /\ CallsOK'
      <3>1. CASE phase = "gate"
        BY <1>3, <3>1 DEF CancelClick, RecordOK, JobsOK, CallsOK, Ended, Over
      <3>2. CASE phase = "running"
        <4>1. CancelRunning(c) /\ UNCHANGED parent
          BY <1>3, <3>2 DEF CancelClick
        <4>2. JobsOK' /\ CallsOK' /\ cancelled'
          BY <4>1, CancelTypes
        <4> QED
          BY <1>3, <3>2, <4>1, <4>2 DEF CancelClick, RecordOK, CancelRunning
      <3> QED
        BY <1>3, <3>1, <3>2 DEF CancelClick
    <2> QED
      BY <1>3, <2>1, <2>2 DEF CancelClick, WorkerOK, LedgerOK, TurnOK, AnswersOK, Placed, money
  <1>4. CASE ClickStep(c) /\ (PauseClick(c) \/ ResumeClick(c))
    <2>4. /\ clicks < MaxClicks /\ clicks' = clicks + 1 /\ crossed' \in BOOLEAN /\ UNCHANGED <<up, crashes>>
          /\ paused' \in BOOLEAN /\ late' \in {FALSE, late} /\ UNCHANGED <<phase, cancelled>>
      BY <1>4 DEF PauseClick, ResumeClick, Click, Crosses, machine, clicking
    <2>1. MachineOK' /\ RecordOK'
      <3>1. clicks \in 0..MaxClicks /\ MaxClicks \in Nat
        BY BatchAssumption DEF MachineOK
      <3>2. clicks' \in 0..MaxClicks
        BY <2>4, <3>1
      <3> QED
        BY <2>4, <3>2 DEF MachineOK, RecordOK
    <2>2. calls[c] \in Callings /\ \A to \in {"pause?", "resume?"} : [calls[c] EXCEPT !.to = to] \in Callings
      BY DEF CallsOK, Callings
    <2>3. CallsOK'
      BY <1>4, <2>2 DEF PauseClick, ResumeClick, CallsOK
    <2> QED
      BY <1>4, <2>1, <2>3 DEF PauseClick, ResumeClick, JobsOK, WorkerOK, LedgerOK, TurnOK, AnswersOK, Placed, money
  <1> QED
    BY <1>1, <1>2, <1>3, <1>4 DEF CallStep, ClickStep

\* An answer's request moves on, and keeps its video and its place.
LEMMA RequestTo ==
    ASSUME AnswersOK, NEW a \in Answer, NEW pc \in {"new", "read", "started", "noted", "over", "lost"},
           ans' = [ans EXCEPT ![a].pc = pc]
    PROVE  /\ ans' \in [Answer -> Requests] /\ ans'[a].pc = pc
           /\ \A b \in Answer : ans'[b].on = ans[b].on /\ ans'[b].index = ans[b].index /\ (b # a => ans'[b] = ans[b])
  <1>1. ans[a] \in Requests
    BY DEF AnswersOK
  <1>2. /\ [ans[a] EXCEPT !.pc = pc] \in Requests /\ [ans[a] EXCEPT !.pc = pc].pc = pc
        /\ [ans[a] EXCEPT !.pc = pc].on = ans[a].on /\ [ans[a] EXCEPT !.pc = pc].index = ans[a].index
    BY <1>1 DEF Requests
  <1> QED
    BY <1>2 DEF AnswersOK

LEMMA AnswerTypes ==
    ASSUME TypeInv, NEW a \in Answer, AnswerRead(a) \/ AnswerStep(a)
    PROVE  TypeInv'
  <1> USE DEF TypeInv
  <1> DEFINE v == ans[a].on
  <1>0. ans[a] \in Requests /\ v \in Video /\ answers[v] \in Seq(0..Cap) /\ Len(answers[v]) \in Nat
    <2>1. ans[a] \in Requests /\ answers \in [Video -> Seq(0..Cap)]
      BY DEF AnswersOK
    <2>2. v \in Video
      BY <2>1 DEF Requests
    <2> QED
      BY <2>1, <2>2
  <1>1. CASE AnswerRead(a)
    <2> DEFINE unseen == \E b \in Answer : Untold(b, v)
    <2>1. PICK left \in 1..Cap :
              ans' = [ans EXCEPT ![a] = [@ EXCEPT !.pc = "read", !.left = left, !.index = Len(answers[v]), !.blind = unseen]]
      BY <1>1 DEF AnswerRead
    <2> HIDE DEF unseen
    <2>9. unseen \in BOOLEAN
      BY DEF unseen
    <2> DEFINE r == [ans[a] EXCEPT !.pc = "read", !.left = left, !.index = Len(answers[v]), !.blind = unseen]
    <2>6. left \in 0..Cap
      BY BatchAssumption
    <2>2. r \in Requests /\ r.pc = "read" /\ r.on = v /\ r.index = Len(answers[v])
      BY <1>0, <2>6, <2>9 DEF Requests
    <2>3. ans' \in [Answer -> Requests] /\ ans'[a] = r /\ \A b \in Answer : b # a => ans'[b] = ans[b]
      BY <2>1, <2>2 DEF AnswersOK
    <2> HIDE DEF r, v
    <2>4. UNCHANGED answers
      BY <1>1 DEF AnswerRead
    <2>7. Placed(a)'
      BY <1>0, <2>2, <2>3, <2>4 DEF Placed
    <2>8. \A b \in Answer : b # a => Placed(b)'
      BY <2>3, <2>4 DEF AnswersOK, Placed
    <2>5. AnswersOK'
      BY <2>3, <2>4, <2>7, <2>8 DEF AnswersOK
    <2> QED
      BY <1>1, <2>5 DEF AnswerRead, RecordOK, JobsOK, WorkerOK, LedgerOK, CallsOK, MachineOK, TurnOK, record, machine, clicking
  <1>2. CASE AnswerStart(a)
    <2>1. TurnOK'
      <3>1. CASE UNCHANGED turn
        BY <3>1 DEF TurnOK
      <3>2. CASE turn' = [turn EXCEPT ![v] = [st |-> "running", by |-> a, cap |-> ans[a].left, left |-> ans[a].left]]
        <4>1. ans[a].left \in 0..Cap
          BY <1>0 DEF Requests
        <4> QED
          BY <1>0, <3>2, <4>1, TurnBegins
      <3> QED
        BY <1>2, <3>1, <3>2 DEF AnswerStart
    <2>2. LedgerOK'
      BY <1>2 DEF AnswerStart, LedgerOK
    <2>3. /\ ans' \in [Answer -> Requests] /\ ans'[a].pc \in {"started", "over"} /\ ans[a].pc = "read"
          /\ \A b \in Answer : ans'[b].on = ans[b].on /\ ans'[b].index = ans[b].index /\ (b # a => ans'[b] = ans[b])
      BY <1>2, RequestTo DEF AnswerStart
    <2>4. UNCHANGED answers
      BY <1>2 DEF AnswerStart
    <2>5. AnswersOK'
      BY <2>3, <2>4 DEF AnswersOK, Placed
    <2> QED
      BY <1>2, <2>1, <2>2, <2>5 DEF AnswerStart, RecordOK, JobsOK, WorkerOK, CallsOK, MachineOK, record, machine, clicking
  <1>3. CASE AnswerNote(a) \/ AnswerSettles(a) \/ AnswerGivesUp(a)
    <2> DEFINE more == IF ans[a].pc = "started" THEN 1 ELSE 0
    <2>1. PICK s \in Seq(0..Cap) : answers' = [answers EXCEPT ![v] = s] /\ Len(s) = Len(answers[v]) + more
      <3>1. CASE AnswerNote(a)
        <4>1. Append(answers[v], 0) \in Seq(0..Cap) /\ Len(Append(answers[v], 0)) = Len(answers[v]) + 1
          BY <1>0, BatchAssumption
        <4> QED
          BY <3>1, <4>1 DEF AnswerNote
      <3>2. CASE AnswerSettles(a) \/ AnswerGivesUp(a)
        <4>0. PICK said \in 0..Cap :
                  answers' = [answers EXCEPT ![v] = [answers[v] EXCEPT ![ans[a].index + 1] = said]]
          <5>1. ans[a].cost \in 0..Cap /\ 0 \in 0..Cap
            BY <1>0, BatchAssumption DEF Requests
          <5> QED
            BY <3>2, <5>1 DEF AnswerSettles, AnswerGivesUp
        <4>1. ans[a].index + 1 \in 1..Len(answers[v])
          <5>1. ans[a].pc = "noted" /\ Placed(a)
            BY <3>2 DEF AnswerSettles, AnswerGivesUp, AnswersOK
          <5>2. ans[a].index < Len(answers[v])
            BY <5>1 DEF Placed
          <5>3. ans[a].index \in Nat
            BY <1>0 DEF Requests
          <5> QED
            BY <1>0, <5>2, <5>3
        <4>2. /\ [answers[v] EXCEPT ![ans[a].index + 1] = said] \in Seq(0..Cap)
              /\ Len([answers[v] EXCEPT ![ans[a].index + 1] = said]) = Len(answers[v])
          BY <1>0, <4>1, ExceptSeq
        <4>3. more = 0
          BY <3>2 DEF AnswerSettles, AnswerGivesUp
        <4> DEFINE new == [answers[v] EXCEPT ![ans[a].index + 1] = said]
        <4>4. new \in Seq(0..Cap) /\ Len(new) = Len(answers[v]) + more /\ answers' = [answers EXCEPT ![v] = new]
          <5>0. answers' = [answers EXCEPT ![v] = new]
            BY <4>0
          <5>1. Len(new) = Len(answers[v])
            BY <4>2
          <5>2. Len(new) = Len(answers[v]) + more
            <6>1. Len(answers[v]) \in Nat /\ more = 0
              BY <1>0, <4>3
            <6> HIDE DEF new, more, v
            <6> QED
              BY <5>1, <6>1
          <5> QED
            BY <4>2, <5>0, <5>2
        <4> HIDE DEF new
        <4> QED
          BY <4>4
      <3> QED
        BY <1>3, <3>1, <3>2
    <2>2. PICK pc \in {"noted", "over", "lost"} : /\ ans' = [ans EXCEPT ![a].pc = pc]
                                                  /\ pc = "noted" => ans[a].pc = "started"
      BY <1>3 DEF AnswerNote, AnswerSettles, AnswerGivesUp
    <2>3. /\ ans' \in [Answer -> Requests] /\ ans'[a].pc = pc
          /\ \A b \in Answer : ans'[b].on = ans[b].on /\ ans'[b].index = ans[b].index /\ (b # a => ans'[b] = ans[b])
      BY <2>2, RequestTo
    <2>9. more \in {0, 1} /\ (ans[a].pc = "started" => more = 1)
      OBVIOUS
    <2> HIDE DEF v, more
    <2>4. answers' \in [Video -> Seq(0..Cap)]
      BY <2>1 DEF AnswersOK
    <2>5. \A w \in Video : Len(answers[w]) \in Nat /\ Len(answers'[w]) = IF w = v THEN Len(answers[w]) + more ELSE Len(answers[w])
      <3>1. \A w \in Video : Len(answers[w]) \in Nat
        BY DEF AnswersOK
      <3> QED
        BY <1>0, <2>1, <3>1 DEF AnswersOK
    <2>6. \A b \in Answer : ans[b].on \in Video /\ ans[b].index \in Nat /\ Placed(b)
      BY DEF AnswersOK, Requests
    <2>7. ASSUME NEW b \in Answer PROVE Placed(b)'
      <3>1. CASE b # a
        <4>1. Len(answers'[ans[b].on]) >= Len(answers[ans[b].on]) /\ ans'[b] = ans[b] /\ Len(answers'[ans[b].on]) \in Nat
          BY <2>3, <2>5, <2>6, <2>9, <3>1
        <4>2. ans[b].index \in Nat /\ Placed(b) /\ Len(answers[ans[b].on]) \in Nat
          BY <2>5, <2>6
        <4> QED
          BY <4>1, <4>2 DEF Placed
      <3>2. CASE b = a
        <4>1. /\ ans'[a].pc \in {"noted", "over", "lost"} /\ ans'[a].on = v /\ ans'[a].index = ans[a].index
              /\ ans'[a].pc = "noted" => Len(answers'[v]) = Len(answers[v]) + 1 /\ ans[a].pc = "started"
          BY <1>0, <2>2, <2>3, <2>5, <2>9 DEF v
        <4>2. ans[a].index \in Nat /\ Len(answers[v]) \in Nat /\ (ans[a].pc = "started" => ans[a].index <= Len(answers[v]))
          BY <1>0, <2>6 DEF Placed, v
        <4> QED
          BY <3>2, <4>1, <4>2 DEF Placed
      <3> QED
        BY <3>1, <3>2
    <2>8. AnswersOK'
      BY <2>3, <2>4, <2>7 DEF AnswersOK
    <2> QED
      BY <1>3, <2>8 DEF AnswerNote, AnswerSettles, AnswerGivesUp, RecordOK, JobsOK, WorkerOK, LedgerOK, CallsOK, MachineOK, TurnOK, record,
         machine, clicking
  <1> QED
    BY <1>1, <1>2, <1>3 DEF AnswerStep

\* The batch as a whole, and the server.
BatchStep == Go \/ Close \/ Deadline \/ Crash \/ Restart

LEMMA BatchTypes ==
    ASSUME TypeInv, BatchStep
    PROVE  TypeInv'
  <1> USE DEF TypeInv
  <1>0. \A v \in Video : /\ child[v] \in Children
                         /\ \A status \in {"queued"} \cup Over : [child[v] EXCEPT !.status = status] \in Children
                         /\ [child[v] EXCEPT !.status = Ended(@, "failed")] \in Children
    <2>1. \A r \in Children : \A status \in {"queued", r.status} \cup Over : [r EXCEPT !.status = status] \in Children
      BY DEF Children
    <2> QED
      BY <2>1 DEF JobsOK, Ended, Over
  <1>1. CASE Go
    <2>1. JobsOK' /\ WorkerOK' /\ RecordOK'
      BY <1>0, <1>1 DEF Go, JobsOK, WorkerOK, Places, RecordOK
    <2> QED
      BY <1>1, <2>1 DEF Go, LedgerOK, CallsOK, MachineOK, TurnOK, AnswersOK, Placed, money, machine, clicking
  <1>2. CASE Close \/ Deadline
    BY <1>2 DEF Close, Deadline, Over, RecordOK, JobsOK, WorkerOK, LedgerOK, CallsOK, MachineOK, TurnOK, AnswersOK, Placed,
       money, machine, clicking
  <1>3. CASE Restart
    <2>1. JobsOK'
      BY <1>0, <1>3 DEF Restart, JobsOK, Ended, Over
    <2>2. MachineOK'
      <3>1. up' = TRUE /\ UNCHANGED <<crossed, clicks, crashes>>
        BY <1>3 DEF Restart, clicking
      <3> QED
        BY <3>1 DEF MachineOK
    <2> QED
      BY <1>3, <2>1, <2>2 DEF Restart, RecordOK, WorkerOK, LedgerOK, CallsOK, TurnOK, AnswersOK, Placed, record, money
  <1>4. CASE Crash
    <2>1. WorkerOK' /\ CallsOK'
      BY <1>4, QuietTypes DEF Crash, WorkerOK, Places, CallsOK, Caller
    <2>2. TurnOK'
      BY <1>4, QuietTypes DEF Crash, TurnOK, NoTurn
    <2>3. MachineOK'
      <3>1. crashes < MaxCrashes /\ crashes' = crashes + 1 /\ up' = FALSE /\ UNCHANGED <<clicks, crossed>>
        BY <1>4 DEF Crash, clicking
      <3>2. crashes \in 0..MaxCrashes /\ MaxCrashes \in Nat
        BY BatchAssumption DEF MachineOK
      <3>3. crashes' \in 0..MaxCrashes
        BY <3>1, <3>2
      <3> QED
        BY <3>1, <3>3 DEF MachineOK
    <2>4. AnswersOK'
      <3>1. \A r \in Requests, pc \in {"new", "over", "lost"} :
                [r EXCEPT !.pc = pc] \in Requests /\ [r EXCEPT !.pc = pc].pc = pc
        BY DEF Requests
      <3>2. \A a \in Answer : ans[a] \in Requests
        BY DEF AnswersOK
      <3>3. \A a \in Answer : \E pc \in {"new", "over", "lost"} : ans'[a] = [ans[a] EXCEPT !.pc = pc]
        BY <1>4, <3>2 DEF Crash, Requests
      <3>4. \A a \in Answer : ans'[a] \in Requests /\ ans'[a].pc \in {"new", "over", "lost"}
        <4> TAKE a \in Answer
        <4>1. PICK pc \in {"new", "over", "lost"} : ans'[a] = [ans[a] EXCEPT !.pc = pc]
          BY <3>3
        <4>2. ans[a] \in Requests
          BY <3>2
        <4>3. [ans[a] EXCEPT !.pc = pc] \in Requests /\ [ans[a] EXCEPT !.pc = pc].pc = pc
          BY <3>1, <4>2, Zenon
        <4> QED
          BY <4>1, <4>3, Zenon
      <3>5. ans' \in [Answer -> Requests]
        <4>1. ans' = [a \in Answer |-> ans'[a]]
          BY <1>4, Zenon DEF Crash
        <4> QED
          BY <3>4, <4>1, Zenon
      <3>6. UNCHANGED answers
        BY <1>4 DEF Crash
      <3> QED
        BY <3>4, <3>5, <3>6 DEF AnswersOK, Placed
    <2> QED
      BY <1>4, <2>1, <2>2, <2>3, <2>4 DEF Crash, RecordOK, JobsOK, LedgerOK, record
  <1> QED
    BY <1>1, <1>2, <1>3, <1>4 DEF BatchStep

LEMMA NextCases ==
    ASSUME Next
    PROVE  \/ BatchStep
           \/ \E v \in Video : ChildStep(v) \/ GiveUp(v)
           \/ \E v \in Video : TurnStep(v) \/ TurnPays(v)
           \/ \E c \in Caller : CallStep(c) \/ ClickStep(c)
           \/ \E a \in Answer : AnswerRead(a) \/ AnswerStep(a)
  BY DEF Next, BatchStep, Caller, ClickStep

\* Nothing changes.
LEMMA TypesStutter == ASSUME TypeInv, UNCHANGED vars PROVE TypeInv'
  BY DEF vars, record, money, machine, clicking, TypeInv, RecordOK, JobsOK, WorkerOK, LedgerOK, CallsOK, MachineOK, TurnOK, AnswersOK,
     Placed

\* The types of the record, the jobs, the turns, the answers and the clicks' calls; what was spent of a
\* cap is within it, and an answer writes what it spent on a place the record has.
THEOREM TypeCorrect == Spec => [](TypeOK /\ TypeInv)
  <1>1. Init => TypeInv
    BY InitTypes
  <1>2. TypeInv /\ [Next]_vars => TypeInv'
    BY NextCases, BatchTypes, ThreadTypes, TurnTypes, RouteTypes, AnswerTypes, TypesStutter
  <1> QED
    BY <1>1, <1>2, InvTypes, PTL DEF Spec
------------------------------------------------------------------------------
(* The parent ends last. *)

LEMMA InitLast == ASSUME Init PROVE LastInv
  BY DEF Init, LastInv, Waiting, Begun, DownIsQuiet, ByBatch, Live, NoTurn

\* A thread of the pool that goes on: its own video's part, and the others stay as they are or are
\* cancelled before they run.
LEMMA ThreadLast ==
    ASSUME TypeInv, LastInv, NEW v \in Video, ChildStep(v) \/ GiveUp(v)
    PROVE  LastInv'
  <1> USE DEF TypeInv
  <1>0. /\ up /\ up' = up /\ UNCHANGED <<phase, parent>> /\ worker[v] \notin {"none", "over"}
        /\ \E pc \in Places \ {"none"} : To(v, pc)
    BY DEF ChildStep, GiveUp, PoolTakes, Point, Late, Drop, Look, Start, ReadTurn, At, To, Places, record, machine, clicking
  <1>1. PICK pc \in Places \ {"none"} : worker'[v] = pc /\ \A w \in Video : w # v => worker'[w] = worker[w]
    BY <1>0, ThreadTo
  <1>2. Begun' /\ DownIsQuiet'
    BY <1>0, <1>1 DEF LastInv, Begun, DownIsQuiet
  <1>3. ASSUME \A w \in Video : w # v => child'[w] = child[w] /\ turn'[w] = turn[w], Waiting(v)'
        PROVE  LastInv'
    <2>1. \A w \in Video : w # v => Waiting(w)'
      BY <1>0, <1>1, <1>3 DEF LastInv, Waiting, ByBatch, Live
    <2> QED
      BY <1>2, <1>3, <2>1 DEF LastInv
  <1>4. Waiting(v)
    BY DEF LastInv
  <1>5. CASE PoolTakes(v) \/ Point(v) \/ Late(v)
    <2>1. UNCHANGED <<child, turn>> /\ worker[v] \in {"queued", "point", "late"} /\ worker'[v] \in {"point", "look", "late", "drop"}
      BY <1>5 DEF PoolTakes, Point, Late, At, To, TypeInv, WorkerOK
    <2>2. Waiting(v)'
      BY <1>4, <2>1 DEF Waiting, ByBatch, Live
    <2> QED
      BY <1>3, <2>1, <2>2
  <1>6. CASE Drop(v)
    <2>1. /\ \A w \in Video : child'[w] = child[w] \/ (child[w].status = "queued" /\ child'[w].status = "cancelled")
          /\ worker[v] = "drop" /\ worker'[v] = "look" /\ UNCHANGED turn
      BY <1>6, CancelTypes DEF Drop, At, To, WorkerOK, Caller
    <2>2. ASSUME NEW w \in Video PROVE Waiting(w)'
      <3>1. Waiting(w) /\ turn'[w] = turn[w]
        BY <2>1 DEF LastInv
      <3>2. worker'[w] = worker[w] \/ (worker[w] = "drop" /\ worker'[w] = "look")
        BY <1>1, <2>1
      <3>3. \/ child'[w] = child[w]
            \/ /\ child[w].status \notin Over \cup {"none", "running"} /\ child'[w].status = "cancelled"
        BY <2>1 DEF Over
      <3> QED
        BY <1>0, <3>1, <3>2, <3>3 DEF Waiting, ByBatch, Live, Over
    <2> QED
      BY <1>2, <2>2 DEF LastInv
  <1>7. CASE Look(v)
    <2>1. worker[v] = "look" /\ UNCHANGED turn /\ \A w \in Video : w # v => child'[w] = child[w]
      BY <1>7 DEF Look, At, JobsOK
    <2>2. CASE child' = [child EXCEPT ![v].status = "running"] /\ To(v, "start")
      <3>1. child'[v].status = "running" /\ worker'[v] = "start"
        BY <2>2 DEF To, WorkerOK, JobsOK, Children
      <3> QED
        BY <1>3, <1>4, <2>1, <3>1 DEF Waiting, ByBatch, Live
    <2>3. CASE (\E status \in Over : child' = [child EXCEPT ![v].status = Ended(@, status)]) /\ To(v, "over")
      <3>1. child'[v].status \in Over /\ worker'[v] = "over"
        BY <1>7, <2>3, ChildEnds DEF Look, To, WorkerOK
      <3> QED
        BY <1>3, <1>4, <2>1, <3>1 DEF Waiting, ByBatch, Live
    <2> QED
      BY <1>7, <2>2, <2>3 DEF Look, Over
  <1>8. CASE Start(v)
    <2>1. worker[v] = "start" /\ ~ByBatch(v)
      BY <1>4, <1>8 DEF Start, At, Waiting
    <2>2. CASE UNCHANGED child /\ To(v, "turn") /\ turn' = [turn EXCEPT ![v] = [st |-> "running", by |-> Engine, cap |-> Cap, left |-> Cap]]
      <3>1. worker'[v] = "turn" /\ child' = child /\ \A w \in Video : w # v => turn'[w] = turn[w]
        BY <2>2 DEF To, WorkerOK, TurnOK
      <3> QED
        BY <1>3, <1>4, <2>1, <3>1 DEF Waiting
    <2>3. CASE child' = [child EXCEPT ![v].status = Ended(@, "failed")] /\ To(v, "over") /\ UNCHANGED turn
      <3>1. child'[v].status \in Over /\ worker'[v] = "over" /\ \A w \in Video : w # v => child'[w] = child[w]
        BY <1>8, <2>3, ChildEnds DEF Start, To, WorkerOK, Over
      <3> QED
        BY <1>3, <2>1, <2>3, <3>1 DEF Waiting, ByBatch, Live
    <2> QED
      BY <1>8, <2>2, <2>3 DEF Start
  <1>9. CASE ReadTurn(v)
    <2>1. /\ ~Live(v) /\ UNCHANGED turn /\ worker'[v] = "over" /\ child'[v].status \in Over
          /\ \A w \in Video : w # v => child'[w] = child[w]
      BY <1>9 DEF ReadTurn, To, WorkerOK, JobsOK, Ended, Over
    <2> QED
      BY <1>3, <2>1 DEF Waiting, ByBatch, Live
  <1>10. CASE GiveUp(v)
    <2>1. child[v].status = "running"
      BY <1>4, <1>10 DEF GiveUp, At, Waiting
    <2>2. /\ UNCHANGED turn /\ worker'[v] = "over" /\ child'[v].status = "failed"
          /\ \A w \in Video : w # v => child'[w] = child[w]
      BY <1>10, <2>1 DEF GiveUp, To, WorkerOK, JobsOK, Children, Ended, Over
    <2> QED
      BY <1>3, <2>2 DEF Waiting, Over
  <1> QED
    BY <1>5, <1>6, <1>7, <1>8, <1>9, <1>10 DEF ChildStep

\* Whatever leaves the threads and the jobs alone, and starts no turn of the batch.
LEMMA TurnsLast ==
    ASSUME LastInv, UNCHANGED <<phase, parent, child, worker, up>>, up, \A v \in Video : ByBatch(v)' => ByBatch(v)
    PROVE  LastInv'
  <1>1. \A v \in Video : Waiting(v)'
    BY DEF LastInv, Waiting
  <1> QED
    BY <1>1 DEF LastInv, Begun, DownIsQuiet

LEMMA QuietLast ==
    ASSUME TypeInv, LastInv,
           \/ \E v \in Video : TurnStep(v) \/ TurnPays(v)
           \/ \E c \in Caller : CallStep(c) \/ (ClickStep(c) /\ ~CancelClick(c))
           \/ \E a \in Answer : AnswerRead(a) \/ AnswerStep(a)
           \/ Deadline
    PROVE  LastInv'
  <1> USE DEF TypeInv
  <1>1. up /\ UNCHANGED <<phase, parent, child, worker, up>>
    BY DEF TurnStep, TurnPays, TurnHolds, TurnEnds, CallStep, ReadRunning, CallNext, ClickStep, PauseClick, ResumeClick, Click,
       AnswerRead, AnswerStep, AnswerStart, AnswerNote, AnswerSettles, AnswerGivesUp, Deadline, record, machine, clicking
  <1>2. \A v \in Video : ByBatch(v)' => ByBatch(v)
    <2>1. CASE UNCHANGED turn
      BY <2>1 DEF ByBatch, Live
    <2>2. ASSUME NEW v \in Video, TurnStep(v) \/ TurnPays(v) PROVE \A w \in Video : ByBatch(w)' => ByBatch(w)
      <3>1. CASE TurnPays(v)
        <4>1. \A w \in Video : turn'[w].st = turn[w].st /\ turn'[w].by = turn[w].by
          BY <3>1 DEF TurnPays, TurnOK, Turns
        <4> QED
          BY <4>1 DEF ByBatch, Live
      <3>2. CASE TurnStep(v)
        <4>1. PICK st \in {"held", "over"} : turn' = [turn EXCEPT ![v].st = st] /\ Live(v)
          BY <3>2 DEF TurnStep, TurnHolds, TurnEnds, TurnTo, Live
        <4>2. turn'[v].by = turn[v].by /\ \A w \in Video : w # v => turn'[w] = turn[w]
          BY <4>1, TurnGoes
        <4> QED
          BY <4>1, <4>2 DEF ByBatch, Live
      <3> QED
        BY <2>2, <3>1, <3>2
    <2>3. ASSUME NEW c \in Caller, CallNext(c) PROVE \A w \in Video : ByBatch(w)' => ByBatch(w)
      BY <2>3, CallWrites DEF Moves, ByBatch, Live
    <2>4. ASSUME NEW a \in Answer, AnswerStart(a) PROVE \A w \in Video : ByBatch(w)' => ByBatch(w)
      <3>1. ans[a] \in Requests
        BY DEF AnswersOK
      <3>2. CASE turn' = [turn EXCEPT ![ans[a].on] = [st |-> "running", by |-> a, cap |-> ans[a].left, left |-> ans[a].left]]
        <4>1. turn'[ans[a].on].by = a /\ \A w \in Video : w # ans[a].on => turn'[w] = turn[w]
          BY <3>1, <3>2, TurnBegins DEF Requests
        <4> QED
          BY <4>1, BatchAssumption DEF ByBatch, Live
      <3> QED
        BY <2>1, <2>4, <3>2 DEF AnswerStart
    <2>5. \/ UNCHANGED turn \/ (\E v \in Video : TurnStep(v) \/ TurnPays(v)) \/ (\E c \in Caller : CallNext(c))
          \/ (\E a \in Answer : AnswerStart(a))
      BY DEF CallStep, ReadRunning, ClickStep, PauseClick, ResumeClick, AnswerRead, AnswerStep, AnswerNote, AnswerSettles,
         AnswerGivesUp, Deadline
    <2> QED
      BY <2>1, <2>2, <2>3, <2>4, <2>5
  <1> QED
    BY <1>1, <1>2, TurnsLast

\* A batch is cancelled at its gate, where nothing has begun, or as a thread cancels it.
LEMMA CancelLast ==
    ASSUME TypeInv, LastInv, NEW c \in Caller, ClickStep(c), CancelClick(c)
    PROVE  LastInv'
  <1> USE DEF TypeInv
  <1>0. up /\ UNCHANGED <<worker, turn, up>>
    BY DEF CancelClick, Click, machine
  <1>1. CASE phase = "gate"
    <2>1. phase' = "cancelled" /\ UNCHANGED child
      BY <1>1 DEF CancelClick
    <2>2. \A v \in Video : worker[v] = "none"
      BY <1>1 DEF LastInv, Begun
    <2> QED
      BY <1>0, <2>1, <2>2 DEF LastInv, Waiting, Begun, DownIsQuiet, ByBatch, Live
  <1>2. CASE phase = "running"
    <2>1. CancelRunning(c) /\ UNCHANGED <<phase, parent>>
      BY <1>2 DEF CancelClick
    <2>2. \A v \in Video : child'[v] = child[v] \/ (child[v].status = "queued" /\ child'[v].status = "cancelled")
      BY <2>1, CancelTypes
    <2>3. ASSUME NEW w \in Video PROVE Waiting(w)'
      <3>1. \/ child'[w] = child[w]
            \/ /\ child[w].status \notin Over \cup {"none", "running"} /\ child'[w].status = "cancelled"
        BY <2>2 DEF Over
      <3> QED
        BY <1>0, <3>1 DEF LastInv, Waiting, ByBatch, Live, Over
    <2> QED
      BY <1>0, <1>2, <2>1, <2>3 DEF LastInv, Begun, DownIsQuiet
  <1> QED
    BY <1>1, <1>2 DEF CancelClick

LEMMA BatchLast ==
    ASSUME TypeInv, LastInv, BatchStep, ~Deadline
    PROVE  LastInv'
  <1> USE DEF TypeInv
  <1>1. CASE Go
    <2>1. /\ up /\ UNCHANGED <<turn, up>> /\ phase' = "running" /\ parent' = "running"
          /\ \A v \in Video : worker'[v] = "queued" /\ worker[v] = "none"
      BY <1>1 DEF Go, LastInv, Begun, machine
    <2> QED
      BY <2>1 DEF LastInv, Waiting, Begun, DownIsQuiet, ByBatch, Live, Over
  <1>2. CASE Close
    <2>1. /\ up /\ UNCHANGED <<child, worker, turn, up>> /\ \A v \in Video : worker[v] = "over"
          /\ phase' # "gate"
      BY <1>2 DEF Close, machine
    <2> QED
      BY <2>1 DEF LastInv, Waiting, Begun, DownIsQuiet, ByBatch, Live
  <1>3. CASE Crash
    <2>1. /\ ~up' /\ UNCHANGED <<phase, child>>
          /\ \A v \in Video : worker'[v] = "none" /\ turn'[v].st = "none"
      BY <1>3 DEF Crash, NoTurn, record
    <2> QED
      BY <2>1 DEF LastInv, Waiting, Begun, DownIsQuiet, ByBatch, Live
  <1>4. CASE Restart
    <2>1. up' /\ ~up /\ UNCHANGED <<phase, worker, turn>>
      BY <1>4 DEF Restart, record
    <2>2. \A v \in Video : IF child[v].status = "none" THEN child'[v].status = "none" ELSE child'[v].status \in Over
      <3>1. ASSUME NEW v \in Video PROVE [child[v] EXCEPT !.status = Ended(@, "failed")].status \in Over
        BY DEF JobsOK, Children, Ended, Over
      <3> QED
        BY <1>4, <3>1 DEF Restart
    <2>3. \A v \in Video : worker'[v] = "none" /\ ~Live(v)'
      BY <2>1 DEF LastInv, DownIsQuiet, Live
    <2>4. \A v \in Video : Waiting(v)'
      BY <2>2, <2>3 DEF Waiting, ByBatch
    <2>5. phase' = "gate" => \A v \in Video : child'[v].status = "none"
      BY <2>1, <2>2 DEF LastInv, Begun
    <2> QED
      BY <2>1, <2>3, <2>4, <2>5 DEF LastInv, Begun, DownIsQuiet
  <1> QED
    BY <1>1, <1>2, <1>3, <1>4 DEF BatchStep

LEMMA LastStutter == ASSUME LastInv, UNCHANGED vars PROVE LastInv'
  BY DEF vars, record, machine, LastInv, Waiting, Begun, DownIsQuiet, ByBatch, Live

LEMMA NextLast == ASSUME TypeInv, LastInv, [Next]_vars PROVE LastInv'
  <1>1. CASE Next
    <2>1. CASE BatchStep
      BY <2>1, BatchLast, QuietLast
    <2>2. CASE \E v \in Video : ChildStep(v) \/ GiveUp(v)
      BY <2>2, ThreadLast
    <2>3. CASE \E v \in Video : TurnStep(v) \/ TurnPays(v)
      BY <2>3, QuietLast
    <2>4. CASE \E c \in Caller : CallStep(c) \/ ClickStep(c)
      BY <2>4, QuietLast, CancelLast
    <2>5. CASE \E a \in Answer : AnswerRead(a) \/ AnswerStep(a)
      BY <2>5, QuietLast
    <2> QED
      BY <1>1, <2>1, <2>2, <2>3, <2>4, <2>5, NextCases
  <1>2. CASE UNCHANGED vars
    BY <1>2, LastStutter
  <1> QED
    BY <1>1, <1>2

LEMMA InvLast == ASSUME TypeInv, LastInv PROVE ParentEndsLast
  BY DEF TypeInv, LastInv, Waiting, Begun, ByBatch, ParentEndsLast

\* The parent job is over after every child, and a turn of the batch still going then is one the batch
\* gave up on: _drive waits for the whole pool, whoever pauses, cancels, answers or restarts.
THEOREM ParentLast == Spec => []ParentEndsLast
  <1>1. Init => TypeInv /\ LastInv
    BY InitTypes, InitLast
  <1>2. TypeInv /\ LastInv /\ [Next]_vars => TypeInv' /\ LastInv'
    BY NextLast, NextCases, BatchTypes, ThreadTypes, TurnTypes, RouteTypes, AnswerTypes, TypesStutter
  <1> QED
    BY <1>1, <1>2, InvLast, PTL DEF Spec
------------------------------------------------------------------------------
(* A resumed batch carries on. *)

LEMMA InitResume == ASSUME Init PROVE ResumeInv
  BY DEF Init, ResumeInv, AfterDone, Callers, PausedOrReached, Waited, NoTurn, NoCall, Caller

\* A step that pauses no turn of a running child, keeps what is paused and calls nobody.
LEMMA StaysResume ==
    ASSUME ResumeInv, AfterDone', UNCHANGED <<calls, crossed>>, Stays => Stays', \A v \in Video : Waited(v)' => Waited(v)
    PROVE  ResumeInv'
  <1>1. Callers'
    BY DEF ResumeInv, Callers
  <1>2. PausedOrReached'
    BY DEF ResumeInv, PausedOrReached, Reaches
  <1> QED
    BY <1>1, <1>2 DEF ResumeInv

\* A child that is done stays so, and a turn is an answer's only after that.
LEMMA DoneStays ==
    ASSUME AfterDone, \A v \in Video : child[v].status = "done" => child'[v].status = "done",
           \A v \in Video : turn'[v].by # Engine => turn[v].by # Engine \/ child[v].status = "done",
           \A a \in Answer : ans'[a].on = ans[a].on,
           \A a \in Answer : ans'[a].pc # "new" => ans[a].pc # "new" \/ child[ans[a].on].status = "done",
           \A a \in Answer : ans[a].on \in Video
    PROVE  AfterDone'
  BY DEF AfterDone

LEMMA ThreadResume ==
    ASSUME TypeInv, LastInv, ResumeInv, NEW v \in Video, ChildStep(v) \/ GiveUp(v)
    PROVE  ResumeInv'
  <1> USE DEF TypeInv
  <1>0. AfterDone /\ UNCHANGED <<ans, crossed>> /\ \A a \in Answer : ans[a].on \in Video
    BY DEF ResumeInv, ChildStep, GiveUp, PoolTakes, Point, Late, Drop, Look, Start, ReadTurn, money, clicking, AnswersOK, Requests
  <1>1. CASE PoolTakes(v) \/ Point(v) \/ Late(v)
    <2>1. UNCHANGED <<child, turn, calls>>
      BY <1>1 DEF PoolTakes, Point, Late
    <2>2. Stays => Stays'
      <3>1. CASE Late(v)
        <4>1. worker'[v] = "drop"
          BY <3>1 DEF Late, To, WorkerOK
        <4> QED
          BY <4>1 DEF Stays, Dropping
      <3>2. CASE PoolTakes(v) \/ Point(v)
        <4>1. UNCHANGED <<paused, cancelled>> /\ \A w \in Video : worker[w] = "drop" => worker'[w] = "drop"
          BY <3>2 DEF PoolTakes, Point, At, To, WorkerOK, record
        <4> QED
          BY <4>1 DEF Stays, Dropping
      <3> QED
        BY <1>1, <3>1, <3>2
    <2>3. AfterDone'
      BY <1>0, <2>1 DEF AfterDone
    <2> QED
      BY <1>0, <2>1, <2>2, <2>3, StaysResume DEF Waited
  <1>2. CASE Drop(v)
    <2>1. /\ cancelled' /\ UNCHANGED turn
          /\ \A w \in Video : child'[w] = child[w] \/ (child[w].status = "queued" /\ child'[w].status = "cancelled")
          /\ calls'[v].to = "stop" /\ \A c \in Caller : c # v => calls'[c] = calls[c]
      BY <1>2, CancelTypes DEF Drop, Caller
    <2>2. AfterDone'
      BY <1>0, <2>1 DEF AfterDone
    <2>3. Callers' /\ PausedOrReached'
      BY <1>0, <2>1 DEF ResumeInv, Callers, PausedOrReached, Stays
    <2> QED
      BY <2>2, <2>3 DEF ResumeInv
  <1>3. CASE Look(v)
    <2>1. UNCHANGED <<turn, calls, paused, cancelled>> /\ worker[v] = "look" /\ \A w \in Video : w # v => child'[w] = child[w]
      BY <1>3 DEF Look, At, JobsOK, record
    <2>2. child[v].status \in Over => child'[v].status = child[v].status
      BY <1>3, ChildEnds DEF Look, JobsOK, Ended, Over
    <2>3. AfterDone'
      BY <1>0, <2>1, <2>2 DEF AfterDone, Over
    <2>4. ~Waited(v)'
      <3>1. CASE child[v].status \in Over
        BY <2>2, <3>1 DEF Waited, Over
      <3>2. CASE child[v].status \notin Over
        <4>1. turn[v].by = Engine
          BY <1>0, <3>2 DEF AfterDone, Over
        <4>2. ~Live(v)
          BY <2>1, <4>1 DEF LastInv, Waiting, ByBatch
        <4> QED
          BY <2>1, <4>2 DEF Waited, Live
      <3> QED
        BY <3>1, <3>2
    <2>5. Stays => Stays'
      <3>1. \A w \in Video : worker[w] = "drop" => worker'[w] = "drop"
        BY <1>3 DEF Look, At, To, WorkerOK
      <3> QED
        BY <2>1, <3>1 DEF Stays, Dropping
    <2> QED
      BY <1>0, <2>1, <2>3, <2>4, <2>5, StaysResume DEF Waited
  <1>4. CASE Start(v) \/ ReadTurn(v) \/ GiveUp(v)
    <2>1. /\ UNCHANGED <<calls, paused, cancelled>> /\ worker[v] \in {"start", "turn"}
          /\ \A w \in Video : w # v => child'[w] = child[w] /\ turn'[w] = turn[w]
      BY <1>4 DEF Start, ReadTurn, GiveUp, At, JobsOK, TurnOK, record
    <2>2. child[v].status = "running"
      BY <2>1 DEF LastInv, Waiting
    <2>3. turn'[v] = turn[v] \/ (turn'[v].by = Engine /\ turn'[v].st = "running")
      BY <1>4 DEF Start, ReadTurn, GiveUp, TurnOK
    <2>4. AfterDone'
      BY <1>0, <2>1, <2>2, <2>3 DEF AfterDone
    <2>5. Waited(v)' => Waited(v)
      BY <2>2, <2>3 DEF Waited
    <2>6. Stays => Stays'
      <3>1. \A w \in Video : worker[w] = "drop" => worker'[w] = "drop"
        BY <1>4 DEF Start, ReadTurn, GiveUp, At, To, WorkerOK
      <3> QED
        BY <2>1, <3>1 DEF Stays, Dropping
    <2> QED
      BY <1>0, <2>1, <2>4, <2>5, <2>6, StaysResume DEF Waited
  <1> QED
    BY <1>1, <1>2, <1>3, <1>4 DEF ChildStep

LEMMA TurnResume ==
    ASSUME TypeInv, ResumeInv, NEW v \in Video, TurnStep(v) \/ TurnPays(v)
    PROVE  ResumeInv'
  <1> USE DEF TypeInv
  <1>1. UNCHANGED <<child, calls, crossed, worker, paused, cancelled>>
    BY DEF TurnStep, TurnPays, TurnHolds, TurnEnds, record, clicking
  <1>2. /\ \A w \in Video : turn'[w].by = turn[w].by
        /\ \A w \in Video : turn'[w].st \in {"pausing", "held"} => turn[w].st \in {"pausing", "held"}
    <2>1. CASE TurnPays(v)
      <3>1. \A w \in Video : turn'[w].st = turn[w].st /\ turn'[w].by = turn[w].by
        BY <2>1 DEF TurnPays, TurnOK, Turns
      <3> QED
        BY <3>1
    <2>2. CASE TurnHolds(v)
      BY <2>2, TurnGoes DEF TurnHolds, TurnTo
    <2>3. CASE TurnEnds(v)
      BY <2>3, TurnGoes DEF TurnEnds, TurnTo
    <2> QED
      BY <2>1, <2>2, <2>3 DEF TurnStep
  <1>3. \A a \in Answer : ans'[a].pc = ans[a].pc /\ ans'[a].on = ans[a].on
    <2>1. \A r \in Requests, cost \in 0..Cap :
              LET s == [r EXCEPT !.ended = TRUE, !.cost = cost] IN s.pc = r.pc /\ s.on = r.on
      BY DEF Requests
    <2>2. CASE TurnEnds(v)
      <3>1. \A a \in Answer : ans[a] \in Requests
        BY DEF AnswersOK
      <3>2. PICK told \in 0..Cap : ans' = [a \in Answer |-> IF turn[v].by = a THEN [ans[a] EXCEPT !.ended = TRUE, !.cost = told]
                                                           ELSE ans[a]]
        BY <2>2, EndTells
      <3> QED
        BY <2>1, <3>1, <3>2
    <2>3. CASE TurnHolds(v) \/ TurnPays(v)
      BY <2>3 DEF TurnHolds, TurnPays, money
    <2> QED
      BY <2>2, <2>3 DEF TurnStep
  <1>4. AfterDone'
    BY <1>1, <1>2, <1>3 DEF ResumeInv, AfterDone
  <1> QED
    BY <1>1, <1>2, <1>4, StaysResume DEF Waited, Stays, Dropping

LEMMA AnswerResume ==
    ASSUME TypeInv, ResumeInv, NEW a \in Answer, AnswerRead(a) \/ AnswerStep(a)
    PROVE  ResumeInv'
  <1> USE DEF TypeInv
  <1> DEFINE v == ans[a].on
  <1>0. ans[a] \in Requests /\ v \in Video
    BY DEF AnswersOK, Requests
  <1>1. UNCHANGED <<child, calls, crossed, worker, paused, cancelled>>
    BY DEF AnswerRead, AnswerStep, AnswerStart, AnswerNote, AnswerSettles, AnswerGivesUp, record, clicking
  <1>2. AfterDone /\ (ans[a].pc # "new" => child[v].status = "done")
    BY DEF ResumeInv, AfterDone
  <1>3. CASE AnswerRead(a)
    <2>1. child[v].status = "done" /\ UNCHANGED turn
      BY <1>3 DEF AnswerRead
    <2>2. ans'[a].on = v /\ \A b \in Answer : b # a => ans'[b] = ans[b]
      <3> DEFINE unseen == \E b \in Answer : Untold(b, v)
      <3>1. PICK left \in 1..Cap :
                ans' = [ans EXCEPT ![a] = [@ EXCEPT !.pc = "read", !.left = left, !.index = Len(answers[v]), !.blind = unseen]]
        BY <1>3 DEF AnswerRead
      <3> HIDE DEF unseen
      <3>2. [ans[a] EXCEPT !.pc = "read", !.left = left, !.index = Len(answers[v]), !.blind = unseen].on = v
        BY <1>0 DEF Requests
      <3> QED
        BY <3>1, <3>2 DEF AnswersOK
    <2>3. AfterDone'
      BY <1>1, <1>2, <2>1, <2>2 DEF AfterDone
    <2> QED
      BY <1>1, <2>1, <2>3, StaysResume DEF Waited, Stays, Dropping
  <1>4. CASE AnswerStart(a)
    <2>1. /\ \A b \in Answer : ans'[b].on = ans[b].on /\ (b # a => ans'[b] = ans[b])
          /\ ans'[a].pc \in {"started", "over"} /\ child[v].status = "done"
      BY <1>2, <1>4, RequestTo DEF AnswerStart
    <2>2. \A w \in Video : turn'[w] = turn[w] \/ (w = v /\ turn'[w].st = "running")
      BY <1>4 DEF AnswerStart, TurnOK
    <2>3. AfterDone'
      BY <1>1, <1>2, <2>1, <2>2 DEF AfterDone
    <2> QED
      BY <1>1, <2>2, <2>3, StaysResume DEF Waited, Stays, Dropping
  <1>5. CASE AnswerNote(a) \/ AnswerSettles(a) \/ AnswerGivesUp(a)
    <2>1. /\ \A b \in Answer : ans'[b].on = ans[b].on /\ (b # a => ans'[b] = ans[b])
          /\ child[v].status = "done" /\ UNCHANGED turn
      BY <1>2, <1>5, RequestTo DEF AnswerNote, AnswerSettles, AnswerGivesUp
    <2>2. AfterDone'
      BY <1>1, <1>2, <2>1 DEF AfterDone
    <2> QED
      BY <1>1, <2>1, <2>2, StaysResume DEF Waited, Stays, Dropping
  <1> QED
    BY <1>3, <1>4, <1>5 DEF AnswerStep

\* A Pause or a Resume that crosses no other click finds every other clicker with no calls to make.
LEMMA RouteResume ==
    ASSUME TypeInv, ResumeInv, NEW c \in Caller, CallStep(c) \/ ClickStep(c)
    PROVE  ResumeInv'
  <1> USE DEF TypeInv
  <1>0. UNCHANGED <<worker, ans>> /\ AfterDone /\ calls[c] \in Callings
    BY DEF CallStep, ClickStep, ReadRunning, CallNext, CancelClick, PauseClick, ResumeClick, ResumeInv, CallsOK, money
  <1>1. CASE ReadRunning(c)
    <2>1. UNCHANGED <<child, turn, paused, cancelled, crossed>>
      BY <1>1 DEF ReadRunning, record, clicking
    <2>2. AfterDone' /\ (Stays' <=> Stays)
      BY <1>0, <2>1 DEF AfterDone, Stays, Dropping
    <2>3. /\ calls[c].to \in {"pause?", "resume?"} /\ \A d \in Caller : d # c => calls'[d] = calls[d]
          /\ \/ Running = {} /\ calls'[c] = NoCall
             \/ calls'[c] = [to |-> IF calls[c].to = "pause?" THEN "pause" ELSE "resume", on |-> Running]
      BY <1>1 DEF ReadRunning, CallsOK
    <2>4. Callers'
      BY <2>1, <2>2, <2>3 DEF ResumeInv, Callers, NoCall
    <2>5. PausedOrReached'
      <3>1. SUFFICES ASSUME ~crossed', NEW v \in Video, Waited(v)' PROVE Stays' \/ \E d \in Caller : Reaches(d, v)'
        BY DEF PausedOrReached
      <3>0. ~crossed
        BY <2>1, <3>1
      <3>2. Waited(v) /\ v \in Running
        BY <2>1, <3>1 DEF Waited, Running
      <3>3. CASE Stays
        BY <2>2, <3>3
      <3>4. ASSUME NEW d \in Caller, Reaches(d, v) PROVE Reaches(d, v)'
        <4>1. CASE d # c
          BY <2>3, <3>4, <4>1 DEF Reaches
        <4>2. CASE d = c
          <5>1. calls[c].to = "resume?"
            BY <2>3, <3>4, <4>2 DEF Reaches
          <5>2. calls'[c] = [to |-> "resume", on |-> Running]
            BY <2>3, <3>2, <5>1
          <5>3. UNCHANGED Running
            BY <2>1 DEF Running
          <5> QED
            BY <3>2, <4>2, <5>2 DEF Reaches
        <4> QED
          BY <4>1, <4>2
      <3> QED
        BY <3>0, <3>2, <3>3, <3>4 DEF ResumeInv, PausedOrReached
    <2> QED
      BY <2>2, <2>4, <2>5 DEF ResumeInv
  <1>2. CASE CallNext(c)
    <2>1. UNCHANGED <<child, paused, cancelled, crossed>>
      BY <1>2 DEF CallNext, record, clicking
    <2>2. /\ \A w \in Video : Moves(c, w)
          /\ calls'[c].to \in {"idle", calls[c].to} /\ \A d \in Caller : d # c => calls'[d] = calls[d]
          /\ calls[c].to = "resume" => \A w \in calls[c].on :
                 turn'[w].st \notin {"pausing", "held"} \/ (calls'[c].to = "resume" /\ w \in calls'[c].on)
          /\ calls[c].to \in {"stop", "pause", "resume"}
      BY <1>2, CallWrites DEF CallNext
    <2>3. AfterDone' /\ (Stays' <=> Stays)
      BY <1>0, <2>1, <2>2 DEF AfterDone, Stays, Dropping, Moves
    <2>4. Callers'
      BY <2>1, <2>2, <2>3 DEF ResumeInv, Callers
    <2>5. PausedOrReached'
      <3>1. SUFFICES ASSUME ~crossed', NEW v \in Video, Waited(v)' PROVE Stays' \/ \E d \in Caller : Reaches(d, v)'
        BY DEF PausedOrReached
      <3>0. ~crossed
        BY <2>1, <3>1
      <3>2. CASE ~Waited(v)
        <4>1. calls[c].to = "pause"
          BY <2>1, <2>2, <3>1, <3>2 DEF Waited, Moves
        <4> QED
          BY <2>3, <3>0, <4>1 DEF ResumeInv, Callers
      <3>3. CASE Stays
        BY <2>3, <3>3
      <3>4. ASSUME NEW d \in Caller, Reaches(d, v) PROVE Reaches(d, v)'
        <4>1. CASE d # c
          BY <2>2, <3>4, <4>1 DEF Reaches
        <4>2. CASE d = c
          <5>1. calls[c].to = "resume" /\ v \in calls[c].on
            BY <2>2, <3>4, <4>2 DEF Reaches
          <5> QED
            BY <2>2, <3>1, <4>2, <5>1 DEF Reaches, Waited
        <4> QED
          BY <4>1, <4>2
      <3> QED
        BY <3>0, <3>2, <3>3, <3>4 DEF ResumeInv, PausedOrReached
    <2> QED
      BY <2>3, <2>4, <2>5 DEF ResumeInv
  <1>3. CASE ClickStep(c) /\ CancelClick(c)
    <2>1. cancelled' /\ UNCHANGED <<turn, crossed>>
      BY <1>3 DEF CancelClick, CancelRunning
    <2>2. /\ \A v \in Video : child[v].status = "done" => child'[v].status = "done"
          /\ \A d \in Caller : calls'[d].to \notin {"idle", "stop"} => calls'[d] = calls[d]
      <3>1. CASE phase = "gate"
        BY <1>3, <3>1 DEF CancelClick
      <3>2. CASE phase = "running"
        <4>1. CancelRunning(c) /\ UNCHANGED parent
          BY <1>3, <3>2 DEF CancelClick
        <4> QED
          BY <4>1, CancelTypes
      <3> QED
        BY <1>3, <3>1, <3>2 DEF CancelClick
    <2>3. AfterDone'
      BY <1>0, <2>1, <2>2 DEF AfterDone, AnswersOK, Requests
    <2>4. Callers' /\ PausedOrReached'
      BY <2>1, <2>2 DEF ResumeInv, Callers, PausedOrReached, Stays
    <2> QED
      BY <2>3, <2>4 DEF ResumeInv
  <1>4. CASE ClickStep(c) /\ PauseClick(c)
    <2>1. /\ paused' /\ UNCHANGED <<child, turn>> /\ c \in Clicker
          /\ \A d \in Caller : d # c => calls'[d] = calls[d]
      BY <1>4 DEF PauseClick, ClickStep, CallsOK
    <2>2. AfterDone'
      BY <1>0, <2>1 DEF AfterDone
    <2>3. Callers' /\ PausedOrReached'
      BY <2>1 DEF ResumeInv, Callers, PausedOrReached, Stays
    <2> QED
      BY <2>2, <2>3 DEF ResumeInv
  <1>5. CASE ClickStep(c) /\ ResumeClick(c)
    <2>1. /\ UNCHANGED <<child, turn>> /\ c \in Clicker /\ calls'[c].to = "resume?" /\ crossed' = Crosses(c)
          /\ \A d \in Caller : d # c => calls'[d] = calls[d]
      BY <1>0, <1>5 DEF ResumeClick, Click, ClickStep, CallsOK, Callings
    <2>2. AfterDone'
      BY <1>0, <2>1 DEF AfterDone
    <2>3. ~crossed' => \A d \in Caller : d # c => calls[d].to \in {"idle", "stop"}
      <3>1. ~crossed' => \A d \in Clicker : d # c => calls[d].to = "idle"
        BY <2>1 DEF Crosses, NoCall
      <3> QED
        BY <3>1 DEF ResumeInv, Callers
    <2>4. Callers'
      BY <2>1, <2>3 DEF ResumeInv, Callers
    <2>5. PausedOrReached'
      <3>1. \A v \in Video : Reaches(c, v)'
        BY <2>1 DEF Reaches
      <3> QED
        BY <3>1 DEF PausedOrReached
    <2> QED
      BY <2>2, <2>4, <2>5 DEF ResumeInv
  <1> QED
    BY <1>1, <1>2, <1>3, <1>4, <1>5 DEF CallStep, ClickStep

LEMMA BatchResume ==
    ASSUME TypeInv, LastInv, ResumeInv, BatchStep
    PROVE  ResumeInv'
  <1> USE DEF TypeInv
  <1>0. AfterDone /\ \A a \in Answer : ans[a].on \in Video
    BY DEF ResumeInv, AnswersOK, Requests
  <1>1. CASE Go
    <2>1. /\ UNCHANGED <<turn, calls, crossed, paused, cancelled, ans>>
          /\ \A v \in Video : child[v].status = "none" /\ worker[v] = "none"
      BY <1>1 DEF Go, money, clicking, LastInv, Begun
    <2>2. \A v \in Video : child'[v].status = "queued"
      BY <1>1 DEF Go, JobsOK, Children
    <2>3. AfterDone'
      BY <1>0, <2>1 DEF AfterDone
    <2>4. Stays => Stays'
      BY <2>1 DEF Stays, Dropping
    <2>5. \A v \in Video : Waited(v)' => Waited(v)
      BY <2>2 DEF Waited
    <2> QED
      BY <2>1, <2>3, <2>4, <2>5, StaysResume
  <1>2. CASE Close \/ Deadline
    <2>1. UNCHANGED <<child, turn, worker, calls, crossed, paused, cancelled, ans>>
      BY <1>2 DEF Close, Deadline, money, clicking
    <2> QED
      BY <2>1 DEF ResumeInv, AfterDone, Callers, PausedOrReached, Waited, Reaches, Stays, Dropping
  <1>3. CASE Crash
    <2>1. /\ UNCHANGED child /\ \A v \in Video : turn'[v] = NoTurn
          /\ \A c \in Caller : calls'[c] = NoCall
      BY <1>3 DEF Crash, Caller
    <2>2. \A a \in Answer : ans'[a].on = ans[a].on /\ (ans'[a].pc # "new" => ans[a].pc # "new")
      BY <1>3 DEF Crash, AnswersOK, Requests
    <2> QED
      BY <2>1, <2>2 DEF ResumeInv, AfterDone, Callers, PausedOrReached, Waited, NoTurn, NoCall
  <1>4. CASE Restart
    <2>1. ~up /\ UNCHANGED <<turn, calls, crossed, worker, paused, cancelled, ans>>
      BY <1>4 DEF Restart, record, money, clicking
    <2>2. \A v \in Video : child[v].status = "done" => child'[v].status = "done"
      BY <1>4 DEF Restart, JobsOK, Children, Ended, Over
    <2>3. AfterDone'
      BY <1>0, <2>1, <2>2 DEF AfterDone
    <2>4. \A v \in Video : ~Waited(v)'
      BY <2>1 DEF LastInv, DownIsQuiet, Live, Waited
    <2> QED
      BY <2>1, <2>3, <2>4, StaysResume DEF Stays, Dropping
  <1> QED
    BY <1>1, <1>2, <1>3, <1>4 DEF BatchStep

LEMMA ResumeStutter == ASSUME ResumeInv, UNCHANGED vars PROVE ResumeInv'
  BY DEF vars, record, money, machine, clicking, clicking, ResumeInv, AfterDone, Callers, PausedOrReached, Waited, Reaches, Stays, Dropping

LEMMA InvResume == ASSUME ResumeInv PROVE ResumedCarriesOn
  BY DEF ResumeInv, PausedOrReached, Waited, Reaches, Stays, Dropping, ResumedCarriesOn, Running, NoCall, Caller

\* Unless the last Pause or Resume came while the calls of another click were out, no child of a batch that
\* is neither paused nor cancelled is left waiting on a paused turn once the calls are out (resume), however
\* the clicks before it crossed.
THEOREM ResumedGoesOn == Spec => []ResumedCarriesOn
  <1> DEFINE Inv == TypeInv /\ LastInv /\ ResumeInv
  <1>1. Init => Inv
    BY InitTypes, InitLast, InitResume
  <1>2. Inv /\ [Next]_vars => Inv'
    <2>1. Inv /\ [Next]_vars => TypeInv' /\ LastInv'
      BY NextLast, NextCases, BatchTypes, ThreadTypes, TurnTypes, RouteTypes, AnswerTypes, TypesStutter
    <2>2. Inv /\ [Next]_vars => ResumeInv'
      BY NextCases, BatchResume, ThreadResume, TurnResume, RouteResume, AnswerResume, ResumeStutter
    <2> QED
      BY <2>1, <2>2
  <1>3. Inv => ResumedCarriesOn
    BY InvResume
  <1> QED
    BY <1>1, <1>2, <1>3, PTL DEF Spec
------------------------------------------------------------------------------
(* Sums over finite sets: SumOf is a fold, which takes one element after another; what it comes to is  *)
(* shown not to depend on their order.                                                                 *)

\* Induction over the naturals, as a fact about a set of them.
LEMMA Induction ==
    ASSUME NEW G, 0 \in G, \A n \in Nat : n \in G => n + 1 \in G
    PROVE  Nat \subseteq G
  <1> SUFFICES ASSUME Nat \ G # {} PROVE FALSE
    OBVIOUS
  <1>1. PICK x \in Nat \ G : \A y \in Nat \ G : <<y, x>> \notin OpToRel(<, Nat)
    BY WFMin, NatLessThanWellFounded, Zenon
  <1>2. x # 0
    BY Zenon
  <1>3. x \in Nat /\ x - 1 \in Nat /\ x - 1 < x /\ (x - 1) + 1 = x
    BY <1>2
  <1>4. <<x - 1, x>> \in OpToRel(<, Nat)
    BY <1>3, Zenon DEF OpToRel
  <1>5. x - 1 \in G
    BY <1>1, <1>3, <1>4, Zenon
  <1> QED
    BY <1>3, <1>5, Zenon

\* One element after another, as the folds take them.
Pick(s) == CHOOSE x \in s : TRUE
Unfold(f, S, g) == [s \in SUBSET S |-> IF s = {} THEN 0 ELSE f[Pick(s)] + g[s \ {Pick(s)}]]
Sums(f, S) == CHOOSE g : g = Unfold(f, S, g)
Sum(f, S) == Sums(f, S)[S]
Adds(g, f, s) == IF s = {} THEN g[s] = 0 ELSE g[s] = f[Pick(s)] + g[s \ {Pick(s)}]
Whole(f, S) == IsFiniteSet(S) /\ \A x \in S : f[x] \in Int

LEMMA SumOfIsSum == ASSUME NEW f PROVE SumOf(f) = Sum(f, DOMAIN f)
  BY DEF SumOf, FoldFunction, FoldFunctionOnSet, MapThenFoldSet, Sum, Sums, Unfold, Pick

LEMMA Picked == ASSUME NEW s, s # {} PROVE Pick(s) \in s
  BY DEF Pick

LEMMA Unfolds ==
    ASSUME NEW f, NEW S, NEW g, g = Unfold(f, S, g)
    PROVE  \A s \in SUBSET S : Adds(g, f, s)
  <1> TAKE s \in SUBSET S
  <1>1. Unfold(f, S, g)[s] = IF s = {} THEN 0 ELSE f[Pick(s)] + g[s \ {Pick(s)}]
    BY DEF Unfold
  <1> QED
    BY <1>1 DEF Adds

LEMMA Smaller ==
    ASSUME NEW S, IsFiniteSet(S), NEW s \in SUBSET S
    PROVE  /\ IsFiniteSet(s) /\ Cardinality(s) \in Nat /\ Cardinality(s) <= Cardinality(S) /\ (Cardinality(s) = 0 => s = {})
           /\ \A x \in s : s \ {x} \in SUBSET S /\ Cardinality(s \ {x}) = Cardinality(s) - 1
  <1>1. IsFiniteSet(s) /\ Cardinality(s) <= Cardinality(S)
    BY FS_Subset
  <1>2. Cardinality(s) \in Nat /\ (Cardinality(s) = 0 => s = {})
    BY <1>1, FS_CardinalityType, FS_EmptySet
  <1>3. ASSUME NEW x \in s PROVE Cardinality(s \ {x}) = Cardinality(s) - 1
    BY <1>1, FS_RemoveElement
  <1> QED
    BY <1>1, <1>2, <1>3

LEMMA SumsExist ==
    ASSUME NEW f, NEW S, Whole(f, S)
    PROVE  \E g \in [SUBSET S -> Int] : g = Unfold(f, S, g)
  <1> DEFINE Upto(g, n) == \A s \in SUBSET S : Cardinality(s) <= n => Adds(g, f, s)
             G == {n \in Nat : \E g \in [SUBSET S -> Int] : Upto(g, n)}
  <1>1. 0 \in G
    <2>1. [s \in SUBSET S |-> 0] \in [SUBSET S -> Int]
      OBVIOUS
    <2>2. ASSUME NEW s \in SUBSET S, Cardinality(s) <= 0 PROVE s = {}
      BY <2>2, Smaller DEF Whole
    <2>3. Upto([s \in SUBSET S |-> 0], 0)
      BY <2>2 DEF Adds
    <2> QED
      BY <2>1, <2>3
  <1>2. ASSUME NEW n \in Nat, n \in G PROVE n + 1 \in G
    <2>1. PICK g \in [SUBSET S -> Int] : Upto(g, n)
      BY <1>2
    <2>a. \A s \in SUBSET S : Unfold(f, S, g)[s] = IF s = {} THEN 0 ELSE f[Pick(s)] + g[s \ {Pick(s)}]
      BY DEF Unfold
    <2>2. Unfold(f, S, g) \in [SUBSET S -> Int]
      <3>1. ASSUME NEW s \in SUBSET S, s # {} PROVE f[Pick(s)] + g[s \ {Pick(s)}] \in Int
        <4>1. Pick(s) \in S /\ s \ {Pick(s)} \in SUBSET S
          BY <3>1, Picked
        <4>2. f[Pick(s)] \in Int /\ g[s \ {Pick(s)}] \in Int
          BY <4>1 DEF Whole
        <4> QED
          BY <4>2
      <3> QED
        BY <3>1 DEF Unfold
    <2> PICK h \in [SUBSET S -> Int] : h = Unfold(f, S, g)
      BY <2>2
    <2>b. \A s \in SUBSET S : IF s = {} THEN h[s] = 0 ELSE h[s] = f[Pick(s)] + g[s \ {Pick(s)}]
      BY <2>a
    <2>3. ASSUME NEW s \in SUBSET S, Cardinality(s) <= n + 1, s # {} PROVE h[s \ {Pick(s)}] = g[s \ {Pick(s)}]
      <3> DEFINE t == s \ {Pick(s)}
      <3>1. t \in SUBSET S /\ Cardinality(t) <= n
        BY <2>3, Picked, Smaller DEF Whole
      <3> HIDE DEF t
      <3>2. Adds(g, f, t)
        BY <2>1, <3>1
      <3>3. h[t] = g[t]
        BY <2>b, <3>1, <3>2 DEF Adds
      <3> QED
        BY <3>3 DEF t
    <2>4. Upto(h, n + 1)
      BY <2>b, <2>3 DEF Adds
    <2> QED
      BY <2>4
  <1>3. Cardinality(S) \in Nat
    BY Smaller DEF Whole
  <1>4. Cardinality(S) \in G
    <2> HIDE DEF G
    <2> QED
      BY <1>1, <1>2, <1>3, Induction
  <1>5. PICK g \in [SUBSET S -> Int] : Upto(g, Cardinality(S))
    BY <1>4
  <1>6. \A s \in SUBSET S : Adds(g, f, s)
    BY <1>5, Smaller DEF Whole
  <1>7. \A s \in SUBSET S : g[s] = IF s = {} THEN 0 ELSE f[Pick(s)] + g[s \ {Pick(s)}]
    BY <1>6 DEF Adds
  <1>8. g = Unfold(f, S, g)
    BY <1>7 DEF Unfold
  <1> QED
    BY <1>8

\* What adds up the same is the same.
LEMMA SumsSame ==
    ASSUME NEW f, NEW S, IsFiniteSet(S), NEW g, \A s \in SUBSET S : Adds(g, f, s), NEW h, \A s \in SUBSET S : Adds(h, f, s)
    PROVE  g[S] = h[S]
  <1> DEFINE G == {n \in Nat : \A s \in SUBSET S : Cardinality(s) <= n => g[s] = h[s]}
  <1>1. 0 \in G
    <2>1. ASSUME NEW s \in SUBSET S, Cardinality(s) <= 0 PROVE g[s] = h[s]
      <3>1. s = {}
        BY <2>1, Smaller
      <3>2. Adds(g, f, s) /\ Adds(h, f, s)
        OBVIOUS
      <3> QED
        BY <3>1, <3>2 DEF Adds
    <2> QED
      BY <2>1
  <1>2. ASSUME NEW n \in Nat, n \in G PROVE n + 1 \in G
    <2>1. ASSUME NEW s \in SUBSET S, Cardinality(s) <= n + 1 PROVE g[s] = h[s]
      <3>0. Adds(g, f, s) /\ Adds(h, f, s)
        OBVIOUS
      <3>1. CASE s = {}
        BY <3>0, <3>1 DEF Adds
      <3>2. CASE s # {}
        <4> DEFINE x == Pick(s)
        <4>1. x \in s
          BY <3>2, Picked
        <4>2. g[s] = f[x] + g[s \ {x}] /\ h[s] = f[x] + h[s \ {x}]
          BY <3>0, <3>2 DEF Adds
        <4> HIDE DEF x
        <4>3. s \ {x} \in SUBSET S /\ Cardinality(s \ {x}) <= n
          BY <2>1, <4>1, Smaller
        <4>4. g[s \ {x}] = h[s \ {x}]
          BY <1>2, <4>1, <4>3
        <4> QED
          BY <4>2, <4>4
      <3> QED
        BY <3>1, <3>2
    <2> QED
      BY <1>2, <2>1
  <1>3. Nat \subseteq G
    <2> HIDE DEF G
    <2> QED
      BY <1>1, <1>2, Induction
  <1>4. Cardinality(S) \in Nat
    BY Smaller
  <1> QED
    BY <1>3, <1>4

LEMMA SumsAdd == ASSUME NEW f, NEW S, Whole(f, S) PROVE \A s \in SUBSET S : Adds(Sums(f, S), f, s)
  <1>1. PICK g \in [SUBSET S -> Int] : g = Unfold(f, S, g)
    BY SumsExist
  <1>2. Sums(f, S) = Unfold(f, S, Sums(f, S))
    BY <1>1 DEF Sums
  <1> QED
    BY <1>2, Unfolds

LEMMA SumFacts ==
    ASSUME NEW f, NEW S, Whole(f, S)
    PROVE  /\ Sum(f, S) \in Int
           /\ S = {} => Sum(f, S) = 0
           /\ \A e : (\A x \in S : e[x] = f[x]) => Sum(e, S) = Sum(f, S)
           /\ S # {} => \E x \in S : Sum(f, S) = f[x] + Sum(f, S \ {x})
  <1>1. IsFiniteSet(S) /\ \A s \in SUBSET S : Adds(Sums(f, S), f, s)
    BY SumsAdd DEF Whole
  <1>2. Sum(f, S) \in Int
    <2>1. PICK g \in [SUBSET S -> Int] : g = Unfold(f, S, g)
      BY SumsExist
    <2>2. \A s \in SUBSET S : Adds(g, f, s)
      BY <2>1, Unfolds
    <2>3. Sums(f, S)[S] = g[S]
      BY <1>1, <2>2, SumsSame
    <2> QED
      BY <2>3 DEF Sum
  <1>3. S = {} => Sum(f, S) = 0
    BY <1>1 DEF Adds, Sum
  <1>4. ASSUME NEW e, \A x \in S : e[x] = f[x] PROVE Sum(e, S) = Sum(f, S)
    <2>1. Whole(e, S)
      BY <1>4 DEF Whole
    <2>2. \A s \in SUBSET S : Adds(Sums(e, S), e, s)
      BY <2>1, SumsAdd
    <2>3. ASSUME NEW s \in SUBSET S PROVE Adds(Sums(e, S), f, s)
      <3>1. Adds(Sums(e, S), e, s)
        BY <2>2
      <3>2. s # {} => Pick(s) \in S
        BY Picked
      <3> QED
        BY <1>4, <3>1, <3>2 DEF Adds
    <2>4. Sums(f, S)[S] = Sums(e, S)[S]
      BY <1>1, <2>3, SumsSame
    <2> QED
      BY <2>4 DEF Sum
  <1>5. ASSUME S # {} PROVE \E x \in S : Sum(f, S) = f[x] + Sum(f, S \ {x})
    <2> DEFINE x == Pick(S)
    <2>1. x \in S
      BY <1>5, Picked
    <2>2. Sums(f, S)[S] = f[x] + Sums(f, S)[S \ {x}]
      BY <1>1, <1>5 DEF Adds
    <2> HIDE DEF x
    <2> DEFINE T == S \ {x}
    <2>3. Whole(f, T) /\ T \in SUBSET S
      BY <1>1, FS_Subset DEF Whole
    <2>4. \A s \in SUBSET T : Adds(Sums(f, T), f, s) /\ Adds(Sums(f, S), f, s)
      BY <1>1, <2>3, SumsAdd
    <2>5. IsFiniteSet(T)
      BY <2>3 DEF Whole
    <2> HIDE DEF T
    <2>6. Sums(f, S)[T] = Sums(f, T)[T]
      BY <2>4, <2>5, SumsSame
    <2>7. Sum(f, S) = f[x] + Sum(f, T)
      BY <2>2, <2>6 DEF Sum, T
    <2> QED
      BY <2>1, <2>7 DEF T
  <1> QED
    BY <1>2, <1>3, <1>4, <1>5

\* The order does not matter: whichever element is taken out.
LEMMA SumWithout ==
    ASSUME NEW f, NEW S, Whole(f, S), NEW x \in S
    PROVE  Sum(f, S) = f[x] + Sum(f, S \ {x})
  <1> DEFINE G == {n \in Nat : \A s \in SUBSET S : Cardinality(s) <= n => \A y \in s : Sum(f, s) = f[y] + Sum(f, s \ {y})}
  <1>0. IsFiniteSet(S) /\ \A s \in SUBSET S : Whole(f, s)
    BY FS_Subset DEF Whole
  <1>1. 0 \in G
    <2>1. \A s \in SUBSET S : Cardinality(s) <= 0 => s = {}
      BY <1>0, Smaller
    <2> QED
      BY <2>1
  <1>2. ASSUME NEW n \in Nat, n \in G PROVE n + 1 \in G
    <2>1. ASSUME NEW s \in SUBSET S, Cardinality(s) <= n + 1, NEW y \in s PROVE Sum(f, s) = f[y] + Sum(f, s \ {y})
      <3>1. PICK z \in s : Sum(f, s) = f[z] + Sum(f, s \ {z})
        BY <1>0, SumFacts
      <3>2. CASE z = y
        BY <3>1, <3>2
      <3>3. CASE z # y
        <4>1. /\ s \ {z} \in SUBSET S /\ Cardinality(s \ {z}) <= n /\ y \in s \ {z}
              /\ s \ {y} \in SUBSET S /\ Cardinality(s \ {y}) <= n /\ z \in s \ {y}
          BY <1>0, <2>1, <3>3, Smaller
        <4>2. Sum(f, s \ {z}) = f[y] + Sum(f, (s \ {z}) \ {y}) /\ Sum(f, s \ {y}) = f[z] + Sum(f, (s \ {y}) \ {z})
          BY <1>2, <4>1
        <4>3. (s \ {z}) \ {y} = (s \ {y}) \ {z}
          OBVIOUS
        <4>4. f[y] \in Int /\ f[z] \in Int /\ Sum(f, (s \ {y}) \ {z}) \in Int
          <5>1. (s \ {y}) \ {z} \in SUBSET S
            OBVIOUS
          <5>2. Whole(f, (s \ {y}) \ {z})
            BY <1>0, <5>1
          <5> QED
            BY <5>2, SumFacts DEF Whole
        <4>5. /\ Sum(f, s) = f[z] + (f[y] + Sum(f, (s \ {y}) \ {z}))
              /\ Sum(f, s \ {y}) = f[z] + Sum(f, (s \ {y}) \ {z})
          BY <3>1, <4>2, <4>3
        <4> DEFINE rest == Sum(f, (s \ {y}) \ {z})
        <4> HIDE DEF rest
        <4> QED
          BY <4>4, <4>5 DEF rest
      <3> QED
        BY <3>2, <3>3
    <2> QED
      BY <1>2, <2>1
  <1>3. Nat \subseteq G
    <2> HIDE DEF G
    <2> QED
      BY <1>1, <1>2, Induction
  <1>4. Cardinality(S) \in Nat /\ S \in SUBSET S
    BY <1>0, Smaller
  <1> QED
    BY <1>3, <1>4

\* What the answers of a video cost, as the record has them.
LEMMA SumOfNone == SumOf(<<>>) = 0
  <1>1. Whole(<<>>, {}) /\ DOMAIN <<>> = {}
    BY FS_EmptySet DEF Whole
  <1> QED
    BY <1>1, SumOfIsSum, SumFacts

LEMMA SumOfSeq ==
    ASSUME NEW s \in Seq(Int)
    PROVE  Whole(s, 1..Len(s)) /\ DOMAIN s = 1..Len(s) /\ SumOf(s) = Sum(s, 1..Len(s)) /\ SumOf(s) \in Int
  <1>1. DOMAIN s = 1..Len(s) /\ Len(s) \in Nat /\ \A i \in 1..Len(s) : s[i] \in Int
    OBVIOUS
  <1>2. IsFiniteSet(1..Len(s))
    BY <1>1, FS_Interval
  <1>3. Whole(s, 1..Len(s))
    BY <1>1, <1>2 DEF Whole
  <1> QED
    BY <1>1, <1>3, SumOfIsSum, SumFacts

LEMMA SumOfOthers ==
    ASSUME NEW f, NEW g, NEW S, Whole(g, S), NEW x \in S, \A y \in S \ {x} : g[y] = f[y]
    PROVE  /\ Sum(g, S) = g[x] + Sum(f, S \ {x})
           /\ Sum(f, S \ {x}) \in Int
  <1> DEFINE T == S \ {x}
  <1>1. Sum(g, S) = g[x] + Sum(g, T)
    BY SumWithout
  <1>2. Whole(g, T)
    BY FS_Subset DEF Whole
  <1>3. Sum(f, T) = Sum(g, T) /\ Sum(g, T) \in Int
    <2> HIDE DEF T
    <2>1. \A y \in T : f[y] = g[y]
      BY DEF T
    <2> QED
      BY <1>2, <2>1, SumFacts, Zenon
  <1> QED
    BY <1>1, <1>3

LEMMA SumOfAppend ==
    ASSUME NEW s \in Seq(Int), NEW c \in Int
    PROVE  SumOf(Append(s, c)) = SumOf(s) + c
  <1> DEFINE t == Append(s, c)
             n == Len(s)
             S == 1..(n + 1)
  <1>1. t \in Seq(Int) /\ Len(t) = n + 1 /\ t[n + 1] = c /\ \A i \in 1..n : t[i] = s[i]
    OBVIOUS
  <1>2. S \ {n + 1} = 1..n /\ n + 1 \in S
    OBVIOUS
  <1>3. SumOf(s) = Sum(s, 1..n) /\ SumOf(s) \in Int
    BY SumOfSeq
  <1> HIDE DEF t, n
  <1>4. Whole(t, S) /\ SumOf(t) = Sum(t, S)
    BY <1>1, SumOfSeq
  <1> HIDE DEF S
  <1>5. Sum(t, S) = t[n + 1] + Sum(s, S \ {n + 1})
    BY <1>1, <1>2, <1>4, SumOfOthers
  <1>7. Sum(s, S \ {n + 1}) = SumOf(s)
    BY <1>2, <1>3
  <1>8. SumOf(t) = c + SumOf(s)
    BY <1>1, <1>4, <1>5, <1>7, Zenon
  <1>6. SumOf(t) = SumOf(s) + c
    BY <1>3, <1>8
  <1> QED
    BY <1>6 DEF t

LEMMA SumOfExcept ==
    ASSUME NEW s \in Seq(Int), NEW i \in 1..Len(s), NEW c \in Int
    PROVE  SumOf([s EXCEPT ![i] = c]) = SumOf(s) - s[i] + c
  <1> DEFINE t == [s EXCEPT ![i] = c]
             S == 1..Len(s)
  <1>1. t \in Seq(Int) /\ Len(t) = Len(s) /\ t[i] = c /\ s[i] \in Int /\ \A j \in S \ {i} : t[j] = s[j] /\ s[j] = s[j]
    OBVIOUS
  <1>2. Whole(s, S) /\ SumOf(s) = Sum(s, S) /\ SumOf(s) \in Int
    BY SumOfSeq
  <1> HIDE DEF t
  <1>3. Whole(t, S) /\ SumOf(t) = Sum(t, S)
    BY <1>1, SumOfSeq
  <1>4. i \in S
    OBVIOUS
  <1> HIDE DEF S
  <1>5. Sum(t, S) = t[i] + Sum(s, S \ {i}) /\ Sum(s, S \ {i}) \in Int
    BY <1>1, <1>3, <1>4, SumOfOthers
  <1>6. Sum(s, S) = s[i] + Sum(s, S \ {i})
    BY <1>2, <1>4, SumWithout
  <1>7. SumOf(t) = SumOf(s) - s[i] + c
    BY <1>1, <1>2, <1>3, <1>5, <1>6
  <1> QED
    BY <1>7 DEF t
------------------------------------------------------------------------------
(* What a video's turns and answers cost. *)

LEMMA ShareTypes ==
    ASSUME TypeInv
    PROVE  /\ \A v \in Video : /\ turn[v] \in Turns /\ turn[v].left <= turn[v].cap /\ child[v] \in Children /\ paid[v] \in Nat
                               /\ answers[v] \in Seq(0..Cap) /\ Len(answers[v]) \in Nat
                               /\ (Live(v) <=> turn[v].st \notin {"none", "over"})
           /\ \A a \in Answer : ans[a] \in Requests /\ ans[a].on \in Video
           /\ Cap \in Nat \ {0} /\ Engine \notin Answer
  <1>1. \A v \in Video : turn[v] \in Turns /\ turn[v].left <= turn[v].cap /\ child[v] \in Children /\ paid[v] \in Nat
    BY DEF TypeInv, TurnOK, JobsOK, LedgerOK
  <1>2. \A v \in Video : answers[v] \in Seq(0..Cap) /\ Len(answers[v]) \in Nat
    BY DEF TypeInv, AnswersOK
  <1>3. \A a \in Answer : ans[a] \in Requests /\ ans[a].on \in Video
    BY DEF TypeInv, AnswersOK, Requests
  <1>4. \A v \in Video : Live(v) <=> turn[v].st \notin {"none", "over"}
    BY <1>1 DEF Live, Turns
  <1> QED
    BY <1>1, <1>2, <1>3, <1>4, BatchAssumption

\* What the record says was spent is a number, and changes only with the child's job and the answers.
LEMMA SpentIs ==
    ASSUME TypeInv, NEW v \in Video
    PROVE  SumOf(answers[v]) \in Int /\ Spent(v) \in Int /\ Spent(v) = child[v].spent + SumOf(answers[v])
  <1>1. child[v].spent \in Int /\ answers[v] \in Seq(Int)
    BY ShareTypes DEF Children
  <1>2. SumOf(answers[v]) \in Int
    BY <1>1, SumOfSeq
  <1> QED
    BY <1>1, <1>2 DEF Spent

LEMMA SpentKept ==
    ASSUME NEW v \in Video, child'[v].spent = child[v].spent, answers'[v] = answers[v]
    PROVE  Spent(v)' = Spent(v)
  BY DEF Spent

\* A video about which nothing moves that its share depends on.
TurnKept(v) ==
    /\ turn'[v].by = turn[v].by /\ turn'[v].cap = turn[v].cap /\ turn'[v].left = turn[v].left
    /\ turn'[v].st = "none" <=> turn[v].st = "none"
    /\ turn'[v].st = "over" <=> turn[v].st = "over"
ChildKept(v) ==
    child'[v].spent = child[v].spent /\ (child'[v].status = "done" <=> child[v].status = "done")
ThreadKept(v) ==
    /\ worker'[v] \in Early \/ phase' = "gate" => worker[v] \in Early \/ phase = "gate"
    /\ worker'[v] = "turn" => worker[v] = "turn"
RecordKept(v) == answers'[v] = answers[v] /\ (v \in question' <=> v \in question)

LEMMA VideoKept ==
    ASSUME TypeInv, TypeInv', NEW v \in Video, VideoShare(v), TurnKept(v), ChildKept(v), ThreadKept(v), RecordKept(v),
           paid'[v] = paid[v],
           \A a \in Answer : ans'[a].on = ans[a].on /\ (ans[a].on = v => (Runs(a)' <=> Runs(a)))
    PROVE  VideoShare(v)'
  <1>3. Spent(v)' = Spent(v)
    BY SpentKept DEF ChildKept, RecordKept
  <1>4. Fresh(v)' /\ OnTurn(v)' /\ Metered(v)'
    BY DEF VideoShare, Fresh, OnTurn, Metered, TurnKept, ChildKept, ThreadKept
  <1>6. Answered(v)'
    BY DEF VideoShare, Answered, RecordKept, ChildKept
  <1>7. Exact(v)'
    BY <1>3 DEF VideoShare, Exact, RecordKept, ChildKept
  <1> QED
    BY <1>4, <1>6, <1>7 DEF VideoShare

LEMMA AnswerKept ==
    ASSUME TypeInv, TypeInv', NEW a \in Answer, AnswerShare(a), ans'[a] = ans[a],
           TurnKept(ans[a].on), ChildKept(ans[a].on), RecordKept(ans[a].on),
           \A b \in Answer : ans'[b].on = ans[b].on /\ (ans[b].on = ans[a].on => (Busy(b)' => Busy(b)))
    PROVE  AnswerShare(a)'
  <1> DEFINE v == ans[a].on
  <1>1. v \in Video /\ (Live(v) <=> turn[v].st \notin {"none", "over"})
    BY ShareTypes
  <1>2. Live(v)' <=> turn'[v].st \notin {"none", "over"}
    BY <1>1 DEF TypeInv, TurnOK, Turns, Live
  <1>3. Spent(v)' = Spent(v)
    BY <1>1, SpentKept DEF ChildKept, RecordKept
  <1>4. Alone(a)'
    BY DEF AnswerShare, Alone, Busy, Runs, ChildKept
  <1>5. ReadsTrue(a)'
    BY <1>3 DEF AnswerShare, ReadsTrue, RecordKept
  <1>6. RunsUnder(a)'
    BY <1>1, <1>2, <1>3 DEF AnswerShare, RunsUnder, Runs, RecordKept, TurnKept, Live
  <1> QED
    BY <1>4, <1>5, <1>6 DEF AnswerShare

\* A video of which an answer was let in blind stays one.
LEMMA SightedKept ==
    ASSUME \A a \in Answer : ans'[a].on = ans[a].on /\ (ans[a].blind => ans'[a].blind)
    PROVE  \A v \in Video : Sighted(v)' => Sighted(v)
  BY DEF Sighted

LEMMA ShareKept ==
    ASSUME TypeInv, TypeInv', ShareInv, UNCHANGED money, \A v \in Video : TurnKept(v) /\ ChildKept(v) /\ ThreadKept(v)
    PROVE  ShareInv'
  <1>1. \A v \in Video : RecordKept(v) /\ paid'[v] = paid[v]
    BY DEF money, RecordKept
  <1>2. \A a \in Answer : ans'[a] = ans[a] /\ (Runs(a)' <=> Runs(a)) /\ (Busy(a)' <=> Busy(a)) /\ ans[a].on \in Video
    BY ShareTypes DEF money, Runs, Busy
  <1>5. \A v \in Video : Sighted(v)' => Sighted(v)
    BY <1>2, SightedKept
  <1>3. \A v \in Video : Sighted(v)' => VideoShare(v)'
    BY <1>1, <1>2, <1>5, VideoKept DEF ShareInv
  <1>4. \A a \in Answer : Sighted(ans[a].on)' => AnswerShare(a)'
    BY <1>1, <1>2, <1>5, AnswerKept DEF ShareInv
  <1> QED
    BY <1>3, <1>4 DEF ShareInv

LEMMA OthersKept ==
    ASSUME TypeInv, TypeInv', ShareInv, NEW v \in Video,
           \A w \in Video : w # v => TurnKept(w) /\ ChildKept(w) /\ ThreadKept(w) /\ RecordKept(w) /\ paid'[w] = paid[w],
           \A a \in Answer : ans'[a].on = ans[a].on /\ (ans[a].on # v => ans'[a] = ans[a]) /\ (ans[a].blind => ans'[a].blind),
           Sighted(v)' => VideoShare(v)' /\ \A a \in Answer : ans[a].on = v => AnswerShare(a)'
    PROVE  ShareInv'
  <1>1. \A a \in Answer : ans[a].on # v => (Runs(a)' <=> Runs(a)) /\ (Busy(a)' <=> Busy(a))
    BY DEF Runs, Busy
  <1>4. \A w \in Video : Sighted(w)' => Sighted(w)
    BY SightedKept
  <1>2. ASSUME NEW w \in Video, w # v, Sighted(w)' PROVE VideoShare(w)'
    <2>1. VideoShare(w) /\ \A a \in Answer : ans[a].on = w => (Runs(a)' <=> Runs(a))
      BY <1>1, <1>2, <1>4 DEF ShareInv
    <2> QED
      BY <1>2, <2>1, VideoKept
  <1>3. ASSUME NEW a \in Answer, ans[a].on # v, Sighted(ans[a].on)' PROVE AnswerShare(a)'
    <2>1. AnswerShare(a) /\ ans[a].on \in Video /\ \A b \in Answer : ans[b].on = ans[a].on => (Busy(b)' => Busy(b))
      BY <1>1, <1>3, <1>4, ShareTypes DEF ShareInv
    <2> QED
      BY <1>3, <2>1, AnswerKept
  <1>5. \A a \in Answer : ans'[a].on = ans[a].on
    OBVIOUS
  <1>6. \A w \in Video : Sighted(w)' => VideoShare(w)'
    BY <1>2
  <1>7. ASSUME NEW a \in Answer, Sighted(ans[a].on)' PROVE AnswerShare(a)'
    <2>1. CASE ans[a].on # v
      BY <1>3, <1>7, <2>1
    <2>2. CASE ans[a].on = v
      <3>1. Sighted(v)'
        BY <1>5, <1>7, <2>2 DEF Sighted
      <3> QED
        BY <2>2, <3>1
    <2> QED
      BY <2>1, <2>2
  <1> QED
    BY <1>6, <1>7 DEF ShareInv

\* An answer that waits to be asked, or is over.
LEMMA IdleShare ==
    ASSUME NEW a \in Answer, AnswerShare(a), ans'[a] = ans[a], ~Busy(a)
    PROVE  AnswerShare(a)'
  BY DEF AnswerShare, Alone, ReadsTrue, RunsUnder, Busy, Runs

LEMMA OverShare ==
    ASSUME NEW a \in Answer, ans'[a].pc = "over"
    PROVE  AnswerShare(a)'
  BY DEF AnswerShare, Alone, ReadsTrue, RunsUnder, Busy, Runs

\* A turn that goes on where the child is done is one that an answer asked for.
LEMMA LiveAnswer ==
    ASSUME TypeInv, LastInv, OwnInv, NEW v \in Video, Live(v), child[v].status = "done"
    PROVE  \E a \in Answer : turn[v].by = a /\ ans[a].on = v /\ Runs(a) /\ ~ans[a].ended
  <1>1. turn[v].by \in Answer \cup {Engine} /\ Waiting(v) /\ Owned(v)
    BY ShareTypes DEF Turns, LastInv, OwnInv
  <1> QED
    BY <1>1 DEF Waiting, ByBatch, Owned

\* A video whose child is not done was never answered.
LEMMA NotAsked ==
    ASSUME AfterDone, OwnInv, NEW v \in Video, child[v].status # "done"
    PROVE  Sighted(v) /\ \A a \in Answer : ans[a].on = v => ans[a].pc = "new" /\ ~Busy(a)
  BY DEF AfterDone, OwnInv, Unended, Sighted, Busy, Runs

LEMMA BusyAlone ==
    ASSUME ShareInv, NEW a \in Answer, Busy(a), Sighted(ans[a].on)
    PROVE  /\ child[ans[a].on].status = "done"
           /\ \A b \in Answer : ans[b].on = ans[a].on /\ b # a => ~Busy(b)
  BY DEF ShareInv, AnswerShare, Alone

LEMMA InitShare == ASSUME Init PROVE ShareInv
  <1>1. \A a \in Answer : ans[a].pc = "new" /\ ans[a].ended = FALSE
    BY DEF Init
  <1>2. \A a \in Answer : AnswerShare(a)
    BY <1>1 DEF AnswerShare, Alone, ReadsTrue, RunsUnder, Busy, Runs
  <1>3. \A v \in Video : VideoShare(v)
    BY BatchAssumption DEF Init, VideoShare, Fresh, OnTurn, Metered, Answered, Exact, NoTurn, Early
  <1> QED
    BY <1>2, <1>3 DEF ShareInv

\* A child's status, written over: what it says it spent stays.
LEMMA ChildTo ==
    ASSUME TypeInv, NEW v \in Video, NEW status, child' = [child EXCEPT ![v].status = status]
    PROVE  /\ child'[v].status = status /\ child'[v].spent = child[v].spent
           /\ \A w \in Video : w # v => child'[w] = child[w]
  BY DEF TypeInv, JobsOK, Children

LEMMA CancelKeeps ==
    ASSUME TypeInv, NEW who, CancelRunning(who)
    PROVE  \A v \in Video : ChildKept(v)
  <1> TAKE v \in Video
  <1>1. child[v] \in Children /\ (child'[v] = child[v] \/ (child[v].status = "queued" /\ child'[v] = [child[v] EXCEPT !.status = "cancelled"]))
    BY DEF TypeInv, JobsOK, CancelRunning
  <1> QED
    BY <1>1 DEF ChildKept, Children

LEMMA TurnStays == ASSUME UNCHANGED turn PROVE \A v \in Video : TurnKept(v)
  BY DEF TurnKept

\* The thread of a video that stays before its turn, or ends with no turn of its own.
LEMMA ThreadShare ==
    ASSUME TypeInv, TypeInv', LastInv, AfterDone, OwnInv, ShareInv, NEW v \in Video, ChildStep(v) \/ GiveUp(v)
    PROVE  ShareInv'
  <1>0. /\ UNCHANGED <<phase, money>> /\ phase # "gate" /\ worker[v] # "none"
        /\ Waiting(v) /\ turn[v] \in Turns
    <2>1. UNCHANGED <<phase, money>> /\ worker[v] # "none"
      BY DEF ChildStep, GiveUp, PoolTakes, Point, Late, Drop, Look, Start, ReadTurn, At, record
    <2> QED
      BY <2>1, ShareTypes DEF LastInv, Begun
  <1>w. ASSUME NEW pc \in Places, To(v, pc) PROVE worker'[v] = pc /\ \A w \in Video : w # v => worker'[w] = worker[w]
    BY <1>w, ThreadTo DEF TypeInv
  <1>m. \A w \in Video : RecordKept(w) /\ paid'[w] = paid[w]
    BY <1>0 DEF money, RecordKept
  <1>a. \A a \in Answer : ans'[a] = ans[a]
    BY <1>0 DEF money
  <1>1. CASE PoolTakes(v) \/ Point(v) \/ Late(v) \/ Drop(v)
    <2>1. PICK pc \in Early : worker[v] \in Early /\ To(v, pc) /\ UNCHANGED turn
      BY <1>1 DEF PoolTakes, Point, Late, Drop, At, Early
    <2>2. pc \in Places
      BY DEF Places, Early
    <2>3. \A w \in Video : ThreadKept(w)
      BY <1>0, <1>w, <2>1, <2>2 DEF ThreadKept, Early
    <2>4. UNCHANGED child \/ CancelRunning(v)
      BY <1>1 DEF PoolTakes, Point, Late, Drop
    <2>5. \A w \in Video : ChildKept(w)
      BY <2>4, CancelKeeps DEF ChildKept
    <2> QED
      BY <1>0, <2>1, <2>3, <2>5, TurnStays, ShareKept
  <1>2. ASSUME NEW status, child' = [child EXCEPT ![v].status = status], status = "done" <=> child[v].status = "done",
               NEW pc \in {"start", "over"}, To(v, pc), worker[v] \in Early \/ pc = "over", UNCHANGED turn
        PROVE  ShareInv'
    <2>1. pc \in Places
      BY DEF Places
    <2>2. \A w \in Video : ThreadKept(w)
      BY <1>0, <1>2, <1>w, <2>1 DEF ThreadKept, Early
    <2>3. \A w \in Video : ChildKept(w)
      BY <1>2, ChildTo DEF ChildKept
    <2> QED
      BY <1>0, <1>2, <2>2, <2>3, TurnStays, ShareKept
  <1>3. CASE Look(v) \/ GiveUp(v)
    <2>1. CASE Look(v) /\ child[v].status \notin Over /\ child' = [child EXCEPT ![v].status = "running"] /\ To(v, "start")
      <3>1. worker[v] \in Early /\ UNCHANGED turn
        BY <2>1 DEF Look, At, Early
      <3> QED
        BY <1>2, <2>1, <3>1 DEF Over
    <2>2. ASSUME NEW status \in {"cancelled", "failed"}, child' = [child EXCEPT ![v].status = Ended(@, status)],
                 To(v, "over"), UNCHANGED turn
          PROVE  ShareInv'
      <3>1. child' = [child EXCEPT ![v].status = Ended(child[v].status, status)]
        BY <2>2
      <3>2. Ended(child[v].status, status) = "done" <=> child[v].status = "done"
        BY DEF Ended, Over
      <3> QED
        BY <1>2, <2>2, <3>1, <3>2
    <2> QED
      BY <1>3, <2>1, <2>2 DEF Look, GiveUp
  <1>4. CASE Start(v)
    <2>1. worker[v] = "start" /\ child[v].status = "running"
      BY <1>0, <1>4 DEF Start, At, Waiting
    <2>4. Sighted(v) /\ VideoShare(v) /\ \A a \in Answer : ans[a].on = v => ~Busy(a) /\ AnswerShare(a)
      BY <2>1, NotAsked DEF ShareInv
    <2>2. CASE UNCHANGED child /\ To(v, "turn") /\ turn' = [turn EXCEPT ![v] = [st |-> "running", by |-> Engine, cap |-> Cap, left |-> Cap]]
      <3>1. worker'[v] = "turn" /\ \A w \in Video : w # v => worker'[w] = worker[w]
        BY <1>w, <2>2 DEF Places
      <3>2. /\ turn'[v] = [st |-> "running", by |-> Engine, cap |-> Cap, left |-> Cap]
            /\ \A w \in Video : w # v => turn'[w] = turn[w]
        BY <2>2 DEF TypeInv, TurnOK
      <3>3. paid[v] = 0 /\ Answered(v) /\ Cap \in Nat
        BY <2>1, <2>4, ShareTypes DEF VideoShare, Fresh, Early
      <3>4. Fresh(v)' /\ OnTurn(v)' /\ Metered(v)'
        BY <1>0, <1>m, <3>1, <3>2, <3>3 DEF Fresh, OnTurn, Metered, Early
      <3>5. Answered(v)' /\ Exact(v)'
        BY <1>m, <2>1, <2>2, <3>3 DEF Answered, Exact, RecordKept
      <3>7. \A a \in Answer : ans[a].on = v => AnswerShare(a)'
        BY <1>a, <2>4, IdleShare
      <3>8. \A w \in Video : w # v => TurnKept(w) /\ ChildKept(w) /\ ThreadKept(w)
        BY <1>0, <2>2, <3>1, <3>2 DEF TurnKept, ChildKept, ThreadKept
      <3> QED
        BY <1>a, <1>m, <3>4, <3>5, <3>7, <3>8, OthersKept DEF VideoShare
    <2>3. CASE child' = [child EXCEPT ![v].status = Ended(@, "failed")] /\ To(v, "over") /\ UNCHANGED turn
      <3>1. child' = [child EXCEPT ![v].status = "failed"]
        BY <2>1, <2>3 DEF Ended, Over
      <3> QED
        BY <1>2, <2>1, <2>3, <3>1
    <2> QED
      BY <1>4, <2>2, <2>3 DEF Start
  <1>5. CASE ReadTurn(v)
    <2>1. worker[v] = "turn" /\ child[v].status = "running" /\ UNCHANGED turn
      BY <1>0, <1>5 DEF ReadTurn, At, Waiting
    <2>11. Sighted(v) /\ VideoShare(v) /\ \A a \in Answer : ans[a].on = v => ~Busy(a) /\ AnswerShare(a)
      BY <2>1, NotAsked DEF ShareInv
    <2>2. worker'[v] = "over" /\ \A w \in Video : w # v => worker'[w] = worker[w]
      BY <1>5, <1>w DEF ReadTurn, Places
    <2>3. /\ child'[v].status = "done" => child'[v].spent = turn[v].cap - turn[v].left
          /\ \A w \in Video : w # v => child'[w] = child[w]
      <3>1. PICK status \in {"done", "failed"}, told \in {0, turn[v].cap - turn[v].left} :
              /\ status = "done" => told = turn[v].cap - turn[v].left
              /\ child' = [child EXCEPT ![v] = [status |-> Ended(@.status, status), spent |-> told]]
        BY <1>5 DEF ReadTurn
      <3>2. /\ child'[v].status = Ended(child[v].status, status) /\ child'[v].spent = told
            /\ \A w \in Video : w # v => child'[w] = child[w]
        BY <3>1 DEF TypeInv, JobsOK
      <3> QED
        BY <2>1, <3>1, <3>2 DEF Ended, Over
    <2>4. turn[v].cap = Cap /\ paid[v] = Cap - turn[v].left /\ answers[v] = <<>>
      BY <2>1, <2>11 DEF VideoShare, OnTurn, Metered, Answered
    <2>5. Fresh(v)' /\ OnTurn(v)'
      BY <1>0, <2>2 DEF Fresh, OnTurn, Early
    <2>6. Metered(v)' /\ Answered(v)'
      BY <1>m, <2>1, <2>4, <2>11 DEF VideoShare, Metered, Answered, RecordKept
    <2>7. Exact(v)'
      <3>1. answers'[v] = <<>> /\ turn[v].left \in Int /\ Cap \in Int
        BY <1>0, <1>m, <2>4, ShareTypes DEF RecordKept, Turns
      <3>2. Spent(v)' = child'[v].spent + 0
        BY <3>1, SumOfNone DEF Spent
      <3> QED
        BY <1>m, <2>3, <2>4, <3>1, <3>2 DEF Exact
    <2>9. \A a \in Answer : ans[a].on = v => AnswerShare(a)'
      BY <1>a, <2>11, IdleShare
    <2>10. \A w \in Video : w # v => TurnKept(w) /\ ChildKept(w) /\ ThreadKept(w)
      BY <1>0, <2>1, <2>2, <2>3 DEF TurnKept, ChildKept, ThreadKept
    <2> QED
      BY <1>a, <1>m, <2>5, <2>6, <2>7, <2>9, <2>10, OthersKept DEF VideoShare
  <1> QED
    BY <1>1, <1>3, <1>4, <1>5 DEF ChildStep

\* A turn that pays, or ends: what it has paid is what it has not left, and an open question is not one
\* that an answer still runs on.
LEMMA TurnShare ==
    ASSUME TypeInv, TypeInv', LastInv, OwnInv, ShareInv, NEW v \in Video, TurnStep(v) \/ TurnPays(v)
    PROVE  ShareInv'
  <1>0. /\ turn[v] \in Turns /\ turn[v].left <= turn[v].cap /\ paid[v] \in Nat /\ Cap \in Nat
        /\ Live(v) /\ turn[v].st \notin {"none", "over"} /\ UNCHANGED <<phase, child, worker, answers>>
    <2>1. Live(v) /\ UNCHANGED <<phase, child, worker, answers>>
      BY DEF TurnStep, TurnHolds, TurnEnds, TurnPays, Live, record, money
    <2> QED
      BY <2>1, ShareTypes
  <1>1. Sighted(v) => \A a \in Answer : ans[a].on = v /\ Busy(a) => turn[v].by = a /\ Runs(a) /\ ~ans[a].ended
    <2> HAVE Sighted(v)
    <2> TAKE a \in Answer
    <2> HAVE ans[a].on = v /\ Busy(a)
    <2>1. child[v].status = "done" /\ \A b \in Answer : ans[b].on = v /\ b # a => ~Busy(b)
      BY BusyAlone
    <2>2. PICK b \in Answer : turn[v].by = b /\ ans[b].on = v /\ Runs(b) /\ ~ans[b].ended
      BY <1>0, <2>1, LiveAnswer
    <2> QED
      BY <2>1, <2>2 DEF Busy
  <1>2. child[v].status = "done" => \E a \in Answer : turn[v].by = a /\ ans[a].on = v /\ Runs(a)
    BY <1>0, LiveAnswer
  <1>3. \A w \in Video : ChildKept(w) /\ ThreadKept(w)
    BY <1>0 DEF ChildKept, ThreadKept
  <1>4. /\ \A a \in Answer : ans[a] \in Requests
        /\ Sighted(v) => VideoShare(v) /\ \A a \in Answer : ans[a].on = v => AnswerShare(a)
    BY ShareTypes DEF ShareInv
  <1>5. CASE TurnHolds(v)
    <2>1. turn' = [turn EXCEPT ![v].st = "held"] /\ UNCHANGED money
      BY <1>5 DEF TurnHolds, TurnTo
    <2>2. \A w \in Video : TurnKept(w)
      BY <1>0, <2>1 DEF TypeInv, TurnOK, Turns, TurnKept
    <2> QED
      BY <1>3, <2>1, <2>2, ShareKept
  <1>6. CASE TurnPays(v)
    <2>1. /\ turn[v].left > 0 /\ turn' = [turn EXCEPT ![v].left = @ - 1] /\ paid' = [paid EXCEPT ![v] = @ + 1]
          /\ UNCHANGED <<question, ans>>
      BY <1>6 DEF TurnPays
    <2>2. /\ turn'[v].st = turn[v].st /\ turn'[v].by = turn[v].by /\ turn'[v].cap = turn[v].cap /\ turn'[v].left = turn[v].left - 1
          /\ paid'[v] = paid[v] + 1 /\ \A w \in Video : w # v => turn'[w] = turn[w] /\ paid'[w] = paid[w]
      BY <2>1 DEF TypeInv, TurnOK, Turns, LedgerOK
    <2>3. ASSUME Sighted(v)' PROVE VideoShare(v)' /\ \A a \in Answer : ans[a].on = v => AnswerShare(a)'
      <3>1. Sighted(v) /\ VideoShare(v) /\ \A a \in Answer : ans[a].on = v => AnswerShare(a)
        BY <1>4, <2>1, <2>3 DEF Sighted
      <3>2. Metered(v)'
        <4>1. turn[v].left \in Int /\ paid[v] = Cap - turn[v].left
          BY <1>0, <3>1 DEF VideoShare, Metered, Turns
        <4> QED
          BY <1>0, <2>1, <2>2, <4>1 DEF Metered
      <3>3. Fresh(v)' /\ OnTurn(v)' /\ Answered(v)'
        BY <1>0, <2>2, <3>1 DEF VideoShare, Fresh, OnTurn, Answered
      <3>4. Exact(v)'
        BY <1>0, <1>2, <2>1 DEF Exact, Runs
      <3>5. ASSUME NEW a \in Answer, ans[a].on = v PROVE AnswerShare(a)'
        <4>1. CASE Busy(a)
          <5>1. Runs(a) /\ turn[v].by = a /\ ~ans[a].ended /\ Live(v)' /\ AnswerShare(a)
            BY <1>0, <1>1, <2>2, <3>1, <3>5, <4>1 DEF Live
          <5>2. Spent(v)' = Spent(v)
            BY <1>0, SpentKept
          <5>3. Alone(a)' /\ ReadsTrue(a)'
            BY <1>0, <2>1, <5>1 DEF AnswerShare, Alone, ReadsTrue, Busy, Runs
          <5>4. RunsUnder(a)'
            BY <1>0, <2>1, <2>2, <3>5, <5>1, <5>2 DEF AnswerShare, RunsUnder, Runs
          <5> QED
            BY <5>3, <5>4 DEF AnswerShare
        <4>2. CASE ~Busy(a)
          BY <2>1, <3>1, <3>5, <4>2, IdleShare
        <4> QED
          BY <4>1, <4>2
      <3> QED
        BY <3>2, <3>3, <3>4, <3>5 DEF VideoShare
    <2>8. \A w \in Video : w # v => TurnKept(w) /\ RecordKept(w)
      BY <1>0, <2>1, <2>2 DEF TurnKept, RecordKept
    <2> QED
      BY <1>3, <2>1, <2>2, <2>3, <2>8, OthersKept
  <1>7. CASE TurnEnds(v)
    <2>1. turn' = [turn EXCEPT ![v].st = "over"] /\ UNCHANGED <<answers, paid>>
      BY <1>7 DEF TurnEnds, TurnTo
    <2>9. PICK told \in 0..Cap :
              /\ ans' = [a \in Answer |-> IF turn[v].by = a THEN [ans[a] EXCEPT !.ended = TRUE, !.cost = told] ELSE ans[a]]
              /\ \A w \in Video : w # v => (w \in question' <=> w \in question)
              /\ told = turn[v].cap - turn[v].left \/ question' = question
      BY <1>7, EndTells DEF TypeInv
    <2>2. /\ turn'[v].st = "over" /\ turn'[v].by = turn[v].by /\ turn'[v].cap = turn[v].cap /\ turn'[v].left = turn[v].left
          /\ \A w \in Video : w # v => turn'[w] = turn[w]
      BY <2>1 DEF TypeInv, TurnOK, Turns
    <2>3. \A a \in Answer : /\ ans'[a].on = ans[a].on /\ ans'[a].pc = ans[a].pc /\ ans'[a].index = ans[a].index
                            /\ ans'[a].blind = ans[a].blind /\ (turn[v].by # a => ans'[a] = ans[a])
                            /\ (turn[v].by = a => ans'[a].ended = TRUE /\ ans'[a].cost = told)
      BY <1>4, <2>9 DEF Requests
    <2>4. ASSUME Sighted(v)' PROVE VideoShare(v)' /\ \A a \in Answer : ans[a].on = v => AnswerShare(a)'
      <3>1. Sighted(v) /\ VideoShare(v) /\ \A a \in Answer : ans[a].on = v => AnswerShare(a)
        BY <1>4, <2>3, <2>4 DEF Sighted
      <3>2. Fresh(v)' /\ OnTurn(v)' /\ Metered(v)' /\ Answered(v)'
        BY <1>0, <2>1, <2>2, <3>1 DEF VideoShare, Fresh, OnTurn, Metered, Answered
      <3>3. Exact(v)'
        BY <1>0, <1>2, <2>3 DEF Exact, Runs
      <3>4. ASSUME NEW a \in Answer, ans[a].on = v PROVE AnswerShare(a)'
        <4>1. CASE Busy(a)
          <5>1. Runs(a) /\ turn[v].by = a /\ ~ans[a].ended /\ AnswerShare(a)
            BY <1>1, <3>1, <3>4, <4>1
          <5>2. Spent(v)' = Spent(v)
            BY <1>0, SpentKept
          <5>3. Alone(a)' /\ ReadsTrue(a)'
            BY <1>0, <2>3, <5>1 DEF AnswerShare, Alone, ReadsTrue, Busy, Runs
          <5>5. ans[a].pc \in {"started", "noted"} => v \notin question
            BY <3>4, <5>1 DEF AnswerShare, RunsUnder
          <5>6. v \in question' /\ v \notin question => told = turn[v].cap - turn[v].left
            BY <2>9
          <5>7. RunsUnder(a)
            BY <5>1 DEF AnswerShare
          <5>8. ans'[a].on = v /\ ans'[a].ended /\ ans'[a].cost = told /\ answers' = answers
            BY <1>0, <2>3, <3>4, <5>1
          <5>4. RunsUnder(a)'
            BY <2>2, <2>3, <3>4, <5>1, <5>2, <5>5, <5>6, <5>7, <5>8 DEF RunsUnder
          <5> QED
            BY <5>3, <5>4 DEF AnswerShare
        <4>2. CASE ~Busy(a)
          <5>1. turn[v].by # a
            BY <1>0, <4>2, ShareTypes DEF OwnInv, Owned, Busy
          <5> QED
            BY <2>3, <3>1, <3>4, <4>2, <5>1, IdleShare
        <4> QED
          BY <4>1, <4>2
      <3> QED
        BY <3>2, <3>3, <3>4 DEF VideoShare
    <2>7. \A a \in Answer : ans[a].on # v => ans'[a] = ans[a]
      <3>1. \A a \in Answer : turn[v].by = a => ans[a].on = v
        BY <1>0, ShareTypes DEF OwnInv, Owned
      <3> QED
        BY <2>3, <3>1
    <2>8. \A w \in Video : w # v => TurnKept(w) /\ RecordKept(w) /\ paid'[w] = paid[w]
      BY <2>1, <2>2, <2>9 DEF TurnKept, RecordKept
    <2> QED
      BY <1>3, <2>3, <2>4, <2>7, <2>8, OthersKept
  <1> QED
    BY <1>5, <1>6, <1>7 DEF TurnStep

\* Clicks, their calls, and the batch as a whole while the server is up: no turn begins or ends.
LEMMA RouteShare ==
    ASSUME TypeInv, TypeInv', LastInv, ShareInv, NEW c \in Caller, CallStep(c) \/ ClickStep(c)
    PROVE  ShareInv'
  <1>1. UNCHANGED <<worker, money>> /\ (phase' = "gate" => phase = "gate")
    BY DEF CallStep, ReadRunning, CallNext, ClickStep, CancelClick, PauseClick, ResumeClick, CancelRunning, record
  <1>2. UNCHANGED child \/ CancelRunning(c)
    BY DEF CallStep, ReadRunning, CallNext, ClickStep, CancelClick, PauseClick, ResumeClick
  <1>3. \A v \in Video : ChildKept(v)
    BY <1>2, CancelKeeps DEF ChildKept
  <1>4. \A v \in Video : TurnKept(v)
    <2>1. CASE UNCHANGED turn
      BY <2>1, TurnStays
    <2>2. CASE CallNext(c)
      BY <2>2, CallWrites DEF TypeInv, Moves, TurnKept, Live
    <2> QED
      BY <2>1, <2>2 DEF CallStep, ReadRunning, ClickStep, CancelClick, PauseClick, ResumeClick
  <1>5. \A v \in Video : ThreadKept(v)
    BY <1>1 DEF ThreadKept
  <1> QED
    BY <1>1, <1>3, <1>4, <1>5, ShareKept

\* The batch as a whole: what is queued has not begun, and what a server that goes down leaves of an answer
\* that ran is lost.
LEMMA BatchShare ==
    ASSUME TypeInv, TypeInv', LastInv, ShareInv, BatchStep
    PROVE  ShareInv'
  <1>1. CASE Go
    <2>1. /\ UNCHANGED <<turn, money>> /\ phase = "gate" /\ phase' = "running"
          /\ \A v \in Video : worker'[v] = "queued" /\ child[v] \in Children /\ child[v].status = "none"
          /\ child' = [v \in Video |-> [child[v] EXCEPT !.status = "queued"]]
      BY <1>1, ShareTypes DEF Go, LastInv, Begun
    <2>2. \A v \in Video : ChildKept(v) /\ ThreadKept(v)
      BY <2>1 DEF ChildKept, ThreadKept, Children
    <2> QED
      BY <2>1, <2>2, TurnStays, ShareKept
  <1>2. CASE Close \/ Deadline
    <2>1. UNCHANGED <<child, worker, turn, money>> /\ (phase' = "gate" => phase = "gate")
      BY <1>2 DEF Close, Deadline
    <2>2. \A v \in Video : ChildKept(v) /\ ThreadKept(v)
      BY <2>1 DEF ChildKept, ThreadKept
    <2> QED
      BY <2>1, <2>2, TurnStays, ShareKept
  <1>3. CASE Restart
    <2>1. UNCHANGED <<phase, worker, turn, money>>
      BY <1>3 DEF Restart, record
    <2>2. ASSUME NEW v \in Video PROVE ChildKept(v) /\ ThreadKept(v)
      <3>1. /\ child[v] \in Children
            /\ child'[v] = IF child[v].status = "none" THEN child[v] ELSE [child[v] EXCEPT !.status = Ended(@, "failed")]
        BY <1>3, ShareTypes DEF Restart
      <3> QED
        BY <2>1, <3>1 DEF ChildKept, ThreadKept, Children, Ended, Over
    <2> QED
      BY <2>1, <2>2, TurnStays, ShareKept
  <1>4. CASE Crash
    <2>1. /\ UNCHANGED <<phase, child, answers, question, paid>>
          /\ \A v \in Video : worker'[v] = "none" /\ turn'[v] = NoTurn
      BY <1>4 DEF Crash, record
    <2>2. ASSUME NEW a \in Answer
          PROVE  /\ ans'[a].on = ans[a].on /\ ans'[a].blind = ans[a].blind /\ (Runs(a)' <=> Runs(a)) /\ (Busy(a)' => Busy(a))
                 /\ ans'[a].pc \in {"new", "over", "lost"}
      BY <1>4, ShareTypes DEF Crash, Requests, Busy, Runs
    <2>3. \A v \in Video : Sighted(v)' => Sighted(v)
      BY <2>2, SightedKept
    <2>4. ASSUME NEW a \in Answer, Sighted(ans[a].on)' PROVE AnswerShare(a)'
      <3>0. Sighted(ans[a].on)
        BY <2>2, <2>4 DEF Sighted
      <3>1. AnswerShare(a)
        BY <3>0 DEF ShareInv
      <3>2. Alone(a)'
        BY <2>1, <2>2, <3>1 DEF AnswerShare, Alone
      <3> QED
        BY <2>2, <3>2 DEF AnswerShare, ReadsTrue, RunsUnder
    <2>5. ASSUME NEW v \in Video, Sighted(v)' PROVE VideoShare(v)'
      <3>1. VideoShare(v) /\ turn'[v].st = "none" /\ turn'[v].by = Engine /\ worker'[v] = "none"
        BY <2>1, <2>3, <2>5 DEF ShareInv, NoTurn
      <3>2. Fresh(v)' /\ OnTurn(v)' /\ Metered(v)' /\ Answered(v)'
        BY <2>1, <3>1 DEF VideoShare, Fresh, OnTurn, Metered, Answered, Early
      <3>4. Spent(v)' = Spent(v)
        BY <2>1, SpentKept
      <3>5. Exact(v)'
        BY <2>1, <2>2, <3>1, <3>4 DEF VideoShare, Exact
      <3> QED
        BY <3>2, <3>5 DEF VideoShare
    <2> QED
      BY <2>4, <2>5 DEF ShareInv
  <1> QED
    BY <1>1, <1>2, <1>3, <1>4 DEF BatchStep

\* An answer reads what is left of the share, runs under it, and notes what it spent of it.
LEMMA AnswerTakes ==
    ASSUME TypeInv, TypeInv', LastInv, OwnInv, ShareInv, NEW a \in Answer, AnswerRead(a) \/ AnswerStart(a)
    PROVE  ShareInv'
  <1> PICK v \in Video : v = ans[a].on
    BY ShareTypes
  <1>0. /\ v \in Video /\ ans[a] \in Requests /\ Waiting(v) /\ Unended(a)
        /\ answers[v] \in Seq(0..Cap) /\ Cap \in Nat /\ Engine \notin Answer
        /\ UNCHANGED <<phase, child, worker, answers, paid>>
    <2>1. UNCHANGED <<phase, child, worker, answers, paid>>
      BY DEF AnswerRead, AnswerStart, record
    <2> QED
      BY <2>1, ShareTypes DEF LastInv, OwnInv
  <1>1. \A w \in Video : ChildKept(w) /\ ThreadKept(w)
    BY <1>0 DEF ChildKept, ThreadKept
  <1>2. Spent(v)' = Spent(v)
    BY <1>0, SpentKept
  <1>3. CASE AnswerRead(a)
    <2>1. PICK left \in 1..Cap :
             /\ left = Cap - Spent(v)
             /\ ans' = [ans EXCEPT ![a] = [@ EXCEPT !.pc = "read", !.left = left, !.index = Len(answers[v]),
                                                   !.blind = \E b \in Answer : Untold(b, v)]]
      BY <1>3 DEF AnswerRead
    <2>2. /\ ans'[a].pc = "read" /\ ans'[a].left = left /\ ans'[a].index = Len(answers[v]) /\ ans'[a].on = v
          /\ ans'[a].ended = ans[a].ended /\ \A b \in Answer : b # a => ans'[b] = ans[b]
      BY <1>0, <2>1 DEF TypeInv, AnswersOK, Requests
    <2>b. ans'[a].blind = \E b \in Answer : Untold(b, v)
      BY <1>0, <2>1 DEF TypeInv, AnswersOK, Requests
    <2>3. /\ ans[a].pc = "new" /\ child[v].status = "done" /\ v \in question /\ UNCHANGED <<turn, question>>
      BY <1>3 DEF AnswerRead
    <2>4. \A b \in Answer : ans'[b].on = ans[b].on /\ (Runs(b)' <=> Runs(b)) /\ (ans[b].blind => ans'[b].blind)
      BY <1>0, <2>2, <2>3 DEF Runs, Unended
    <2>5. \A w \in Video : TurnKept(w) /\ RecordKept(w) /\ paid'[w] = paid[w]
      BY <1>0, <2>3 DEF TurnKept, RecordKept
    <2>6. ASSUME Sighted(v)' PROVE VideoShare(v)' /\ \A b \in Answer : ans[b].on = v => AnswerShare(b)'
      <3>1. VideoShare(v) /\ \A b \in Answer : ans[b].on = v => AnswerShare(b)
        BY <2>4, <2>6, SightedKept DEF ShareInv
      <3>2. \A b \in Answer : ans[b].on = v => ans[b].pc \in {"new", "over"}
        <4>1. ~(\E b \in Answer : Untold(b, v))
          BY <2>2, <2>b, <2>6 DEF Sighted
        <4> QED
          BY <4>1 DEF Untold
      <3>3. VideoShare(v)'
        BY <1>0, <1>1, <2>4, <2>5, <3>1, VideoKept
      <3>4. AnswerShare(a)'
        <4>1. Alone(a)'
          BY <1>0, <2>2, <2>3, <2>4, <3>2 DEF Alone, Busy, Runs
        <4>2. ReadsTrue(a)'
          BY <1>0, <1>2, <2>1, <2>2, <2>3 DEF ReadsTrue
        <4>3. RunsUnder(a)'
          BY <2>2 DEF RunsUnder
        <4> QED
          BY <4>1, <4>2, <4>3 DEF AnswerShare
      <3>5. ASSUME NEW b \in Answer, ans[b].on = v PROVE AnswerShare(b)'
        <4>1. CASE b = a
          BY <3>4, <4>1
        <4>2. CASE b # a
          <5>1. ans'[b] = ans[b] /\ ~Busy(b) /\ AnswerShare(b)
            BY <2>2, <3>1, <3>2, <3>5, <4>2 DEF Busy, Runs
          <5> QED
            BY <5>1, IdleShare
        <4> QED
          BY <4>1, <4>2
      <3> QED
        BY <3>3, <3>5
    <2>9. \A b \in Answer : ans[b].on # v => ans'[b] = ans[b]
      BY <2>2
    <2> QED
      BY <1>0, <1>1, <2>4, <2>5, <2>6, <2>9, OthersKept
  <1>4. CASE AnswerStart(a)
    <2>0. ans[a].pc = "read" /\ Busy(a) /\ ~ans[a].ended
      BY <1>0, <1>4 DEF AnswerStart, Busy, Unended
    <2>2. ASSUME NEW pc \in {"started", "over"}, ans' = [ans EXCEPT ![a].pc = pc]
          PROVE  /\ ans'[a].pc = pc /\ ans'[a].on = v /\ ans'[a].index = ans[a].index /\ ans'[a].left = ans[a].left
                 /\ ans'[a].ended = ans[a].ended /\ ans'[a].blind = ans[a].blind /\ \A b \in Answer : b # a => ans'[b] = ans[b]
      BY <1>0, <2>2 DEF TypeInv, AnswersOK, Requests
    <2>3. CASE ans' = [ans EXCEPT ![a].pc = "over"] /\ UNCHANGED <<turn, question>>
      <3>1. /\ ans'[a].pc = "over" /\ ans'[a].on = v /\ ans'[a].blind = ans[a].blind /\ \A b \in Answer : b # a => ans'[b] = ans[b]
        BY <2>2, <2>3
      <3>2. \A b \in Answer : ans'[b].on = ans[b].on /\ (Runs(b)' <=> Runs(b)) /\ (ans[b].blind => ans'[b].blind)
        BY <2>0, <3>1 DEF Runs
      <3>3. \A w \in Video : TurnKept(w) /\ RecordKept(w) /\ paid'[w] = paid[w]
        BY <1>0, <2>3 DEF TurnKept, RecordKept
      <3>4. ASSUME Sighted(v)' PROVE VideoShare(v)' /\ \A b \in Answer : ans[b].on = v => AnswerShare(b)'
        <4>0. Sighted(v)
          BY <3>2, <3>4, SightedKept
        <4>1. VideoShare(v) /\ \A b \in Answer : ans[b].on = v => AnswerShare(b)
          BY <4>0 DEF ShareInv
        <4>2. VideoShare(v)'
          BY <1>0, <1>1, <3>2, <3>3, <4>1, VideoKept
        <4>3. \A b \in Answer : ans[b].on = v /\ b # a => ~Busy(b)
          BY <2>0, <4>0, BusyAlone
        <4>4. \A b \in Answer : ans[b].on = v => AnswerShare(b)'
          BY <3>1, <4>1, <4>3, IdleShare, OverShare
        <4> QED
          BY <4>2, <4>4
      <3>6. \A b \in Answer : ans[b].on # v => ans'[b] = ans[b]
        BY <3>1
      <3> QED
        BY <1>0, <1>1, <3>2, <3>3, <3>4, <3>6, OthersKept
    <2>4. CASE /\ ~Live(v) /\ ans' = [ans EXCEPT ![a].pc = "started"] /\ question' = question \ {v}
               /\ turn' = [turn EXCEPT ![v] = [st |-> "running", by |-> a, cap |-> ans[a].left, left |-> ans[a].left]]
      <3>1. /\ ans'[a].pc = "started" /\ ans'[a].on = v /\ ans'[a].index = ans[a].index /\ ans'[a].ended = FALSE
            /\ ans'[a].blind = ans[a].blind /\ \A b \in Answer : b # a => ans'[b] = ans[b]
        BY <1>0, <2>0, <2>2, <2>4 DEF Requests
      <3>2. /\ turn'[v] = [st |-> "running", by |-> a, cap |-> ans[a].left, left |-> ans[a].left]
            /\ \A w \in Video : w # v => turn'[w] = turn[w]
        BY <1>0, <2>4 DEF TypeInv, TurnOK
      <3>3. /\ turn'[v].st = "running" /\ turn'[v].by = a /\ turn'[v].cap = ans[a].left /\ turn'[v].left = ans[a].left
        BY <3>2
      <3>4. \A b \in Answer : ans'[b].on = ans[b].on /\ (ans[b].on # v => ans'[b] = ans[b]) /\ (ans[b].blind => ans'[b].blind)
        BY <3>1
      <3>5. ASSUME Sighted(v)' PROVE VideoShare(v)' /\ \A b \in Answer : ans[b].on = v => AnswerShare(b)'
        <4>0. Sighted(v)
          BY <3>4, <3>5, SightedKept
        <4>1. VideoShare(v) /\ AnswerShare(a) /\ \A b \in Answer : ans[b].on = v => AnswerShare(b)
          BY <4>0 DEF ShareInv
        <4>2. child[v].status = "done" /\ \A b \in Answer : ans[b].on = v /\ b # a => ~Busy(b)
          BY <2>0, <4>0, BusyAlone
        <4>3. v \in question /\ ans[a].left = Cap - Spent(v) /\ ans[a].index = Len(answers[v])
          BY <2>0, <4>1 DEF AnswerShare, ReadsTrue
        <4>4. paid[v] = Spent(v) /\ Spent(v) \in Int
          <5>1. \A b \in Answer : ans[b].on = v => ~Runs(b)
            BY <2>0, <4>2 DEF Runs, Busy
          <5> QED
            BY <1>0, <4>1, <4>2, <4>3, <5>1, SpentIs DEF VideoShare, Exact
        <4>5. Fresh(v)' /\ OnTurn(v)'
          BY <1>0, <3>3, <4>1, <4>2 DEF VideoShare, Fresh, OnTurn, Waiting
        <4>6. Metered(v)'
          BY <1>0, <3>3, <4>1, <4>3, <4>4 DEF VideoShare, Metered
        <4>7. Answered(v)' /\ Exact(v)'
          BY <1>0, <2>4, <3>1, <4>1 DEF VideoShare, Answered, Exact, Runs
        <4>8. AnswerShare(a)'
          <5>1. Alone(a)'
            BY <1>0, <3>1, <4>2 DEF Alone, Busy, Runs
          <5>2. ReadsTrue(a)'
            BY <3>1 DEF ReadsTrue
          <5>3. RunsUnder(a)'
            BY <1>0, <1>2, <2>4, <3>1, <3>3, <4>3 DEF RunsUnder, Live
          <5> QED
            BY <5>1, <5>2, <5>3 DEF AnswerShare
        <4>9. \A b \in Answer : ans[b].on = v => AnswerShare(b)'
          BY <3>1, <4>1, <4>2, <4>8, IdleShare
        <4> QED
          BY <4>5, <4>6, <4>7, <4>9 DEF VideoShare
      <3>11. \A w \in Video : w # v => TurnKept(w) /\ RecordKept(w) /\ paid'[w] = paid[w]
        BY <1>0, <2>4, <3>2 DEF TurnKept, RecordKept
      <3> QED
        BY <1>0, <1>1, <3>4, <3>5, <3>11, OthersKept
    <2> QED
      BY <1>4, <2>3, <2>4 DEF AnswerStart
  <1> QED
    BY <1>3, <1>4

LEMMA AnswerSpends ==
    ASSUME TypeInv, TypeInv', LastInv, ShareInv, NEW a \in Answer, AnswerNote(a) \/ AnswerSettles(a) \/ AnswerGivesUp(a)
    PROVE  ShareInv'
  <1> PICK v \in Video : v = ans[a].on
    BY ShareTypes
  <1>0. /\ v \in Video /\ ans[a] \in Requests
        /\ answers[v] \in Seq(0..Cap) /\ Len(answers[v]) \in Nat /\ Cap \in Nat /\ turn[v] \in Turns
        /\ UNCHANGED <<phase, child, worker, turn, question, paid>>
    <2>1. UNCHANGED <<phase, child, worker, turn, question, paid>>
      BY DEF AnswerNote, AnswerSettles, AnswerGivesUp, record
    <2> QED
      BY <2>1, ShareTypes
  <1>1. \A w \in Video : ChildKept(w) /\ ThreadKept(w) /\ TurnKept(w) /\ paid'[w] = paid[w]
    BY <1>0 DEF ChildKept, ThreadKept, TurnKept
  <1>2. Runs(a) /\ Busy(a)
    BY DEF AnswerNote, AnswerSettles, AnswerGivesUp, Runs, Busy
  <1>3. \A w \in Video : w # v => answers'[w] = answers[w]
    BY <1>0 DEF AnswerNote, AnswerSettles, AnswerGivesUp, TypeInv, AnswersOK
  <1>6. PICK pc \in {"noted", "over", "lost"} : ans' = [ans EXCEPT ![a].pc = pc]
    BY DEF AnswerNote, AnswerSettles, AnswerGivesUp
  <1>4. /\ ans'[a].pc = pc /\ ans'[a].on = v /\ ans'[a].index = ans[a].index /\ ans'[a].cost = ans[a].cost
        /\ ans'[a].ended = ans[a].ended /\ ans'[a].blind = ans[a].blind /\ \A b \in Answer : b # a => ans'[b] = ans[b]
    BY <1>0, <1>6 DEF TypeInv, AnswersOK, Requests
  <1>5. answers[v] \in Seq(Int) /\ SumOf(answers[v]) \in Int /\ Spent(v) \in Int /\ Spent(v) = child[v].spent + SumOf(answers[v])
        /\ child[v].spent \in Int
    BY <1>0, SpentIs, ShareTypes DEF Children
  <1>m. \A b \in Answer : ans'[b].on = ans[b].on /\ (ans[b].on # v => ans'[b] = ans[b]) /\ (ans[b].blind => ans'[b].blind)
    BY <1>4
  <1>r. \A w \in Video : w # v => RecordKept(w)
    BY <1>0, <1>3 DEF RecordKept
  <1>9. SUFFICES ASSUME Sighted(v)' PROVE VideoShare(v)' /\ \A b \in Answer : ans[b].on = v => AnswerShare(b)'
    BY <1>0, <1>1, <1>m, <1>r, OthersKept
  <1>s. Sighted(v)
    BY <1>9, <1>m, SightedKept
  <1>t. VideoShare(v) /\ AnswerShare(a) /\ \A b \in Answer : ans[b].on = v => AnswerShare(b)
    BY <1>s DEF ShareInv
  <1>u. child[v].status = "done" /\ \A b \in Answer : ans[b].on = v /\ b # a => ~Busy(b)
    BY <1>2, <1>s, BusyAlone
  <1>8. Fresh(v)' /\ OnTurn(v)' /\ Metered(v)' /\ Answered(v)'
    BY <1>0, <1>t, <1>u DEF VideoShare, Fresh, OnTurn, Metered, Answered
  <1>12. \A b \in Answer : ans[b].on = v /\ b # a => AnswerShare(b)'
    BY <1>4, <1>t, <1>u, IdleShare
  <1>13. SUFFICES Exact(v)' /\ AnswerShare(a)'
    BY <1>8, <1>12 DEF VideoShare
  <1>7. ans[a].pc \in {"started", "noted"} => RunsUnder(a) /\ turn[v].by = a /\ turn[v].cap = Cap - Spent(v) /\ turn[v].left \in Int
    BY <1>0, <1>t DEF AnswerShare, RunsUnder, Turns
  <1>10. CASE AnswerNote(a)
    <2>1. ans'[a].pc = "noted" /\ ans[a].pc = "started" /\ answers'[v] = Append(answers[v], 0)
      <3>1. ans'[a].pc = "noted"
        BY <1>0, <1>10 DEF AnswerNote, TypeInv, AnswersOK, Requests
      <3> QED
        BY <1>0, <1>10, <3>1 DEF AnswerNote, TypeInv, AnswersOK
    <2>3. Spent(v)' = Spent(v)
      <3>1. SumOf(Append(answers[v], 0)) = SumOf(answers[v]) + 0
        BY <1>5, SumOfAppend
      <3> QED
        BY <1>0, <1>5, <2>1, <3>1 DEF Spent
    <2>4. ans[a].index = Len(answers[v])
      BY <1>7, <1>2, <2>1 DEF RunsUnder
    <2>5. Len(answers'[v]) = Len(answers[v]) + 1 /\ answers'[v][Len(answers[v]) + 1] = 0
      BY <1>0, <2>1
    <2>7. Exact(v)'
      BY <1>0, <1>4, <2>1 DEF Exact, Runs
    <2>8. AnswerShare(a)'
      <3>1. Alone(a)' /\ ReadsTrue(a)'
        BY <1>0, <1>4, <1>u, <2>1 DEF Alone, ReadsTrue, Busy, Runs
      <3>2. RunsUnder(a)'
        BY <1>0, <1>4, <1>7, <2>1, <2>3, <2>4, <2>5 DEF RunsUnder, Live
      <3> QED
        BY <3>1, <3>2 DEF AnswerShare
    <2> QED
      BY <2>7, <2>8
  <1>11. CASE AnswerSettles(a)
    <2>1. ans'[a].pc = "over" /\ ans[a].pc = "noted" /\ ans[a].ended
          /\ answers'[v] = [answers[v] EXCEPT ![ans[a].index + 1] = ans[a].cost]
      <3>1. ans'[a].pc = "over"
        BY <1>0, <1>11 DEF AnswerSettles, TypeInv, AnswersOK, Requests
      <3> QED
        BY <1>0, <1>11, <3>1 DEF AnswerSettles, TypeInv, AnswersOK
    <2>7. AnswerShare(a)'
      BY <2>1, OverShare
    <2>2. /\ ans[a].index + 1 = Len(answers[v]) /\ answers[v][ans[a].index + 1] = 0
          /\ turn[v].st = "over" /\ (v \in question => ans[a].cost = turn[v].cap - turn[v].left)
          /\ ans[a].index \in Nat /\ ans[a].cost \in Int
      BY <1>0, <1>7, <2>1 DEF RunsUnder, Requests
    <2>3. Spent(v)' = Spent(v) + ans[a].cost
      <3>1. ans[a].index + 1 \in 1..Len(answers[v])
        BY <1>0, <2>2
      <3>2. SumOf([answers[v] EXCEPT ![ans[a].index + 1] = ans[a].cost])
                = SumOf(answers[v]) - answers[v][ans[a].index + 1] + ans[a].cost
        BY <1>5, <2>2, <3>1, SumOfExcept
      <3>3. Spent(v)' = child[v].spent + SumOf([answers[v] EXCEPT ![ans[a].index + 1] = ans[a].cost])
        BY <1>0, <2>1 DEF Spent
      <3>4. SumOf([answers[v] EXCEPT ![ans[a].index + 1] = ans[a].cost]) = SumOf(answers[v]) - 0 + ans[a].cost
        BY <2>2, <3>2, Zenon
      <3>5. Spent(v)' = child[v].spent + (SumOf(answers[v]) - 0 + ans[a].cost)
        BY <3>3, <3>4, Zenon
      <3>6. ans[a].cost \in Int
        BY <2>2
      <3> QED
        BY <1>5, <3>5, <3>6
    <2>4. paid[v] = Cap - turn[v].left
      BY <1>0, <1>t, <2>2 DEF VideoShare, Metered
    <2>5. Exact(v)'
      <3>1. Spent(v) \in Int /\ turn[v].cap = Cap - Spent(v) /\ turn[v].left \in Int /\ Cap \in Int
        BY <1>0, <1>5, <1>7, <2>1
      <3>2. v \in question => ans[a].cost = turn[v].cap - turn[v].left
        BY <2>2
      <3>3. v \in question => paid[v] = Spent(v)'
        BY <2>3, <2>4, <3>1, <3>2
      <3> QED
        BY <1>0, <3>3 DEF Exact
    <2> QED
      BY <2>5, <2>7
  <1>14. CASE AnswerGivesUp(a)
    <2>1. ans'[a].pc = "lost"
      BY <1>0, <1>14 DEF AnswerGivesUp, TypeInv, AnswersOK, Requests
    <2>2. Exact(v)'
      BY <1>4, <2>1 DEF Exact, Runs
    <2>3. AnswerShare(a)'
      BY <1>0, <1>4, <1>u, <2>1 DEF AnswerShare, Alone, ReadsTrue, RunsUnder, Busy, Runs
    <2> QED
      BY <2>2, <2>3
  <1> QED
    BY <1>10, <1>11, <1>14

LEMMA NextShare ==
    ASSUME TypeInv, TypeInv', LastInv, AfterDone, OwnInv, ShareInv, [Next]_vars
    PROVE  ShareInv'
  <1>1. CASE Next
    BY <1>1, NextCases, BatchShare, ThreadShare, TurnShare, RouteShare, AnswerTakes, AnswerSpends DEF AnswerStep
  <1>2. CASE UNCHANGED vars
    <2>1. UNCHANGED <<phase, child, worker, turn, money>>
      BY <1>2 DEF vars, record
    <2>2. \A v \in Video : ChildKept(v) /\ ThreadKept(v)
      BY <2>1 DEF ChildKept, ThreadKept
    <2> QED
      BY <2>1, <2>2, TurnStays, ShareKept
  <1> QED
    BY <1>1, <1>2
------------------------------------------------------------------------------
(* Whose a turn is. *)

LEMMA InitOwn == ASSUME Init PROVE OwnInv
  <1>1. \A v \in Video : turn[v].st = "none"
    BY DEF Init, NoTurn
  <1>2. \A a \in Answer : ans[a].ended = FALSE /\ ans[a].blind = FALSE
    BY DEF Init
  <1> QED
    BY <1>1, <1>2 DEF OwnInv, Owned, Unended, Live

LEMMA OwnTurns ==
    ASSUME TypeInv, OwnInv, UNCHANGED ans,
           \A v \in Video : Live(v)' => turn'[v].by = Engine \/ (Live(v) /\ turn'[v].by = turn[v].by)
    PROVE  OwnInv'
  <1>1. ASSUME NEW v \in Video PROVE Owned(v)'
    <2>1. CASE Live(v)' /\ turn'[v].by # Engine
      <3>1. Live(v) /\ turn'[v].by = turn[v].by /\ Owned(v)
        BY <2>1 DEF OwnInv
      <3> QED
        BY <2>1, <3>1 DEF Owned, Runs
    <2>2. CASE ~(Live(v)' /\ turn'[v].by # Engine)
      BY <2>2 DEF Owned
    <2> QED
      BY <2>1, <2>2
  <1> QED
    BY <1>1 DEF OwnInv, Unended

LEMMA OwnAnswers ==
    ASSUME TypeInv, OwnInv, UNCHANGED turn,
           \A a \in Answer : ans'[a].on = ans[a].on /\ Unended(a)' /\ (Runs(a) /\ ~ans[a].ended => Runs(a)' /\ ~ans'[a].ended)
    PROVE  OwnInv'
  <1>1. ASSUME NEW v \in Video PROVE Owned(v)'
    <2>1. SUFFICES ASSUME Live(v)', turn'[v].by # Engine PROVE Owned(v)'
      BY DEF Owned
    <2>2. Live(v) /\ turn'[v].by = turn[v].by
      BY <2>1 DEF Live
    <2>3. PICK b \in Answer : b = turn[v].by
      BY <2>1, <2>2, ShareTypes DEF Turns
    <2>4. ans[b].on = v /\ Runs(b) /\ ~ans[b].ended
      BY <2>1, <2>2, <2>3 DEF OwnInv, Owned
    <2>5. ans'[b].on = v /\ Runs(b)' /\ ~ans'[b].ended /\ turn'[v].by = b
      BY <2>2, <2>3, <2>4
    <2> QED
      BY <2>5 DEF Owned, Runs
  <1> QED
    BY <1>1 DEF OwnInv

LEMMA NextOwn ==
    ASSUME TypeInv, TypeInv', OwnInv, [Next]_vars
    PROVE  OwnInv'
  <1>0. \A a \in Answer : ans[a] \in Requests /\ Unended(a)
    BY ShareTypes DEF OwnInv
  <1>1. CASE UNCHANGED vars
    BY <1>1, OwnTurns DEF vars, money, Live
  <1>2. CASE BatchStep
    <2>1. CASE Crash
      <3>1. \A v \in Video : ~Live(v)'
        BY <2>1 DEF Crash, NoTurn, Live
      <3>2. \A a \in Answer : ans'[a].ended = ans[a].ended /\ ans'[a].blind = ans[a].blind /\ (ans'[a].pc \in {"new", "read"} => ans[a].pc = ans'[a].pc)
        BY <1>0, <2>1 DEF Crash, Requests
      <3> QED
        BY <1>0, <3>1, <3>2 DEF OwnInv, Owned, Unended
    <2>2. CASE Go \/ Close \/ Deadline \/ Restart
      BY <2>2, OwnTurns DEF Go, Close, Deadline, Restart, money, Live
    <2> QED
      BY <1>2, <2>1, <2>2 DEF BatchStep
  <1>3. ASSUME NEW v \in Video, ChildStep(v) \/ GiveUp(v) PROVE OwnInv'
    <2>1. UNCHANGED ans
      BY <1>3 DEF ChildStep, GiveUp, PoolTakes, Point, Late, Drop, Look, Start, ReadTurn, money
    <2>2. CASE UNCHANGED turn
      BY <2>1, <2>2, OwnTurns DEF Live
    <2>3. CASE turn' = [turn EXCEPT ![v] = [st |-> "running", by |-> Engine, cap |-> Cap, left |-> Cap]]
      <3>1. \A w \in Video : turn'[w].by = Engine \/ turn'[w] = turn[w]
        BY <2>3 DEF TypeInv, TurnOK
      <3> QED
        BY <2>1, <3>1, OwnTurns DEF Live
    <2> QED
      BY <1>3, <2>2, <2>3 DEF ChildStep, GiveUp, PoolTakes, Point, Late, Drop, Look, Start, ReadTurn
  <1>4. ASSUME NEW v \in Video, TurnStep(v) \/ TurnPays(v) PROVE OwnInv'
    <2>0. turn[v] \in Turns
      BY ShareTypes
    <2>1. CASE TurnHolds(v) \/ TurnPays(v)
      <3>1. UNCHANGED ans /\ Live(v)
        BY <2>1 DEF TurnHolds, TurnPays, money, Live
      <3>2. \A w \in Video : turn'[w].by = turn[w].by /\ (w # v => turn'[w] = turn[w])
        BY <2>0, <2>1 DEF TurnHolds, TurnPays, TurnTo, TypeInv, TurnOK, Turns
      <3> QED
        BY <3>1, <3>2, OwnTurns DEF Live
    <2>2. CASE TurnEnds(v)
      <3>1. turn' = [turn EXCEPT ![v].st = "over"] /\ Live(v)
        BY <2>2 DEF TurnEnds, TurnTo
      <3>2. PICK told \in 0..Cap :
                ans' = [a \in Answer |-> IF turn[v].by = a THEN [ans[a] EXCEPT !.ended = TRUE, !.cost = told] ELSE ans[a]]
        BY <2>2, EndTells DEF TypeInv
      <3>3. turn'[v].st = "over" /\ \A w \in Video : w # v => turn'[w] = turn[w]
        BY <3>1 DEF TypeInv, TurnOK, Turns
      <3>4. \A a \in Answer : /\ ans'[a].on = ans[a].on /\ ans'[a].pc = ans[a].pc /\ ans'[a].blind = ans[a].blind
                              /\ (turn[v].by # a => ans'[a] = ans[a])
        BY <1>0, <3>2 DEF Requests
      <3>5. \A a \in Answer : turn[v].by = a => Runs(a) /\ ans[a].on = v
        BY <3>1, ShareTypes DEF OwnInv, Owned
      <3>6. \A a \in Answer : Unended(a)'
        BY <1>0, <3>4, <3>5 DEF Unended, Runs
      <3>7. ASSUME NEW w \in Video PROVE Owned(w)'
        <4>1. CASE w = v
          BY <3>3, <4>1 DEF Owned, Live
        <4>2. CASE w # v
          <5>1. turn'[w] = turn[w] /\ Owned(w) /\ (Live(w)' => Live(w)) /\ turn[w].by \in Answer \cup {Engine}
            BY <3>3, <4>2, ShareTypes DEF OwnInv, Live, Turns
          <5>2. Live(w) /\ turn[w].by # Engine => turn[w].by # turn[v].by
            BY <3>5, <4>2, <5>1 DEF Owned
          <5> QED
            BY <3>4, <5>1, <5>2 DEF Owned, Runs
        <4> QED
          BY <4>1, <4>2
      <3> QED
        BY <3>6, <3>7 DEF OwnInv
    <2> QED
      BY <1>4, <2>1, <2>2 DEF TurnStep
  <1>5. ASSUME NEW c \in Caller, CallStep(c) \/ ClickStep(c) PROVE OwnInv'
    <2>1. UNCHANGED ans
      BY <1>5 DEF CallStep, ReadRunning, CallNext, ClickStep, CancelClick, PauseClick, ResumeClick, money
    <2>2. CASE UNCHANGED turn
      BY <2>1, <2>2, OwnTurns DEF Live
    <2>3. CASE CallNext(c)
      <3>1. \A w \in Video : Moves(c, w)
        BY <2>3, CallWrites DEF TypeInv
      <3>2. \A w \in Video : Live(w)' => Live(w) /\ turn'[w].by = turn[w].by
        BY <3>1 DEF Moves, Live
      <3> QED
        BY <2>1, <3>2, OwnTurns
    <2> QED
      BY <1>5, <2>2, <2>3 DEF CallStep, ReadRunning, ClickStep, CancelClick, PauseClick, ResumeClick
  <1>6. ASSUME NEW a \in Answer, AnswerRead(a) PROVE OwnInv'
    <2>1. UNCHANGED turn /\ ans[a].pc = "new"
      BY <1>6 DEF AnswerRead
    <2>2. ans'[a].pc = "read" /\ ans'[a].on = ans[a].on /\ ans'[a].ended = ans[a].ended /\ \A b \in Answer : b # a => ans'[b] = ans[b]
      <3>1. PICK left \in 1..Cap :
               ans' = [ans EXCEPT ![a] = [@ EXCEPT !.pc = "read", !.left = left, !.index = Len(answers[ans[a].on]),
                                                   !.blind = \E b \in Answer : Untold(b, ans[a].on)]]
        BY <1>6 DEF AnswerRead
      <3> QED
        BY <1>0, <3>1 DEF TypeInv, AnswersOK, Requests
    <2>3. \A b \in Answer : ans'[b].on = ans[b].on /\ Unended(b)'
      BY <1>0, <2>1, <2>2 DEF Unended
    <2>4. \A b \in Answer : Runs(b) => Runs(b)' /\ ans'[b].ended = ans[b].ended
      BY <2>1, <2>2 DEF Runs
    <2> QED
      BY <2>1, <2>3, <2>4, OwnAnswers
  <1>7. ASSUME NEW a \in Answer, AnswerStep(a) PROVE OwnInv'
    <2>1. PICK pc \in {"started", "noted", "over", "lost"} : ans' = [ans EXCEPT ![a].pc = pc] /\ ans[a].pc # "new"
      BY <1>7 DEF AnswerStep, AnswerStart, AnswerNote, AnswerSettles, AnswerGivesUp
    <2>2. /\ ans'[a].pc = pc /\ ans'[a].on = ans[a].on /\ ans'[a].ended = ans[a].ended
          /\ ans'[a].blind = ans[a].blind /\ \A b \in Answer : b # a => ans'[b] = ans[b]
      BY <1>0, <2>1 DEF TypeInv, AnswersOK, Requests
    <2>3. \A b \in Answer : Unended(b)' /\ ans'[b].on = ans[b].on
      BY <1>0, <2>1, <2>2 DEF Unended
    <2>4. CASE AnswerStart(a)
      <3>1. ans[a].pc = "read" /\ ~Runs(a) /\ ~ans[a].ended
        BY <1>0, <2>4 DEF AnswerStart, Runs, Unended
      <3>2. CASE UNCHANGED turn
        <4>1. \A b \in Answer : Runs(b) => Runs(b)' /\ ans'[b].ended = ans[b].ended
          BY <2>2, <3>1 DEF Runs
        <4> QED
          BY <2>3, <3>2, <4>1, OwnAnswers
      <3>3. CASE /\ ans' = [ans EXCEPT ![a].pc = "started"]
                 /\ turn' = [turn EXCEPT ![ans[a].on] = [st |-> "running", by |-> a, cap |-> ans[a].left, left |-> ans[a].left]]
        <4> DEFINE v == ans[a].on
        <4>1. v \in Video /\ ans'[a].pc = "started"
          BY <1>0, <3>3, ShareTypes DEF TypeInv, AnswersOK, Requests
        <4>2. turn'[v].by = a /\ \A w \in Video : w # v => turn'[w] = turn[w]
          BY <3>3, <4>1 DEF TypeInv, TurnOK
        <4>3. Owned(v)'
          BY <2>2, <3>1, <4>1, <4>2 DEF Owned, Runs
        <4>4. ASSUME NEW w \in Video, w # v PROVE Owned(w)'
          <5>1. turn'[w] = turn[w] /\ Owned(w) /\ (Live(w)' => Live(w)) /\ turn[w].by \in Answer \cup {Engine}
            BY <4>2, <4>4, ShareTypes DEF OwnInv, Live, Turns
          <5>2. Live(w) /\ turn[w].by # Engine => turn[w].by # a
            BY <3>1, <5>1 DEF Owned
          <5> QED
            BY <2>2, <5>1, <5>2 DEF Owned, Runs
        <4> QED
          BY <2>3, <4>3, <4>4 DEF OwnInv
      <3> QED
        BY <2>4, <3>2, <3>3 DEF AnswerStart
    <2>5. CASE AnswerNote(a) \/ AnswerSettles(a) \/ AnswerGivesUp(a)
      <3>1. UNCHANGED turn
        BY <2>5 DEF AnswerNote, AnswerSettles, AnswerGivesUp
      <3>2. ans'[a].pc \in {"noted", "lost"} \/ ans[a].ended
        BY <1>0, <2>5 DEF AnswerNote, AnswerSettles, AnswerGivesUp, TypeInv, AnswersOK, Requests
      <3>3. \A b \in Answer : Runs(b) /\ ~ans[b].ended => Runs(b)' /\ ~ans'[b].ended
        BY <2>2, <3>2 DEF Runs
      <3> QED
        BY <2>3, <3>1, <3>3, OwnAnswers
    <2> QED
      BY <1>7, <2>4, <2>5 DEF AnswerStep
  <1> QED
    BY <1>1, <1>2, <1>3, <1>4, <1>5, <1>6, <1>7, NextCases
------------------------------------------------------------------------------
(* What a video may cost with the answers let in blind. *)

LEMMA BoundFacts ==
    /\ Cap \in Nat /\ Bound(0) = Cap
    /\ \A n \in Nat : Bound(n) \in Nat /\ Bound(n + 1) = Bound(n) + Cap /\ Cap <= Bound(n)
    /\ \A m, n \in Nat : m <= n => Bound(m) <= Bound(n)
  <1>1. Cap \in Nat
    BY BatchAssumption
  <1>2. \A n \in Nat : Bound(n) \in Nat /\ Bound(n + 1) = Bound(n) + Cap /\ Cap <= Bound(n)
    BY <1>1 DEF Bound
  <1>3. ASSUME NEW m \in Nat, NEW n \in Nat, m <= n PROVE Bound(m) <= Bound(n)
    <2>1. PICK k \in Nat : n = m + k
      BY <1>3
    <2>2. Cap * (1 + (m + k)) = Cap * (1 + m) + Cap * k /\ Cap * k >= 0
      BY <1>1
    <2> QED
      BY <1>1, <2>1, <2>2 DEF Bound
  <1>4. Bound(0) = Cap
    BY <1>1 DEF Bound
  <1> QED
    BY <1>1, <1>2, <1>3, <1>4

LEMMA UsedFacts ==
    ASSUME TypeInv, NEW v \in Video
    PROVE  /\ IsFiniteSet(Used(v)) /\ Cardinality(Used(v)) \in Nat
           /\ \A a \in Answer : a \notin Used(v) => Cardinality(Used(v) \cup {a}) = Cardinality(Used(v)) + 1
  <1>1. IsFiniteSet(Answer) /\ Used(v) \subseteq Answer
    BY BatchAssumption DEF Used
  <1>2. IsFiniteSet(Used(v))
    BY <1>1, FS_Subset
  <1> QED
    BY <1>2, FS_CardinalityType, FS_AddElement

LEMMA UsedGrows ==
    ASSUME NEW s \in SUBSET Answer, NEW t \in SUBSET Answer, s \subseteq t
    PROVE  Cardinality(s) \in Nat /\ Cardinality(t) \in Nat /\ Bound(Cardinality(s)) <= Bound(Cardinality(t))
  <1>1. IsFiniteSet(t)
    BY BatchAssumption, FS_Subset
  <1>2. IsFiniteSet(s) /\ Cardinality(s) <= Cardinality(t)
    BY <1>1, FS_Subset
  <1>3. Cardinality(s) \in Nat /\ Cardinality(t) \in Nat
    BY <1>1, <1>2, FS_CardinalityType
  <1> QED
    BY <1>2, <1>3, BoundFacts

LEMMA OwingType == ASSUME TypeInv, NEW v \in Video PROVE Owing(v) \in Nat /\ paid[v] \in Nat /\ paid[v] <= Owing(v)
  BY ShareTypes DEF Owing, Turns

LEMMA OwingNext == ASSUME TypeInv', NEW v \in Video PROVE Owing(v)' \in Nat
  BY DEF TypeInv, TurnOK, LedgerOK, Owing, Turns

LEMMA InitBound == ASSUME Init, TypeInv PROVE BoundInv
  <1>1. \A a \in Answer : ans[a].pc = "new"
    BY DEF Init
  <1>2. \A v \in Video : Owing(v) = 0
    BY DEF Init, Owing, NoTurn, Live
  <1> QED
    BY <1>1, <1>2, UsedFacts, BoundFacts DEF BoundInv, Bounded, ReadBounded, OneReads, Reading

\* What a video may come to does not grow, and no answer reads.
LEMMA BoundKept ==
    ASSUME TypeInv, TypeInv', BoundInv, \A v \in Video : Owing(v)' <= Owing(v),
           \A a \in Answer : /\ ans'[a].on = ans[a].on
                             /\ ans[a].blind /\ ans[a].pc # "read" => ans'[a].blind /\ ans'[a].pc # "read"
                             /\ Reading(a)' => Reading(a) /\ ans'[a].left = ans[a].left
    PROVE  BoundInv'
  <1>1. ASSUME NEW v \in Video
        PROVE  /\ Owing(v) \in Nat /\ Owing(v)' \in Nat /\ Bound(Cardinality(Used(v))) \in Nat /\ Bound(Cardinality(Used(v)))' \in Nat
               /\ Bound(Cardinality(Used(v))) <= Bound(Cardinality(Used(v)))'
    <2>1. Used(v) \subseteq Used(v)' /\ Used(v) \in SUBSET Answer /\ Used(v)' \in SUBSET Answer
      BY DEF Used
    <2>2. Bound(Cardinality(Used(v))) <= Bound(Cardinality(Used(v)'))
      BY <2>1, UsedGrows
    <2>3. Bound(Cardinality(Used(v))) \in Nat /\ Bound(Cardinality(Used(v)')) \in Nat
      BY <2>1, UsedGrows, BoundFacts
    <2>4. Bound(Cardinality(Used(v)))' = Bound(Cardinality(Used(v)'))
      BY DEF Bound
    <2> QED
      BY <2>2, <2>3, <2>4, OwingType, OwingNext
  <1>2. ASSUME NEW v \in Video PROVE Bounded(v)'
    BY <1>1, <1>2 DEF BoundInv, Bounded
  <1>3. ASSUME NEW a \in Answer PROVE ReadBounded(a)' /\ OneReads(a)'
    <2>1. OneReads(a)'
      BY DEF BoundInv, OneReads
    <2>2. ReadBounded(a)'
      <3> SUFFICES ASSUME Reading(a)' PROVE (Owing(ans[a].on) + ans[a].left <= Bound(Cardinality(Used(ans[a].on))))'
        BY DEF ReadBounded
      <3> DEFINE v == ans[a].on
      <3>1. v \in Video /\ ans[a].left \in Nat /\ ans'[a].on = v /\ ans'[a].left = ans[a].left
        BY ShareTypes DEF Requests
      <3>2. Owing(v) + ans[a].left <= Bound(Cardinality(Used(v)))
        BY DEF BoundInv, ReadBounded
      <3>3. Owing(v)' + ans[a].left <= Bound(Cardinality(Used(v)))'
        BY <1>1, <3>1, <3>2
      <3> QED
        BY <3>1, <3>3
    <2> QED
      BY <2>1, <2>2
  <1> QED
    BY <1>2, <1>3 DEF BoundInv

LEMMA NextBound ==
    ASSUME TypeInv, TypeInv', LastInv, AfterDone, OwnInv, ShareInv, BoundInv, [Next]_vars
    PROVE  BoundInv'
  <1>0. /\ \A v \in Video : turn[v] \in Turns /\ paid[v] \in Nat
        /\ \A a \in Answer : ans[a] \in Requests /\ Unended(a)
    BY ShareTypes DEF OwnInv
  <1>k. ASSUME UNCHANGED ans, \A v \in Video : Owing(v)' <= Owing(v) PROVE BoundInv'
    BY <1>k, BoundKept DEF Reading
  <1>s. ASSUME UNCHANGED <<turn, paid>> PROVE \A v \in Video : Owing(v)' <= Owing(v)
    BY <1>s, OwingType DEF Owing, Live
  <1>1. CASE UNCHANGED vars
    BY <1>1, <1>k, <1>s DEF vars, money
  <1>2. CASE BatchStep
    <2>1. CASE Crash
      <3>1. \A v \in Video : Owing(v)' <= Owing(v)
        BY <1>0, <2>1 DEF Crash, NoTurn, Owing, Live, Turns
      <3>2. \A a \in Answer : /\ ans'[a].on = ans[a].on /\ ans'[a].blind = ans[a].blind /\ ans'[a].pc # "read"
        BY <1>0, <2>1 DEF Crash, Requests
      <3> QED
        BY <3>1, <3>2, BoundKept DEF Reading
    <2>2. CASE Go \/ Close \/ Deadline \/ Restart
      BY <1>k, <1>s, <2>2 DEF Go, Close, Deadline, Restart, money
    <2> QED
      BY <1>2, <2>1, <2>2 DEF BatchStep
  <1>3. ASSUME NEW v \in Video, ChildStep(v) \/ GiveUp(v) PROVE BoundInv'
    <2>1. UNCHANGED money
      BY <1>3 DEF ChildStep, GiveUp, PoolTakes, Point, Late, Drop, Look, Start, ReadTurn
    <2>2. CASE UNCHANGED turn
      BY <1>k, <1>s, <2>1, <2>2 DEF money
    <2>3. CASE /\ worker[v] = "start"
               /\ turn' = [turn EXCEPT ![v] = [st |-> "running", by |-> Engine, cap |-> Cap, left |-> Cap]]
      <3>1. child[v].status # "done"
        BY <2>3 DEF LastInv, Waiting
      <3>2. Sighted(v) /\ \A a \in Answer : ans[a].on = v => ans[a].pc = "new"
        BY <3>1, NotAsked
      <3>3. paid[v] = 0
        BY <2>3, <3>2 DEF ShareInv, VideoShare, Fresh, Early
      <3>4. turn'[v].left = Cap /\ \A w \in Video : w # v => turn'[w] = turn[w]
        BY <2>3 DEF TypeInv, TurnOK
      <3>5. \A w \in Video : w # v => Owing(w)' = Owing(w)
        BY <2>1, <3>4 DEF money, Owing, Live
      <3>6. Owing(v)' <= Cap
        BY <2>1, <3>3, <3>4, BoundFacts DEF money, Owing
      <3>7. \A w \in Video : Used(w)' = Used(w)
        BY <2>1 DEF money, Used
      <3>8. Bounded(v)'
        <4>1. Cap <= Bound(Cardinality(Used(v))) /\ Cap \in Nat /\ Bound(Cardinality(Used(v))) \in Nat /\ Owing(v)' \in Nat
          BY UsedFacts, BoundFacts, OwingNext
        <4> QED
          BY <3>6, <3>7, <4>1 DEF Bounded, Bound
      <3>9. \A w \in Video : Bounded(w)'
        BY <3>5, <3>7, <3>8 DEF BoundInv, Bounded, Bound
      <3>10. ASSUME NEW a \in Answer PROVE ReadBounded(a)' /\ OneReads(a)'
        <4>1. ans'[a] = ans[a] /\ (Reading(a)' => ans[a].on # v) /\ ans[a].on \in Video
          BY <2>1, <3>2, ShareTypes DEF money, Reading
        <4>2. OneReads(a)'
          BY <2>1 DEF money, BoundInv, OneReads, Reading
        <4>3. ReadBounded(a)'
          BY <3>5, <3>7, <4>1 DEF BoundInv, ReadBounded, Reading, Bound
        <4> QED
          BY <4>2, <4>3
      <3> QED
        BY <3>9, <3>10 DEF BoundInv
    <2> QED
      BY <1>3, <2>2, <2>3 DEF ChildStep, GiveUp, PoolTakes, Point, Late, Drop, Look, Start, ReadTurn, At
  <1>4. ASSUME NEW v \in Video, TurnStep(v) \/ TurnPays(v) PROVE BoundInv'
    <2>1. CASE TurnHolds(v)
      <3>1. turn' = [turn EXCEPT ![v].st = "held"] /\ UNCHANGED money /\ Live(v)
        BY <2>1 DEF TurnHolds, TurnTo, Live
      <3>2. \A w \in Video : turn'[w].left = turn[w].left /\ (Live(w)' <=> Live(w))
        BY <1>0, <3>1 DEF TypeInv, TurnOK, Turns, Live
      <3> QED
        BY <1>k, <3>1, <3>2, OwingType DEF money, Owing
    <2>2. CASE TurnPays(v)
      <3>1. /\ turn[v].left > 0 /\ turn' = [turn EXCEPT ![v].left = @ - 1] /\ paid' = [paid EXCEPT ![v] = @ + 1]
            /\ UNCHANGED ans /\ Live(v)
        BY <2>2 DEF TurnPays, Live
      <3>2. /\ turn'[v].st = turn[v].st /\ turn'[v].left = turn[v].left - 1 /\ paid'[v] = paid[v] + 1
            /\ \A w \in Video : w # v => turn'[w] = turn[w] /\ paid'[w] = paid[w]
        BY <3>1 DEF TypeInv, TurnOK, Turns, LedgerOK
      <3>3. \A w \in Video : Owing(w)' = Owing(w)
        <4>1. Owing(v)' = Owing(v)
          BY <1>0, <3>1, <3>2 DEF Owing, Live, Turns
        <4> QED
          BY <3>2, <4>1 DEF Owing, Live
      <3> QED
        BY <1>k, <3>1, <3>3, OwingType
    <2>3. CASE TurnEnds(v)
      <3>1. turn' = [turn EXCEPT ![v].st = "over"] /\ UNCHANGED paid
        BY <2>3 DEF TurnEnds, TurnTo
      <3>2. PICK told \in 0..Cap :
                ans' = [a \in Answer |-> IF turn[v].by = a THEN [ans[a] EXCEPT !.ended = TRUE, !.cost = told] ELSE ans[a]]
        BY <2>3, EndTells DEF TypeInv
      <3>3. \A w \in Video : turn'[w].left = turn[w].left /\ (Live(w)' => Live(w))
        BY <1>0, <3>1 DEF TypeInv, TurnOK, Turns, Live
      <3>4. \A w \in Video : Owing(w)' <= Owing(w)
        BY <1>0, <3>1, <3>3 DEF Owing, Turns
      <3>5. \A a \in Answer : /\ ans'[a].on = ans[a].on /\ ans'[a].pc = ans[a].pc /\ ans'[a].blind = ans[a].blind
                              /\ ans'[a].left = ans[a].left
        BY <1>0, <3>2 DEF Requests
      <3> QED
        BY <3>4, <3>5, BoundKept DEF Reading
    <2> QED
      BY <1>4, <2>1, <2>2, <2>3 DEF TurnStep
  <1>5. ASSUME NEW c \in Caller, CallStep(c) \/ ClickStep(c) PROVE BoundInv'
    <2>1. UNCHANGED money
      BY <1>5 DEF CallStep, ReadRunning, CallNext, ClickStep, CancelClick, PauseClick, ResumeClick
    <2>2. CASE UNCHANGED turn
      BY <1>k, <1>s, <2>1, <2>2 DEF money
    <2>3. CASE CallNext(c)
      <3>1. \A w \in Video : Moves(c, w)
        BY <2>3, CallWrites DEF TypeInv
      <3>2. \A w \in Video : (Live(w)' <=> Live(w)) /\ turn'[w].left = turn[w].left
        BY <3>1 DEF Moves, Live
      <3> QED
        BY <1>k, <2>1, <3>2, OwingType DEF money, Owing
    <2> QED
      BY <1>5, <2>2, <2>3 DEF CallStep, ReadRunning, ClickStep, CancelClick, PauseClick, ResumeClick
  <1>6. ASSUME NEW a \in Answer, AnswerRead(a) PROVE BoundInv'
    <2> PICK v \in Video : v = ans[a].on
      BY ShareTypes
    <2>1. PICK left \in 1..Cap :
             /\ left = Cap - Spent(v)
             /\ ans' = [ans EXCEPT ![a] = [@ EXCEPT !.pc = "read", !.left = left, !.index = Len(answers[v]),
                                                   !.blind = \E b \in Answer : Untold(b, v)]]
      BY <1>6 DEF AnswerRead
    <2>2. /\ ans'[a].pc = "read" /\ ans'[a].left = left /\ ans'[a].on = v /\ \A b \in Answer : b # a => ans'[b] = ans[b]
      BY <1>0, <2>1 DEF TypeInv, AnswersOK, Requests
    <2>3. ans'[a].blind = \E b \in Answer : Untold(b, v)
      BY <1>0, <2>1 DEF TypeInv, AnswersOK, Requests
    <2>4. ans[a].pc = "new" /\ ~ans[a].blind /\ child[v].status = "done" /\ v \in question /\ UNCHANGED <<turn, paid>>
      BY <1>0, <1>6 DEF AnswerRead, Unended
    <2>5. \A w \in Video : Owing(w)' = Owing(w)
      BY <2>4 DEF Owing, Live
    <2>6. CASE ans'[a].blind
      <3>1. \A b \in Answer : /\ ans'[b].on = ans[b].on
                              /\ ans[b].blind /\ ans[b].pc # "read" => ans'[b].blind /\ ans'[b].pc # "read"
                              /\ Reading(b)' => Reading(b) /\ ans'[b].left = ans[b].left
        BY <2>2, <2>4, <2>6 DEF Reading
      <3> QED
        BY <1>s, <2>4, <3>1, BoundKept
    <2>7. CASE ~ans'[a].blind
      <3>1. \A b \in Answer : ans[b].on = v => ~ans[b].blind /\ ans[b].pc \in {"new", "over"}
        BY <2>3, <2>7 DEF Untold
      <3>2. Sighted(v) /\ ~Live(v)
        BY <2>4, <3>1, LiveAnswer DEF Sighted, Runs
      <3>3. paid[v] = Spent(v)
        BY <2>4, <3>1, <3>2 DEF ShareInv, VideoShare, Exact, Runs
      <3>4. Owing(v)' + left = Cap /\ Owing(v)' \in Nat
        <4>1. Owing(v) = paid[v] + 0 /\ paid[v] \in Nat /\ Cap \in Nat
          BY <1>0, <3>2, BoundFacts DEF Owing
        <4> QED
          BY <2>1, <2>5, <3>3, <4>1
      <3>5. \A w \in Video : Used(w)' = Used(w)
        BY <2>2, <2>4, <2>7 DEF Used
      <3>6. \A w \in Video : Bounded(w)'
        BY <2>5, <3>5 DEF BoundInv, Bounded, Bound
      <3>7. ReadBounded(a)' /\ OneReads(a)'
        <4>1. \A b \in Answer : b # a /\ ans[b].on = v => ~Reading(b)'
          BY <2>2, <3>1 DEF Reading
        <4>2. OneReads(a)'
          BY <2>2, <4>1 DEF OneReads
        <4>3. Cap <= Bound(Cardinality(Used(v)))
          BY UsedFacts, BoundFacts
        <4>4. Owing(v)' + ans'[a].left <= Bound(Cardinality(Used(v)'))
          BY <2>2, <3>4, <3>5, <4>3
        <4> QED
          BY <2>2, <4>2, <4>4 DEF ReadBounded, Bound
      <3>8. ASSUME NEW b \in Answer, b # a PROVE ReadBounded(b)' /\ OneReads(b)'
        <4>1. ans'[b] = ans[b] /\ ans[b].on \in Video /\ (Reading(b)' <=> Reading(b)) /\ (ans[b].on = v => ~Reading(b))
          BY <2>2, <3>1, <3>8, ShareTypes DEF Reading
        <4>2. OneReads(b)'
          BY <2>2, <4>1 DEF BoundInv, OneReads, Reading
        <4>3. ReadBounded(b)'
          BY <2>5, <3>5, <4>1 DEF BoundInv, ReadBounded, Bound
        <4> QED
          BY <4>2, <4>3
      <3> QED
        BY <3>6, <3>7, <3>8 DEF BoundInv
    <2> QED
      BY <2>6, <2>7
  <1>7. ASSUME NEW a \in Answer, AnswerStep(a) PROVE BoundInv'
    <2>1. PICK pc \in {"started", "noted", "over", "lost"} : ans' = [ans EXCEPT ![a].pc = pc] /\ ans[a].pc # "new"
      BY <1>7 DEF AnswerStep, AnswerStart, AnswerNote, AnswerSettles, AnswerGivesUp
    <2>2. /\ ans'[a].pc = pc /\ ans'[a].on = ans[a].on /\ ans'[a].left = ans[a].left
          /\ ans'[a].blind = ans[a].blind /\ \A b \in Answer : b # a => ans'[b] = ans[b]
      BY <1>0, <2>1 DEF TypeInv, AnswersOK, Requests
    <2>3. \A b \in Answer : /\ ans'[b].on = ans[b].on
                            /\ ans[b].blind /\ ans[b].pc # "read" => ans'[b].blind /\ ans'[b].pc # "read"
                            /\ Reading(b)' => Reading(b) /\ ans'[b].left = ans[b].left
      BY <2>2 DEF Reading
    <2>4. CASE UNCHANGED <<turn, paid>>
      BY <1>s, <2>3, <2>4, BoundKept
    <2>5. CASE /\ UNCHANGED paid /\ ~Live(ans[a].on) /\ ans[a].pc = "read" /\ pc = "started"
               /\ turn' = [turn EXCEPT ![ans[a].on] = [st |-> "running", by |-> a, cap |-> ans[a].left, left |-> ans[a].left]]
      <3> PICK v \in Video : v = ans[a].on
        BY ShareTypes
      <3> DEFINE n == Cardinality(Used(v))
                 m == Cardinality(Used(v)')
      <3>0. ans[a].left \in 0..Cap /\ n \in Nat /\ Bound(n) \in Nat /\ Bound(n + 1) = Bound(n) + Cap /\ Cap \in Nat /\ Owing(v) \in Nat
        BY <1>0, UsedFacts, BoundFacts, OwingType DEF Requests
      <3>1. turn'[v].left = ans[a].left /\ turn'[v].st = "running" /\ \A w \in Video : w # v => turn'[w] = turn[w]
        BY <2>5 DEF TypeInv, TurnOK
      <3>2. \A w \in Video : w # v => Owing(w)' = Owing(w)
        BY <2>5, <3>1 DEF Owing, Live
      <3>3. Owing(v)' = Owing(v) + ans[a].left
        BY <1>0, <2>5, <3>0, <3>1 DEF Owing, Live
      <3>4. \A w \in Video : w # v => Used(w)' = Used(w)
        BY <2>2, <2>5 DEF Used
      <3>5. CASE ans[a].blind
        <4>1. a \notin Used(v) /\ Used(v)' = Used(v) \cup {a}
          BY <2>2, <2>5, <3>5 DEF Used
        <4>2. m = n + 1
          BY <4>1, UsedFacts
        <4> HIDE DEF n, m
        <4>3. Owing(v) <= Bound(n)
          BY DEF BoundInv, Bounded, n
        <4>4. Owing(v)' <= Bound(m)
          BY <3>0, <3>3, <4>2, <4>3
        <4>5. ASSUME NEW w \in Video PROVE Bounded(w)'
          <5>1. CASE w = v
            BY <4>4, <5>1 DEF Bounded, Bound, m
          <5>2. CASE w # v
            BY <3>2, <3>4, <5>2 DEF BoundInv, Bounded, Bound
          <5> QED
            BY <5>1, <5>2
        <4>6. ASSUME NEW b \in Answer PROVE ReadBounded(b)' /\ OneReads(b)'
          <5>1. OneReads(b)'
            BY <2>3 DEF BoundInv, OneReads
          <5>2. CASE Reading(b)'
            <6>1. Reading(b) /\ ans'[b].left = ans[b].left /\ ans'[b].on = ans[b].on /\ ans[b].on \in Video /\ ans[b].left \in Nat
              BY <2>3, <5>2, ShareTypes DEF Requests
            <6>2. CASE ans[b].on = v
              <7>1. Owing(v) + ans[b].left <= Bound(n)
                BY <6>1, <6>2 DEF BoundInv, ReadBounded, n
              <7>2. Owing(v)' + ans[b].left <= Bound(m)
                BY <3>0, <3>3, <4>2, <6>1, <7>1
              <7> QED
                BY <5>1, <6>1, <6>2, <7>2 DEF ReadBounded, Bound, m
            <6>3. CASE ans[b].on # v
              BY <3>2, <3>4, <5>1, <6>1, <6>3 DEF BoundInv, ReadBounded, Bound
            <6> QED
              BY <6>2, <6>3
          <5>3. CASE ~Reading(b)'
            BY <5>1, <5>3 DEF ReadBounded
          <5> QED
            BY <5>1, <5>2, <5>3
        <4> QED
          BY <4>5, <4>6 DEF BoundInv
      <3>6. CASE ~ans[a].blind
        <4>1. Used(v)' = Used(v)
          BY <2>2, <2>5, <3>6 DEF Used
        <4>2. Reading(a) /\ ~Reading(a)'
          BY <2>2, <2>5, <3>6 DEF Reading
        <4>3. Owing(v)' <= Bound(n)
          BY <3>3, <4>2 DEF BoundInv, ReadBounded
        <4>5. ASSUME NEW w \in Video PROVE Bounded(w)'
          <5>1. CASE w = v
            BY <4>1, <4>3, <5>1 DEF Bounded, Bound
          <5>2. CASE w # v
            BY <3>2, <3>4, <5>2 DEF BoundInv, Bounded, Bound
          <5> QED
            BY <5>1, <5>2
        <4>6. ASSUME NEW b \in Answer PROVE ReadBounded(b)' /\ OneReads(b)'
          <5>1. OneReads(b)'
            BY <2>3 DEF BoundInv, OneReads
          <5>2. CASE Reading(b)'
            <6>1. Reading(b) /\ ans'[b].left = ans[b].left /\ ans'[b].on = ans[b].on /\ ans[b].on \in Video
              BY <2>3, <5>2, ShareTypes
            <6>2. ans[b].on # v
              BY <4>2, <5>2, <6>1 DEF BoundInv, OneReads
            <6> QED
              BY <3>2, <3>4, <5>1, <6>1, <6>2 DEF BoundInv, ReadBounded, Bound
          <5>3. CASE ~Reading(b)'
            BY <5>1, <5>3 DEF ReadBounded
          <5> QED
            BY <5>1, <5>2, <5>3
        <4> QED
          BY <4>5, <4>6 DEF BoundInv
      <3> QED
        BY <3>5, <3>6
    <2>6. UNCHANGED paid /\ (AnswerStart(a) \/ UNCHANGED turn)
      BY <1>7 DEF AnswerStep, AnswerStart, AnswerNote, AnswerSettles, AnswerGivesUp
    <2>7. CASE AnswerStart(a)
      <3>1. CASE UNCHANGED turn
        BY <2>4, <2>6, <3>1
      <3>2. CASE /\ ~Live(ans[a].on) /\ ans' = [ans EXCEPT ![a].pc = "started"]
                 /\ turn' = [turn EXCEPT ![ans[a].on] = [st |-> "running", by |-> a, cap |-> ans[a].left, left |-> ans[a].left]]
        <4>1. ans[a].pc = "read"
          BY <2>7 DEF AnswerStart
        <4>2. pc = "started"
          BY <1>0, <2>2, <3>2 DEF TypeInv, AnswersOK, Requests
        <4> QED
          BY <2>5, <2>6, <3>2, <4>1, <4>2
      <3> QED
        BY <2>7, <3>1, <3>2 DEF AnswerStart
    <2> QED
      BY <2>4, <2>6, <2>7
  <1> QED
    BY <1>1, <1>2, <1>3, <1>4, <1>5, <1>6, <1>7, NextCases

\* A video costs its share of the batch's cap, and at most one share more for each answer that was let in
\* while the record did not say what another had cost (answer_batch_video, _answer_settles), over pauses,
\* cancels, refused answers, waits given up, crashes and restarts.
THEOREM ShareHolds == Spec => []PaidPerBlindAnswer
  <1> DEFINE Inv == TypeInv /\ LastInv /\ ResumeInv /\ OwnInv /\ ShareInv /\ BoundInv
  <1>1. Init => Inv
    BY InitTypes, InitLast, InitResume, InitOwn, InitShare, InitBound
  <1>2. Inv /\ [Next]_vars => Inv'
    <2>1. Inv /\ [Next]_vars => TypeInv' /\ LastInv'
      BY NextLast, NextCases, BatchTypes, ThreadTypes, TurnTypes, RouteTypes, AnswerTypes, TypesStutter
    <2>2. Inv /\ [Next]_vars => ResumeInv'
      BY NextCases, BatchResume, ThreadResume, TurnResume, RouteResume, AnswerResume, ResumeStutter
    <2>3. Inv /\ [Next]_vars => OwnInv' /\ ShareInv' /\ BoundInv'
      BY <2>1, NextOwn, NextShare, NextBound DEF ResumeInv
    <2> QED
      BY <2>1, <2>2, <2>3
  <1>3. Inv => PaidPerBlindAnswer
    <2> SUFFICES ASSUME TypeInv, BoundInv, NEW v \in Video
                 PROVE  paid[v] <= Cap * (1 + Cardinality({a \in Answer : ans[a].on = v /\ ans[a].blind}))
      BY DEF PaidPerBlindAnswer
    <2> DEFINE s == Used(v)
               t == {a \in Answer : ans[a].on = v /\ ans[a].blind}
    <2>1. s \in SUBSET Answer /\ t \in SUBSET Answer /\ s \subseteq t
      BY DEF Used
    <2>2. Bounded(v)
      BY DEF BoundInv
    <2> HIDE DEF s, t
    <2>3. Cardinality(s) \in Nat /\ Cardinality(t) \in Nat /\ Bound(Cardinality(s)) <= Bound(Cardinality(t))
      BY <2>1, UsedGrows
    <2>4. Owing(v) <= Bound(Cardinality(s)) /\ paid[v] \in Nat /\ Owing(v) \in Nat /\ paid[v] <= Owing(v)
      BY <2>2, OwingType DEF Bounded, s
    <2>5. Bound(Cardinality(s)) \in Nat /\ Bound(Cardinality(t)) \in Nat
      BY <2>3, BoundFacts
    <2>6. paid[v] <= Bound(Cardinality(t))
      BY <2>3, <2>4, <2>5
    <2> QED
      BY <2>6 DEF Bound, t
  <1> QED
    BY <1>1, <1>2, <1>3, PTL DEF Spec
==============================================================================
