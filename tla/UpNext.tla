-------------------------------- MODULE UpNext --------------------------------
(***************************************************************************)
(* Up next: the changes that wait on one busy video (jobs/queue.py), and   *)
(* what api/main.py does to start the next one when the video lets go.     *)
(*                                                                         *)
(* Every release of the lock tells a listener, _after_release, once its    *)
(* transaction is over; the listener ends the card of the change that ran  *)
(* and has the pool run _run_next, which claims the first change waiting   *)
(* and takes the lock for it.  Both are threads of several steps here:     *)
(* `tell` and `start` hold where they stand.  With ThreadsArePrompt one    *)
(* thread goes through its steps before another does and before a change   *)
(* gets anywhere; the user clicks when he likes.                           *)
(*                                                                         *)
(* The lock itself is LockTable's: here it is only whose change holds the  *)
(* video.  `work` is what really became of each change, which the code     *)
(* keeps nowhere; the cards of the editor show `status`.                   *)
(*                                                                         *)
(* X_Slip is a slip in the code X models (see LockTable).                  *)
(***************************************************************************)
EXTENDS Integers, Sequences, FiniteSets, SequencesExt

CONSTANTS
    Item,              \* queued changes, each added once
    Goal,              \* those that are words for Voltage; the others are control presses
    None,
    Slot,              \* listeners, and runs of _run_next, that may be under way at once
    MAX,               \* how many may wait
    MaxClicks,         \* bound on changes made directly in the editor
    MaxCrashes,        \* bound on crashes
    ThreadsArePrompt,
    CallsMayRaise      \* whether taking the lock may fail otherwise than busy (the database)

ASSUME QueueAssumption ==
    /\ Goal \subseteq Item /\ None \notin Item \cup {"turn", "change"} /\ Item \cap {"turn", "change"} = {}
    /\ MAX \in Nat \ {0} /\ MaxClicks \in Nat /\ MaxCrashes \in Nat
    /\ ThreadsArePrompt \in BOOLEAN /\ CallsMayRaise \in BOOLEAN

VARIABLES
    status,    \* [Item -> the status column]
    line,      \* the items queued, by position
    paused,    \* settings.queue_paused
    question,  \* the plan's question is open (_question_waits)
    lock,      \* whose change holds the video, and how
    tell,      \* [Slot -> where an _after_release stands]
    start,     \* [Slot -> where a _run_next stands]
    due,       \* runs of _run_next the pool has not begun (it drops none; two are as good as more)
    adding,    \* an add_to_queue that has not looked at the lock yet
    work,      \* [Item -> what really became of it]
    clicks, up, crashes

queue == <<status, line, paused>>
threads == <<tell, start, due, adding>>
bounds == <<clicks, up, crashes>>
vars == <<queue, question, lock, threads, work, bounds>>

Started == {"running", "paused"}
Ended == {"done", "stopped", "failed"}
Outcomes == {"done", "stopped", "failed"}
Direct == {"turn", "change"}           \* made in the editor, not from Up next
Free == [by |-> None, at |-> "free"]
QuietTell == [pc |-> "idle", outcome |-> "done", run |-> None]
QuietStart == [pc |-> "idle", item |-> None]

TypeOK ==
    /\ status \in [Item -> {"new", "queued", "removed"} \cup Started \cup Ended]
    /\ line \in Seq(Item) /\ Len(line) <= MAX
    /\ ToSet(line) = {i \in Item : status[i] = "queued"} /\ IsInjective(line)
    /\ paused \in BOOLEAN /\ question \in BOOLEAN
    /\ lock \in [by : Item \cup Direct \cup {None}, at : {"free", "starting", "working", "gate", "paused"}]
    /\ tell \in [Slot -> [pc : {"idle", "told", "finish", "next"}, outcome : Outcomes, run : Item \cup {None}]]
    /\ start \in [Slot -> [pc : {"idle", "claim", "door"}, item : Item \cup {None}]]
    /\ due \in 0..2 /\ adding \in BOOLEAN
    /\ work \in [Item -> {"none", "on", "asks", "refused", "lost"} \cup Outcomes]
    /\ clicks \in 0..MaxClicks /\ up \in BOOLEAN /\ crashes \in 0..MaxCrashes

Init ==
    /\ status = [i \in Item |-> "new"] /\ line = <<>> /\ paused = FALSE
    /\ question = FALSE /\ lock = Free
    /\ tell = [s \in Slot |-> QuietTell] /\ start = [s \in Slot |-> QuietStart]
    /\ due = 0 /\ adding = FALSE
    /\ work = [i \in Item |-> "none"]
    /\ clicks = 0 /\ up = TRUE /\ crashes = 0

Running == {i \in Item : status[i] \in Started}
TheRunning == IF Running = {} THEN None ELSE CHOOSE i \in Running : TRUE

IsTurn(who) == who \in Goal \cup {"turn"}
MoreDue == IF due < 2 THEN due + 1 ELSE due

Busy == {s \in Slot : tell[s].pc # "idle" \/ start[s].pc # "idle"}
ThreadMay(s) == up /\ (ThreadsArePrompt => Busy \subseteq {s} /\ ~adding)
ChangeMay == up /\ (ThreadsArePrompt => Busy = {} /\ ~adding)

\* What becomes of the change that holds the video.
Becomes(how) == work' = IF lock.by \in Item THEN [work EXCEPT ![lock.by] = how] ELSE work

\* VideoLocks.release with its outcome: the row goes, then _tell.
LetGo(outcome) ==
    /\ lock' = Free
    /\ \E s \in Slot : /\ tell[s].pc = "idle" /\ start[s].pc = "idle"
                       /\ tell' = [tell EXCEPT ![s] = [pc |-> "told", outcome |-> outcome, run |-> None]]
------------------------------------------------------------------------------
(* The user's side: add, remove, reorder, clear, run next. *)

\* add_to_queue: one transaction counts and inserts; then it looks whether to start at once.
Add(i) ==
    /\ up /\ ~adding /\ status[i] = "new" /\ Len(line) < MAX
    /\ status' = [status EXCEPT ![i] = "queued"] /\ line' = Append(line, i)
    /\ adding' = TRUE
    /\ UNCHANGED <<paused, question, lock, tell, start, due, work, bounds>>

AddLook ==
    /\ up /\ adding
    /\ due' = IF lock = Free /\ ~paused THEN MoreDue ELSE due
    /\ adding' = FALSE
    /\ UNCHANGED <<queue, question, lock, tell, start, work, bounds>>

\* remove: only what is still queued.
RemoveQueued(i) ==
    /\ up /\ status[i] = "queued"
    /\ status' = [status EXCEPT ![i] = "removed"]
    /\ \E k \in DOMAIN line : line[k] = i /\ line' = RemoveAt(line, k)
    /\ UNCHANGED <<paused, question, lock, threads, work, bounds>>

\* reorder: what waits, in any order.
Reorder ==
    /\ up
    /\ line' \in {l \in [DOMAIN line -> ToSet(line)] : ToSet(l) = ToSet(line)}
    /\ UNCHANGED <<status, paused, question, lock, threads, work, bounds>>

Clear ==
    /\ up /\ (line # <<>> \/ paused)
    /\ status' = [i \in Item |-> IF status[i] = "queued" THEN "removed" ELSE status[i]]
    /\ line' = <<>> /\ paused' = FALSE
    /\ UNCHANGED <<question, lock, threads, work, bounds>>

\* run_next_queued.
RunNext ==
    /\ up /\ paused
    /\ paused' = FALSE
    /\ due' = IF lock = Free THEN MoreDue ELSE due
    /\ UNCHANGED <<status, line, question, lock, tell, start, adding, work, bounds>>

\* A change made in the editor: a turn may answer the go its person's gate waits for.
Click(who) ==
    /\ up /\ clicks < MaxClicks
    /\ lock = Free \/ (who = "turn" /\ lock.at = "gate")
    /\ lock' = [by |-> who, at |-> "starting"]
    /\ clicks' = clicks + 1
    /\ work' = IF lock.by \in Item THEN [work EXCEPT ![lock.by] = "asks"] ELSE work
    /\ UNCHANGED <<queue, question, threads, up, crashes>>
------------------------------------------------------------------------------
(* The change that holds the video. *)

\* _locked_turn closes the open question, or a newer turn does; a refusal comes before that.
Begin ==
    /\ up /\ lock.at = "starting"
    /\ lock' = [lock EXCEPT !.at = "working"]
    /\ question' = IF IsTurn(lock.by) THEN FALSE ELSE question
    /\ UNCHANGED <<queue, threads, work, bounds>>

Refuse ==
    /\ ChangeMay /\ lock.at = "starting"
    /\ LetGo("failed") /\ Becomes("failed")
    /\ UNCHANGED <<queue, question, start, due, adding, bounds>>

\* It ends: done, failed or stopped.  An Add or a discard may answer the open question itself
\* (_resolve_question).
End(outcome) ==
    /\ ChangeMay /\ lock.at = "working"
    /\ LetGo(outcome) /\ Becomes(outcome)
    /\ question' \in (IF IsTurn(lock.by) THEN {question} ELSE {question, FALSE})
    /\ UNCHANGED <<queue, start, due, adding, bounds>>

\* A turn ends on a question; with a go the lock waits too.
Ask ==
    /\ ChangeMay /\ lock.at = "working" /\ IsTurn(lock.by)
    /\ LetGo("done") /\ Becomes("asks") /\ question' = TRUE
    /\ UNCHANGED <<queue, start, due, adding, bounds>>

AskForGo ==
    /\ ChangeMay /\ lock.at = "working" /\ IsTurn(lock.by)
    /\ lock' = [lock EXCEPT !.at = "gate"] /\ Becomes("asks") /\ question' = TRUE
    /\ UNCHANGED <<queue, threads, bounds>>

\* stop_video on a gate: the question is dropped, the lock goes.
StopGate ==
    /\ ChangeMay /\ lock.at = "gate"
    /\ LetGo("stopped") /\ question' = FALSE /\ Becomes("stopped")
    /\ UNCHANGED <<queue, start, due, adding, bounds>>

\* _hold_paused and its end: the running card is paused with its turn (VideoQueue.set_paused).
HoldTurn ==
    /\ ChangeMay /\ lock.at = "working" /\ IsTurn(lock.by)
    /\ lock' = [lock EXCEPT !.at = "paused"]
    /\ status' = [i \in Item |-> IF status[i] = "running" THEN "paused" ELSE status[i]]
    /\ UNCHANGED <<line, paused, question, threads, work, bounds>>

CarryOn ==
    /\ ChangeMay /\ lock.at = "paused"
    /\ lock' = [lock EXCEPT !.at = "working"]
    /\ status' = [i \in Item |-> IF status[i] = "paused" THEN "running" ELSE status[i]]
    /\ UNCHANGED <<line, paused, question, threads, work, bounds>>
------------------------------------------------------------------------------
(* _after_release. *)

Tell(s, t) == tell' = [tell EXCEPT ![s] = t]

\* The change that ran, if any, ends with the release, unless its turn ended on a question.
TellRead(s) ==
    /\ ThreadMay(s) /\ tell[s].pc = "told"
    /\ IF tell[s].outcome = "done" /\ TheRunning # None /\ question
       THEN Tell(s, QuietTell)
       ELSE Tell(s, [tell[s] EXCEPT !.pc = "finish", !.run = TheRunning])
    /\ UNCHANGED <<queue, question, lock, start, due, adding, work, bounds>>

\* VideoQueue.finish: only what is started.
TellFinish(s) ==
    /\ ThreadMay(s) /\ tell[s].pc = "finish"
    /\ status' = [i \in Item |-> IF i = tell[s].run /\ status[i] \in Started THEN tell[s].outcome ELSE status[i]]
    /\ Tell(s, [tell[s] EXCEPT !.pc = "next"])
    /\ UNCHANGED <<line, paused, question, lock, start, due, adding, work, bounds>>

\* After a success the next one starts; after anything else the queue pauses.
TellNext_Slip(s) ==
    /\ ThreadMay(s) /\ tell[s].pc = "next"
    /\ due' = IF tell[s].outcome = "done" /\ tell[s].run # None /\ line # <<>> /\ ~paused THEN MoreDue ELSE due
    /\ paused' = (paused \/ (tell[s].outcome # "done" /\ line # <<>>))
    /\ Tell(s, QuietTell)
    /\ UNCHANGED <<status, line, question, lock, start, adding, work, bounds>>
TellNext(s) ==
    /\ ThreadMay(s) /\ tell[s].pc = "next"
    /\ due' = IF tell[s].outcome = "done" /\ line # <<>> /\ ~paused THEN MoreDue ELSE due
    /\ paused' = (paused \/ (tell[s].outcome # "done" /\ line # <<>>))
    /\ Tell(s, QuietTell)
    /\ UNCHANGED <<status, line, question, lock, start, adding, work, bounds>>
------------------------------------------------------------------------------
(* _run_next. *)

Start(s, t) == start' = [start EXCEPT ![s] = t]

\* Nothing starts on a video that is held, or while the queue is paused.
StartLook_Slip(s) ==
    /\ ThreadMay(s) /\ due > 0 /\ tell[s].pc = "idle" /\ start[s].pc = "idle"
    /\ due' = due - 1
    /\ Start(s, IF lock = Free THEN [pc |-> "claim", item |-> None] ELSE QuietStart)
    /\ UNCHANGED <<queue, question, lock, tell, adding, work, bounds>>
StartLook(s) ==
    /\ ThreadMay(s) /\ due > 0 /\ tell[s].pc = "idle" /\ start[s].pc = "idle"
    /\ due' = due - 1
    /\ Start(s, IF lock = Free /\ ~paused THEN [pc |-> "claim", item |-> None] ELSE QuietStart)
    /\ UNCHANGED <<queue, question, lock, tell, adding, work, bounds>>

\* claim_next: the first waiting one, none while one is started.
StartClaim_Slip(s) ==
    /\ ThreadMay(s) /\ start[s].pc = "claim"
    /\ IF line = <<>>
       THEN Start(s, QuietStart) /\ UNCHANGED <<status, line>>
       ELSE /\ Start(s, [pc |-> "door", item |-> Head(line)])
            /\ status' = [status EXCEPT ![Head(line)] = "running"] /\ line' = Tail(line)
    /\ UNCHANGED <<paused, question, lock, tell, due, adding, work, bounds>>
StartClaim(s) ==
    /\ ThreadMay(s) /\ start[s].pc = "claim"
    /\ IF Running # {} \/ line = <<>>
       THEN Start(s, QuietStart) /\ UNCHANGED <<status, line>>
       ELSE /\ Start(s, [pc |-> "door", item |-> Head(line)])
            /\ status' = [status EXCEPT ![Head(line)] = "running"] /\ line' = Tail(line)
    /\ UNCHANGED <<paused, question, lock, tell, due, adding, work, bounds>>

\* lock_held: the video is free, or waits for a go of the person who queued these words.
StartTake(s) ==
    LET i == start[s].item IN
    /\ ThreadMay(s) /\ start[s].pc = "door"
    /\ lock = Free \/ (i \in Goal /\ lock.at = "gate")
    /\ lock' = [by |-> i, at |-> "starting"]
    /\ work' = [work EXCEPT ![i] = "on"]
    /\ Start(s, QuietStart)
    /\ UNCHANGED <<queue, question, tell, due, adding, bounds>>

\* Refused at the door: nothing let go to end it, so it is ended here, and the listener's work done.
StartRefused(s) ==
    LET i == start[s].item IN
    /\ ThreadMay(s) /\ start[s].pc = "door" /\ lock # Free
    /\ status' = [status EXCEPT ![i] = IF @ = "running" THEN "failed" ELSE @]
    /\ Tell(s, IF status[i] = "running" THEN [pc |-> "told", outcome |-> "failed", run |-> None] ELSE QuietTell)
    /\ Start(s, QuietStart)
    /\ work' = [work EXCEPT ![i] = "refused"]
    /\ UNCHANGED <<line, paused, question, lock, due, adding, bounds>>

\* Anything else that goes wrong at the door is logged.
StartBreaks(s) ==
    /\ CallsMayRaise /\ ThreadMay(s) /\ start[s].pc = "door"
    /\ Start(s, QuietStart)
    /\ work' = [work EXCEPT ![start[s].item] = "lost"]
    /\ UNCHANGED <<queue, question, lock, tell, due, adding, bounds>>
------------------------------------------------------------------------------
Crash ==
    /\ up /\ crashes < MaxCrashes
    /\ up' = FALSE /\ crashes' = crashes + 1
    /\ tell' = [s \in Slot |-> QuietTell] /\ start' = [s \in Slot |-> QuietStart]
    /\ due' = 0 /\ adding' = FALSE
    /\ work' = [i \in Item |-> IF work[i] = "on" \/ (\E s \in Slot : start[s].item = i) THEN "lost" ELSE work[i]]
    /\ UNCHANGED <<queue, question, lock, clicks>>

\* clear_leftovers, then _recover_queue: what was started ends failed unless it waits on the user.
Restart ==
    LET kept == lock.at \in {"gate", "paused"}
        left == IF kept \/ question THEN {} ELSE Running
    IN  /\ ~up /\ up' = TRUE
        /\ lock' = IF kept THEN lock ELSE Free
        /\ status' = [i \in Item |-> IF i \in left THEN "failed" ELSE status[i]]
        /\ paused' = (paused \/ (left # {} /\ line # <<>>))
        /\ UNCHANGED <<line, question, threads, work, clicks, crashes>>

UserStep ==
    \/ \E i \in Item : Add(i) \/ RemoveQueued(i)
    \/ Reorder \/ Clear \/ RunNext
    \/ \E who \in Direct : Click(who)
    \/ StopGate \/ HoldTurn \/ CarryOn

WorkStep == Begin \/ Refuse \/ (\E o \in Outcomes : End(o)) \/ Ask \/ AskForGo

ThreadStep(s) ==
    \/ TellRead(s) \/ TellFinish(s) \/ TellNext(s)
    \/ StartLook(s) \/ StartClaim(s) \/ StartTake(s) \/ StartRefused(s) \/ StartBreaks(s)

Next == UserStep \/ WorkStep \/ AddLook \/ (\E s \in Slot : ThreadStep(s)) \/ Crash \/ Restart

Spec == Init /\ [][Next]_vars

\* Threads run, a change that works ends, a held turn is resumed or stops itself (AUTO_STOP_S), and
\* a server that went down comes back.  Nobody has to click.
Fairness ==
    /\ WF_vars(AddLook \/ Restart \/ \E s \in Slot : ThreadStep(s))
    /\ WF_vars(WorkStep) /\ WF_vars(CarryOn)

FairSpec == Spec /\ Fairness
------------------------------------------------------------------------------
(* Properties *)

\* One change at a time, never merged: whatever listeners and runners race, at most one card is
\* started (queue.py: claim_next, "none while one runs").
OneStarted == Cardinality(Running) <= 1

\* A card tells the truth.  It never reads done for a change that failed, was stopped, was refused
\* or still works (one that a crash left may be ended as done by the next change: README, known
\* departures); and a change whose turn holds the video, or whose open question is its own, has a
\* started card, so that the rest waits (DECISIONS 3.3: "the card stays Running and the queue stops
\* at it").
CardsAreTrue ==
    \A i \in Item :
        /\ crashes = 0 /\ status[i] = "done" => work[i] \in {"done", "asks", "lost"}
        /\ lock.by = i /\ lock.at \in {"working", "gate", "paused"} => status[i] \in Started

\* After a failure or a Stop the queue pauses until the user says Run next or Clear queue.
PausedStartsNothing ==
    [][paused => \A i \in Item : status[i] = "queued" => status'[i] # "running"]_vars

\* "After a success the next one starts by itself": no change is forgotten behind a video that
\* is Ready, and a started one does not hold up the rest for ever.  A change is over in the end,
\* or removed, unless it waits in a queue that is paused, or on the user (a question, a go, a pause).
WaitsOnUser == question \/ lock.at \in {"gate", "paused"}
QueueMoves ==
    \A i \in Item :
        status[i] \in {"queued"} \cup Started
        ~> status[i] \in Ended \cup {"removed"} \/ (status[i] = "queued" /\ paused) \/ WaitsOnUser
==============================================================================
