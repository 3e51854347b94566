----------------------------- MODULE TurnControl -----------------------------
(***************************************************************************)
(* One video's turns under Stop, Pause and Resume (api/main.py, the agent  *)
(* loop's pause points, jobs/pause.py), through a crash and a restart.     *)
(*                                                                         *)
(* A run is one pass of _locked_turn: the request that starts it and the   *)
(* worker that does it.  A turn is known by the id of its first run; a     *)
(* turn resumed after a restart is a new run of the same turn.             *)
(*                                                                         *)
(* The routes of Stop, Pause and Resume and the watcher of left pauses are *)
(* each one thread that reads, then acts on what it read.  Nothing happens *)
(* between the steps of an Atomic one: what that buys is what a lock       *)
(* around the route would.                                                 *)
(*                                                                         *)
(* The video's edit set is the set of runs whose additions are in it.      *)
(* X_Slip is a slip in the code X models (see LockTable).                  *)
(***************************************************************************)
EXTENDS Integers, FiniteSets

CONSTANTS
    Run,               \* passes of _locked_turn, each used once
    Ready,             \* no row in video_locks
    MaxCalls,          \* TurnBudget.calls: steps of one run
    MaxFaults,         \* bound on crashes and calls that raise
    Clicks,            \* which of "stop", "pause", "resume", "watch" come
    Atomic             \* the clicks whose routes run with nothing in between

ASSUME ControlAssumption ==
    /\ Run # {} /\ MaxCalls \in Nat /\ MaxFaults \in Nat
    /\ Clicks \subseteq {"stop", "pause", "resume", "watch"} /\ Atomic \subseteq Clicks

VARIABLES
    lock,      \* the video's row: holder and the edit set Stop puts back
    edits,     \* the runs whose additions are in the video
    run,       \* each run's place and what it knows
    stops,     \* _stops: turns the user asked to stop
    asked,     \* Pauses._asked
    holding,   \* Pauses._holding
    view,      \* settings.turn_view, as the editor shows the last turn
    paused,    \* settings.paused: "none", or a pause whose deadline is ahead or past
    stopper, pauser, resumer, watcher,   \* the route threads and _watch_pauses
    up, faults

server == <<stops, asked, holding>>
clicks == <<stopper, pauser, resumer, watcher>>
machine == <<up, faults>>
vars == <<lock, edits, run, server, view, paused, clicks, machine>>

Starting == {"taken", "made", "handed", "cleared", "shown"}
Looping == {"point", "check", "step", "told"}
Pausing == {"hold", "holding", "held", "leave", "back", "unhold"}
Ending == {"outcome", "final", "close", "shut", "letgo"}
Places == {"new", "over", "lost"} \cup Starting \cup Looping \cup Pausing \cup Ending

Key == [kind : {"req", "turn", "pause", "gate"}, id : Run]
Row == [key : Key, shot : SUBSET Run]
View == [turn : Run, status : {"none", "running", "stopping", "paused", "done", "failed"}, pausing : BOOLEAN]
Click == [pc : {"idle", "looked", "put", "drop", "video", "mark", "answer", "ask", "restart"},
          lock : Row \cup {Ready}, view : View]

By(kind, r) == [kind |-> kind, id |-> r]
Held(key) == lock # Ready /\ lock.key = key
PausedRow(l) == l # Ready /\ l.key.kind = "pause"
GateRow(l) == l # Ready /\ l.key.kind = "gate"
RequestRow(l) == l # Ready /\ l.key.kind = "req"

TypeOK ==
    /\ lock \in Row \cup {Ready}
    /\ edits \in SUBSET Run
    /\ run \in [Run -> [pc : Places, turn : Run, ticket : Key, snap : SUBSET Run, calls : 0..MaxCalls,
                        out : {"none", "done", "gate", "error", "stopped"}, halted : BOOLEAN, seen : View]]
    /\ stops \in SUBSET Run /\ asked \in SUBSET Run /\ holding \in SUBSET Run
    /\ view \in View
    /\ paused \in {"none", "ahead", "past"}
    /\ \A c \in {stopper, pauser, resumer, watcher} : c \in Click
    /\ up \in BOOLEAN /\ faults \in 0..MaxFaults

NoView == [turn |-> CHOOSE r \in Run : TRUE, status |-> "none", pausing |-> FALSE]
Idle == [pc |-> "idle", lock |-> Ready, view |-> NoView]
Fresh(r) == [pc |-> "new", turn |-> r, ticket |-> By("req", r), snap |-> {}, calls |-> MaxCalls,
             out |-> "none", halted |-> FALSE, seen |-> NoView]

Init ==
    /\ lock = Ready /\ edits = {}
    /\ run = [r \in Run |-> Fresh(r)]
    /\ stops = {} /\ asked = {} /\ holding = {}
    /\ view = NoView /\ paused = "none"
    /\ stopper = Idle /\ pauser = Idle /\ resumer = Idle /\ watcher = Idle
    /\ up = TRUE /\ faults = 0

\* The route of Resume is busy until the run it starts is on the pool.
Resuming == {r \in Run : run[r].pc \in Starting /\ run[r].ticket.kind = "pause"}
Route == [stop |-> stopper, pause |-> pauser, resume |-> resumer, watch |-> watcher]
NoneOf(names, R) ==
    /\ \A n \in names : Route[n].pc = "idle"
    /\ "resume" \in names => Resuming \subseteq R

\* A step of a run, a click and a step of a route may come while no atomic route is in the middle
\* of its own.
MayStep(r) == up /\ NoneOf(Atomic, {r})
MayClick == up /\ NoneOf(Atomic, {})
At(name, pc) == up /\ Route[name].pc = pc /\ NoneOf(Atomic \ {name}, {})

\* The rows after hand_in and release.
Hand(old, new) == IF Held(old) THEN [lock EXCEPT !.key = new] ELSE lock
Release(key) == IF Held(key) THEN Ready ELSE lock

\* _restore_snapshot: rows added since go; a row that is gone does not come back.
Restore(shot) == edits \cap shot

\* JobStore: a run's job is not done.
Live(r) == run[r].pc \in (Starting \ {"taken"}) \cup Looping \cup Pausing \cup Ending

\* _turn_view: a turn the server lost reads as failed.
SeenView ==
    IF (\A r \in Run : ~Live(r))
       /\ (view.status \in {"running", "stopping"} \/ (view.status = "paused" /\ ~PausedRow(lock)))
    THEN [view EXCEPT !.status = "failed"] ELSE view

\* The database, the pool or the disk refuses a call.
Raises == faults < MaxFaults /\ faults' = faults + 1

Go(r, pc) == run' = [run EXCEPT ![r].pc = pc]

\* A run that is over or lost: only its turn and how it ended matter.
Closed(r, pc, out) == [Fresh(r) EXCEPT !.pc = pc, !.turn = run[r].turn, !.out = out, !.calls = 0]
------------------------------------------------------------------------------
(* The request that starts a turn: take_turn, _start_turn, _locked_turn. *)

\* lock_held with over_gate: a turn answers the go its person's gate waits for.
TakeVideo_Slip(r) ==
    /\ MayStep(r) /\ run[r].pc = "new"
    /\ lock = Ready \/ GateRow(lock) \/ PausedRow(lock)
    /\ lock' = [key |-> By("req", r), shot |-> {}]
    /\ Go(r, "taken")
    /\ UNCHANGED <<edits, server, view, paused, clicks, machine>>
TakeVideo(r) ==
    /\ MayStep(r) /\ run[r].pc = "new"
    /\ lock = Ready \/ GateRow(lock)
    /\ lock' = [key |-> By("req", r), shot |-> {}]
    /\ Go(r, "taken")
    /\ UNCHANGED <<edits, server, view, paused, clicks, machine>>

\* jobs.create; a route that refuses before it (no consent, no text) lets go of the video.
MakeJob(r) ==
    /\ MayStep(r) /\ run[r].pc = "taken"
    /\ \/ Go(r, "made") /\ UNCHANGED lock
       \/ run' = [run EXCEPT ![r] = Closed(r, "over", "none")] /\ lock' = Release(By("req", r))
    /\ UNCHANGED <<edits, server, view, paused, clicks, machine>>

\* ticket.hand: the lock passes to the turn with the snapshot Stop puts back; a carried-on turn
\* keeps the one it had.  What the hand returned is not looked at.
HandTurn(r) ==
    LET carried == run[r].ticket.kind = "pause"
        shot == IF carried THEN run[r].snap ELSE edits
    IN  /\ MayStep(r) /\ run[r].pc = "made"
        /\ lock' = IF Held(run[r].ticket) THEN [key |-> By("turn", r), shot |-> shot] ELSE lock
        /\ run' = [run EXCEPT ![r].pc = "handed", ![r].snap = shot]
        /\ UNCHANGED <<edits, server, view, paused, clicks, machine>>

\* _stops.discard, pauses.forget.
ForgetClicks(r) ==
    /\ MayStep(r) /\ run[r].pc = "handed"
    /\ stops' = stops \ {run[r].turn} /\ asked' = asked \ {run[r].turn}
    /\ Go(r, "cleared")
    /\ UNCHANGED <<lock, edits, holding, view, paused, clicks, machine>>

ShowRunning(r) ==
    /\ MayStep(r) /\ run[r].pc = "cleared"
    /\ view' = [turn |-> run[r].turn, status |-> "running", pausing |-> FALSE]
    /\ Go(r, "shown")
    /\ UNCHANGED <<lock, edits, server, paused, clicks, machine>>

\* runner.submit; when it raises, the job is failed and the lock let go.
Submit(r) ==
    /\ MayStep(r) /\ run[r].pc = "shown"
    /\ \/ Go(r, "point") /\ UNCHANGED <<lock, faults>>
       \/ /\ Raises
          /\ run' = [run EXCEPT ![r] = Closed(r, "over", "error")]
          /\ lock' = Release(By("turn", r))
    /\ UNCHANGED <<edits, server, view, paused, clicks, up>>
------------------------------------------------------------------------------
(* The worker: the agent loop between its pause points, then the end of the turn. *)

\* _pause_point: begin comes before the lock reads paused.
Point(r) ==
    LET t == run[r].turn IN
    /\ MayStep(r) /\ run[r].pc = "point"
    /\ IF t \in asked /\ t \notin stops
       THEN holding' = holding \cup {t} /\ Go(r, "hold")
       ELSE UNCHANGED holding /\ Go(r, "check")
    /\ UNCHANGED <<lock, edits, stops, asked, view, paused, clicks, machine>>

\* stop_requested, before every Claude request and every tool call.
Check(r) ==
    /\ MayStep(r) /\ run[r].pc = "check"
    /\ IF run[r].turn \in stops
       THEN run' = [run EXCEPT ![r].pc = "outcome", ![r].out = "stopped"]
       ELSE Go(r, "step")
    /\ UNCHANGED <<lock, edits, server, view, paused, clicks, machine>>

\* One step (a tool may add to the video), or the end of the loop: a reply, a question, a failure.
Step(r) ==
    /\ MayStep(r) /\ run[r].pc = "step"
    /\ \/ /\ run[r].calls > 0
          /\ run' = [run EXCEPT ![r].pc = "told", ![r].calls = @ - 1, ![r].seen = view]
          /\ edits' \in {edits, edits \cup {r}}
       \/ /\ \E out \in {"done", "gate", "error"} :
                run' = [run EXCEPT ![r].out = out, ![r].pc = IF out = "error" THEN "final" ELSE "outcome"]
          /\ UNCHANGED edits
    /\ UNCHANGED <<lock, server, view, paused, clicks, machine>>

\* told -> _set_turn(step=...): the rest of the view goes back as it was read.
Told(r) ==
    /\ MayStep(r) /\ run[r].pc = "told"
    /\ view' = run[r].seen
    /\ run' = [run EXCEPT ![r].pc = "point", ![r].seen = NoView]
    /\ UNCHANGED <<lock, edits, server, paused, clicks, machine>>

\* _hold_paused: the lock waits with the pause, unless the video is no longer this turn's.
Hold_Slip(r) ==
    /\ MayStep(r) /\ run[r].pc = "hold"
    /\ lock' = Hand(By("turn", r), By("pause", run[r].turn))
    /\ paused' = "ahead" /\ Go(r, "check")
    /\ UNCHANGED <<edits, server, view, clicks, machine>>
Hold(r) ==
    LET t == run[r].turn IN
    /\ MayStep(r) /\ run[r].pc = "hold"
    /\ IF Held(By("turn", r))
       THEN /\ lock' = Hand(By("turn", r), By("pause", t))
            /\ paused' = "ahead" /\ Go(r, "holding")
            /\ UNCHANGED <<asked, holding>>
       ELSE /\ asked' = asked \ {t} /\ holding' = holding \ {t} /\ Go(r, "check")
            /\ UNCHANGED <<lock, paused>>
    /\ UNCHANGED <<edits, stops, view, clicks, machine>>

ShowPaused(r) ==
    /\ MayStep(r) /\ run[r].pc = "holding"
    /\ view' = [view EXCEPT !.status = "paused", !.pausing = FALSE]
    /\ Go(r, "held")
    /\ UNCHANGED <<lock, edits, server, paused, clicks, machine>>

\* Pauses.hold: Stop, Resume, or AUTO_STOP_S went by.
HoldEnds_Slip(r) ==
    LET t == run[r].turn IN
    /\ MayStep(r) /\ run[r].pc = "held"
    /\ t \in stops \/ t \notin asked
    /\ run' = [run EXCEPT ![r].pc = "leave", ![r].halted = t \in stops]
    /\ UNCHANGED <<lock, edits, server, view, paused, clicks, machine>>
HoldEnds(r) ==
    LET t == run[r].turn
        stop == t \in stops \/ t \in asked     \* asked still: the deadline
    IN  /\ MayStep(r) /\ run[r].pc = "held"
        /\ stops' = IF stop THEN stops \cup {t} ELSE stops
        /\ run' = [run EXCEPT ![r].pc = "leave", ![r].halted = stop]
        /\ UNCHANGED <<lock, edits, asked, holding, view, paused, clicks, machine>>

TakeBack(r) ==
    /\ MayStep(r) /\ run[r].pc = "leave"
    /\ lock' = Hand(By("pause", run[r].turn), By("turn", r))
    /\ paused' = "none"
    /\ Go(r, "back")
    /\ UNCHANGED <<edits, server, view, clicks, machine>>

ShowBack(r) ==
    /\ MayStep(r) /\ run[r].pc = "back"
    /\ view' = [view EXCEPT !.status = IF run[r].halted THEN "stopping" ELSE "running"]
    /\ Go(r, "unhold")
    /\ UNCHANGED <<lock, edits, server, paused, clicks, machine>>

\* pauses.end.
Unhold(r) ==
    /\ MayStep(r) /\ run[r].pc = "unhold"
    /\ holding' = holding \ {run[r].turn} /\ asked' = asked \ {run[r].turn}
    /\ run' = [run EXCEPT ![r].pc = "check", ![r].halted = FALSE]
    /\ UNCHANGED <<lock, edits, stops, view, paused, clicks, machine>>

\* turn_work after the loop: Stop puts the edit set back and drops the question.
Outcome(r) ==
    /\ MayStep(r) /\ run[r].pc = "outcome"
    /\ IF run[r].out = "stopped" \/ run[r].turn \in stops
       THEN /\ edits' = Restore(run[r].snap)
            /\ run' = [run EXCEPT ![r].pc = "final", ![r].out = "stopped"]
       ELSE UNCHANGED edits /\ Go(r, "final")
    /\ UNCHANGED <<lock, server, view, paused, clicks, machine>>

\* work(): stopped = turn_id in _stops.
Final_Slip(r) ==
    /\ MayStep(r) /\ run[r].pc = "final"
    /\ run' = [run EXCEPT ![r].pc = "close", ![r].halted = run[r].turn \in stops,
                          ![r].out = IF run[r].turn \in stops THEN "stopped" ELSE @]
    /\ UNCHANGED <<lock, edits, server, view, paused, clicks, machine>>
Final(r) ==
    LET stop == run[r].turn \in stops IN
    /\ MayStep(r) /\ run[r].pc = "final"
    /\ edits' = IF stop THEN Restore(run[r].snap) ELSE edits
    /\ run' = [run EXCEPT ![r].pc = "close", ![r].halted = stop, ![r].out = IF stop THEN "stopped" ELSE @]
    /\ UNCHANGED <<lock, server, view, paused, clicks, machine>>

\* _close_turn: after the preview render, which this place stands for, the flags go.
Close(r) ==
    /\ MayStep(r) /\ run[r].pc = "close"
    /\ stops' = stops \ {run[r].turn} /\ asked' = asked \ {run[r].turn}
    /\ Go(r, "shut")
    /\ UNCHANGED <<lock, edits, holding, view, paused, clicks, machine>>

ShowEnd(r) ==
    /\ MayStep(r) /\ run[r].pc = "shut"
    /\ view' = [view EXCEPT !.status = IF run[r].out = "error" THEN "failed" ELSE "done", !.pausing = FALSE]
    /\ Go(r, "letgo")
    /\ UNCHANGED <<lock, edits, server, paused, clicks, machine>>

LetGo(r) ==
    /\ MayStep(r) /\ run[r].pc = "letgo"
    /\ lock' = IF run[r].out = "gate" /\ ~run[r].halted
               THEN Hand(By("turn", r), By("gate", run[r].turn)) ELSE Release(By("turn", r))
    /\ run' = [run EXCEPT ![r] = Closed(r, "over", run[r].out)]
    /\ UNCHANGED <<edits, server, view, paused, clicks, machine>>

\* failed_turn: work() itself raised as the turn closed.
Fail(r) ==
    /\ Raises /\ MayStep(r) /\ run[r].pc \in {"final", "close", "shut"}
    /\ stops' = stops \ {run[r].turn}
    /\ view' = [view EXCEPT !.status = "failed"]
    /\ lock' = Release(By("turn", r))
    /\ run' = [run EXCEPT ![r] = Closed(r, "over", IF run[r].out = "stopped" THEN "stopped" ELSE "error")]
    /\ UNCHANGED <<edits, asked, holding, paused, clicks, up>>

\* _hold_paused raised: pauses.end runs, and the lock stays with the pause.
HoldFails(r) ==
    LET t == run[r].turn IN
    /\ Raises /\ MayStep(r) /\ run[r].pc \in {"holding", "leave"}
    /\ holding' = holding \ {t} /\ asked' = asked \ {t}
    /\ run' = [run EXCEPT ![r].pc = "final", ![r].out = "error"]
    /\ UNCHANGED <<lock, edits, stops, view, paused, clicks, up>>
------------------------------------------------------------------------------
(* Stop: stop_video and _stop_video. *)

\* The lock is read; a request's cannot be stopped (409).
StopClick ==
    /\ "stop" \in Clicks /\ MayClick /\ stopper.pc = "idle"
    /\ ~RequestRow(lock)
    /\ stopper' = [Idle EXCEPT !.pc = "looked", !.lock = lock]
    /\ UNCHANGED <<lock, edits, run, server, view, paused, pauser, resumer, watcher, machine>>

\* A pause no turn here waits on is ended by the route itself.
StopLook ==
    /\ At("stop", "looked")
    /\ stopper' = [stopper EXCEPT !.pc =
           IF PausedRow(stopper.lock) /\ stopper.lock.key.id \notin holding THEN "put" ELSE "video"]
    /\ UNCHANGED <<lock, edits, run, server, view, paused, pauser, resumer, watcher, machine>>

\* _stop_left_pause: the edit set goes back, the view is closed, then the lock goes.
PutBack(l) ==
    /\ edits' = Restore(l.shot)
    /\ paused' = "none"
    /\ view' = [view EXCEPT !.status = "done", !.pausing = FALSE]

StopPut ==
    /\ At("stop", "put")
    /\ PutBack(stopper.lock)
    /\ stopper' = [stopper EXCEPT !.pc = "drop"]
    /\ UNCHANGED <<lock, run, server, pauser, resumer, watcher, machine>>

StopDrop ==
    /\ At("stop", "drop")
    /\ lock' = Release(stopper.lock.key)
    /\ stopper' = [stopper EXCEPT !.pc = "video"]
    /\ UNCHANGED <<edits, run, server, view, paused, pauser, resumer, watcher, machine>>

\* _stop_video: the running turn's flag goes up, by the id the view shows.
StopVideo ==
    /\ At("stop", "video")
    /\ view' = SeenView
    /\ IF view'.status \in {"running", "paused"}
       THEN /\ stops' = stops \cup {view'.turn}
            /\ stopper' = [stopper EXCEPT !.pc = IF view'.status = "running" THEN "mark" ELSE "answer", !.view = view']
       ELSE /\ stopper' = [stopper EXCEPT !.pc = "answer"]
            /\ UNCHANGED stops
    /\ UNCHANGED <<lock, edits, run, asked, holding, paused, pauser, resumer, watcher, machine>>

StopMark ==
    /\ At("stop", "mark")
    /\ view' = [stopper.view EXCEPT !.status = "stopping", !.pausing = FALSE]
    /\ stopper' = [stopper EXCEPT !.pc = "answer"]
    /\ UNCHANGED <<lock, edits, run, server, paused, pauser, resumer, watcher, machine>>

\* The answer, by the lock it read first: a go that waits is dropped; otherwise only words.
StopAnswer ==
    LET l == stopper.lock IN
    /\ At("stop", "answer")
    /\ lock' = IF GateRow(l) THEN Release(l.key) ELSE lock
    /\ stopper' = Idle
    /\ UNCHANGED <<edits, run, server, view, paused, pauser, resumer, watcher, machine>>
------------------------------------------------------------------------------
(* Pause, Resume, and the auto-stop of left pauses. *)

\* _pause: only a turn pauses, and only while its view reads running.
PauseClick ==
    /\ "pause" \in Clicks /\ MayClick /\ pauser.pc = "idle"
    /\ lock # Ready /\ lock.key.kind = "turn"
    /\ view' = SeenView /\ view'.status = "running"
    /\ pauser' = [Idle EXCEPT !.pc = "ask", !.view = view']
    /\ UNCHANGED <<lock, edits, run, server, paused, stopper, resumer, watcher, machine>>

PauseAsk ==
    /\ At("pause", "ask")
    /\ asked' = asked \cup {pauser.view.turn}
    /\ pauser' = [pauser EXCEPT !.pc = "mark", !.view = view]
    /\ UNCHANGED <<lock, edits, run, stops, holding, view, paused, stopper, resumer, watcher, machine>>

\* _set_turn(pausing=True) writes the view back as it read it.
PauseMark ==
    /\ At("pause", "mark")
    /\ view' = [pauser.view EXCEPT !.pausing = TRUE]
    /\ pauser' = Idle
    /\ UNCHANGED <<lock, edits, run, server, paused, stopper, resumer, watcher, machine>>

\* _resume: a pause not reached yet is called off; a pause is looked into.
ResumeClick ==
    /\ "resume" \in Clicks /\ MayClick /\ resumer.pc = "idle"
    /\ view' = SeenView
    /\ \/ /\ PausedRow(lock)
          /\ resumer' = [Idle EXCEPT !.pc = "looked", !.lock = lock]
          /\ UNCHANGED asked
       \/ /\ ~PausedRow(lock) /\ view'.pausing /\ view'.turn \in asked
          /\ asked' = asked \ {view'.turn}
          /\ resumer' = [Idle EXCEPT !.pc = "mark", !.view = view']
    /\ UNCHANGED <<lock, edits, run, stops, holding, paused, stopper, pauser, watcher, machine>>

ResumeMark ==
    /\ At("resume", "mark")
    /\ view' = [resumer.view EXCEPT !.pausing = FALSE]
    /\ resumer' = Idle
    /\ UNCHANGED <<lock, edits, run, server, paused, stopper, pauser, watcher, machine>>

\* A turn that holds here lets go; a pause a restart left behind starts again as a new run.
ResumeLook ==
    /\ At("resume", "looked")
    /\ IF resumer.lock.key.id \in holding
       THEN asked' = asked \ {resumer.lock.key.id} /\ resumer' = Idle /\ UNCHANGED paused
       ELSE paused' = "none" /\ resumer' = [resumer EXCEPT !.pc = "restart"] /\ UNCHANGED asked
    /\ UNCHANGED <<lock, edits, run, stops, holding, view, stopper, pauser, watcher, machine>>

\* _start_turn with the pause's own ticket; one that is refused lets go of the lock.
ResumeStart ==
    LET l == resumer.lock IN
    /\ At("resume", "restart")
    /\ \/ /\ \E r \in Run :
                /\ run[r].pc = "new"
                /\ run' = [run EXCEPT ![r] = [Fresh(r) EXCEPT !.pc = "made", !.turn = l.key.id,
                                                              !.ticket = l.key, !.snap = l.shot]]
          /\ UNCHANGED lock
       \/ lock' = Release(l.key) /\ UNCHANGED run
    /\ resumer' = Idle
    /\ UNCHANGED <<edits, server, view, paused, stopper, pauser, watcher, machine>>

\* _auto_stop_due, from the watcher, the sweep and every view of the lock.
WatchRead ==
    /\ "watch" \in Clicks /\ MayClick /\ watcher.pc = "idle" /\ PausedRow(lock)
    /\ watcher' = [Idle EXCEPT !.pc = "looked", !.lock = lock]
    /\ UNCHANGED <<lock, edits, run, server, view, paused, stopper, pauser, resumer, machine>>

\* Nothing in settings.paused reads as a deadline that is past.
WatchLook ==
    /\ At("watch", "looked")
    /\ watcher' = IF watcher.lock.key.id \notin holding /\ paused # "ahead"
                  THEN [watcher EXCEPT !.pc = "put"] ELSE Idle
    /\ UNCHANGED <<lock, edits, run, server, view, paused, stopper, pauser, resumer, machine>>

WatchPut ==
    /\ At("watch", "put")
    /\ PutBack(watcher.lock)
    /\ watcher' = [watcher EXCEPT !.pc = "drop"]
    /\ UNCHANGED <<lock, run, server, stopper, pauser, resumer, machine>>

WatchDrop ==
    /\ At("watch", "drop")
    /\ lock' = Release(watcher.lock.key)
    /\ watcher' = Idle
    /\ UNCHANGED <<edits, run, server, view, paused, stopper, pauser, resumer, machine>>

\* The editor asks how the turn stands.
LookAtView ==
    /\ MayClick /\ view' = SeenView /\ view' # view
    /\ UNCHANGED <<lock, edits, run, server, paused, clicks, machine>>

\* The deadline in settings.paused passes.
Deadline ==
    /\ paused = "ahead" /\ paused' = "past"
    /\ UNCHANGED <<lock, edits, run, server, view, clicks, machine>>
------------------------------------------------------------------------------
\* What a process keeps in memory is gone; rows and settings stay.
Crash ==
    /\ up /\ faults < MaxFaults
    /\ up' = FALSE /\ faults' = faults + 1
    /\ stops' = {} /\ asked' = {} /\ holding' = {}
    /\ stopper' = Idle /\ pauser' = Idle /\ resumer' = Idle /\ watcher' = Idle
    /\ run' = [r \in Run |-> IF run[r].pc \in {"new", "over"} THEN run[r] ELSE Closed(r, "lost", "none")]
    /\ UNCHANGED <<lock, edits, view, paused>>

\* clear_leftovers.
Restart ==
    /\ ~up /\ up' = TRUE
    /\ lock' = IF GateRow(lock) \/ PausedRow(lock) THEN lock ELSE Ready
    /\ UNCHANGED <<edits, run, server, view, paused, clicks, faults>>

RunStep(r) ==
    \/ TakeVideo(r) \/ MakeJob(r) \/ HandTurn(r) \/ ForgetClicks(r) \/ ShowRunning(r) \/ Submit(r)
    \/ Point(r) \/ Check(r) \/ Step(r) \/ Told(r)
    \/ Hold(r) \/ ShowPaused(r) \/ HoldEnds(r) \/ TakeBack(r) \/ ShowBack(r) \/ Unhold(r)
    \/ Outcome(r) \/ Final(r) \/ Close(r) \/ ShowEnd(r) \/ LetGo(r) \/ Fail(r) \/ HoldFails(r)

RouteStep ==
    \/ StopLook \/ StopPut \/ StopDrop \/ StopVideo \/ StopMark \/ StopAnswer
    \/ PauseAsk \/ PauseMark
    \/ ResumeMark \/ ResumeLook \/ ResumeStart
    \/ WatchLook \/ WatchPut \/ WatchDrop

Next ==
    \/ \E r \in Run : RunStep(r)
    \/ StopClick \/ PauseClick \/ ResumeClick \/ WatchRead \/ RouteStep
    \/ LookAtView \/ Deadline \/ Crash \/ Restart

Spec == Init /\ [][Next]_vars

\* Threads run, time passes, the watcher comes round, and a server that went down comes back.
\* Nobody has to click; clicks without end do not keep a worker from its next step (strong
\* fairness: an atomic route's steps disable the worker's).
Fairness ==
    /\ \A r \in Run : SF_vars(run[r].pc # "new" /\ RunStep(r))
    /\ WF_vars(RouteStep) /\ SF_vars(WatchRead) /\ WF_vars(Deadline) /\ WF_vars(Restart)

FairSpec == Spec /\ Fairness
------------------------------------------------------------------------------
(* Properties *)

\* A run that may still change the video has the video's lock (_start_turn: "the turn holds the
\* video's lock from here until it lands"), through pauses, resumes, auto-stops and restarts.
WorksUnderItsLock ==
    \A r \in Run : run[r].pc \in {"cleared", "shown", "outcome"} \cup Looping => Held(By("turn", r))

\* A turn that ended as stopped has nothing in the video, then or later (stop_video: it "adds
\* nothing to the video"; DECISIONS 3.2).
StoppedLeavesNothing ==
    \A r \in Run : run[r].pc \in {"close", "shut", "letgo", "over"} /\ run[r].out = "stopped" => r \notin edits

\* What a turn that ended well put in the video is never taken out by another turn's end, a Stop
\* of another turn or the auto-stop of an old pause: a snapshot is put back only over its own turn.
\* (A turn whose hold raised ends without the lock, which stayed with its pause: README, known
\* departures.)
Astray == \E r \in Run : run[r].pc \in {"final", "close", "shut"} /\ ~Held(By("turn", r))
LandedStays == ~Astray => \A r \in edits : run[r].pc = "over" /\ run[r].out \in {"done", "gate"} => r \in edits'

\* Both: a Stop takes out what its own turn added, all of it and nothing else, whichever of the
\* turn's end, the click, the auto-stop and the restart puts the edit set back.
StopTakesItsOwn == [][StoppedLeavesNothing' /\ LandedStays]_vars

\* While a pause holds the video nothing is added to it (pause_video: "nothing new starts"); what
\* may happen to the edit set is that a Stop puts it back.
PausedAddsNothing == [][PausedRow(lock) => edits' \subseteq edits]_vars

\* The lock of a turn, a request or a pause never sticks (pause.py: "so the lock never sticks"),
\* whoever stops clicking and wherever a crash comes.
LockGoes == (lock # Ready /\ ~GateRow(lock)) ~> (lock = Ready \/ GateRow(lock))

\* What the row says implements one edit at a time, turn ids standing for the work.
doing ==
    [v \in {"video"} |->
        IF lock = Ready THEN Ready
        ELSE [phase |-> CASE GateRow(lock) -> "waiting" [] PausedRow(lock) -> "paused" [] OTHER -> "working",
              id |-> IF lock.key.kind = "turn" THEN run[lock.key.id].turn ELSE lock.key.id,
              by |-> "user"]]

Edit == INSTANCE OneEdit WITH Video <- {"video"}, Work <- Run, Person <- {"user"}, Nobody <- "nobody", Free <- Ready

\* Ready is none of the values a row or what is done has.
ASSUME ReadyAssumption == Ready \notin Row /\ Ready \notin Edit!Doing

EditSpec == Edit!Spec
==============================================================================
