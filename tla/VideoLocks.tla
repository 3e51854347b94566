------------------------------ MODULE VideoLocks ------------------------------
(***************************************************************************)
(* The lock service of jobs/locks.py, with what api/main.py does to take,  *)
(* pass on and let go of a lock, the renewal thread, the stuck-job sweep,  *)
(* a crash and a restart.                                                  *)
(*                                                                         *)
(* `working[v]` is what the rows are for: the holders whose threads, as    *)
(* far as they know, may change video v.  The code keeps no such variable; *)
(* it is where the threads stand (a job's worker: until its record is      *)
(* terminal; what a stopped worker still does is in TurnControl).          *)
(*                                                                         *)
(* With RenewalsKeepUp a lease never runs out under a holder whose thread  *)
(* lives (RENEW is a third of LEASE, and a hold at a pause point ends      *)
(* LEASE_GRACE_S before its lease); without it the server may stall.       *)
(***************************************************************************)
EXTENDS LockTable

CONSTANTS Video, RenewalsKeepUp

ASSUME RenewalAssumption == RenewalsKeepUp \in BOOLEAN

VARIABLES
    row,      \* [Video -> Lock or Ready]: the table video_locks
    working,  \* [Video -> SUBSET Holder]
    scan,     \* the <<video, holder>> pairs renew_live has read and not come to yet
    up        \* whether the server runs

vars == <<row, working, scan, up>>

TypeOK ==
    /\ row \in [Video -> Lock \cup {Ready}]
    /\ working \in [Video -> SUBSET Holder]
    /\ scan \in SUBSET (Video \X Holder)
    /\ up \in BOOLEAN

Init ==
    /\ row = [v \in Video |-> Ready]
    /\ working = [v \in Video |-> {}]
    /\ scan = {}
    /\ up = TRUE

\* An id no row, no thread and no pending renewal names: a new request's uuid, a new job's number.
Unused(w) ==
    /\ \A v \in Video : (\A h \in working[v] : h.id # w) /\ (row[v] # Ready => row[v].holder.id # w)
    /\ \A p \in scan : p[2].id # w

\* _lock_alive: the holder's thread still runs in this process.
Alive(v) == row[v] # Ready /\ row[v].holder \in working[v]

Replace(S, old, new) == (S \ {old}) \cup {new}

SetRow(v, r) == row' = [row EXCEPT ![v] = r]
SetWorking(v, S) == working' = [working EXCEPT ![v] = S]
------------------------------------------------------------------------------
\* lock_held: a route takes the lock for person p and its request may change the video.
Take(v, w, p, overGate) ==
    /\ up /\ Unused(w)
    /\ MayTake(row[v], By("req", w), p, overGate)
    /\ SetRow(v, Taken(By("req", w), p))
    /\ SetWorking(v, working[v] \cup {By("req", w)})
    /\ UNCHANGED <<scan, up>>

\* LockTicket.hand / within: the request's lock goes to the turn or the job it starts, and the
\* request is done with the video.  The turn or job starts either way: _locked_turn and _ship do
\* not look at what the hand returned.
PassOn(v, w, kind, new) ==
    /\ up /\ By("req", w) \in working[v] /\ Unused(new)
    /\ SetRow(v, Handed(row[v], By("req", w), By(kind, new)))
    /\ SetWorking(v, Replace(working[v], By("req", w), By(kind, new)))
    /\ UNCHANGED <<scan, up>>

\* _hold_paused: the turn's lock waits at a pause point.  A turn whose lock is gone does not hold.
Hold(v, w) ==
    /\ up /\ By("turn", w) \in working[v] /\ Held(row[v], By("turn", w))
    /\ SetRow(v, Handed(row[v], By("turn", w), By("pause", w)))
    /\ SetWorking(v, Replace(working[v], By("turn", w), By("pause", w)))
    /\ UNCHANGED <<scan, up>>

\* The end of _hold_paused (Resume, Stop or the deadline): the thread goes on as the turn.
CarryOn(v, w) ==
    /\ up /\ By("pause", w) \in working[v]
    /\ SetRow(v, Handed(row[v], By("pause", w), By("turn", w)))
    /\ SetWorking(v, Replace(working[v], By("pause", w), By("turn", w)))
    /\ UNCHANGED <<scan, up>>

\* The end of a turn that asked for the user's go: the lock waits, no thread does.
AskForGo(v, w) ==
    /\ up /\ By("turn", w) \in working[v]
    /\ SetRow(v, Handed(row[v], By("turn", w), By("gate", w)))
    /\ SetWorking(v, working[v] \ {By("turn", w)})
    /\ UNCHANGED <<scan, up>>

\* LockTicket.end, the end of a turn's work(), a job's last move (activity.on_end_in): the holder
\* is done with the video and lets go of its row.
LetGo_Slip(v, h) ==
    /\ up /\ h \in working[v] /\ h.kind # "pause"
    /\ SetRow(v, Released(row[v], h))
    /\ UNCHANGED <<working, scan, up>>
LetGo(v, h) ==
    /\ up /\ h \in working[v] /\ h.kind # "pause"
    /\ SetRow(v, Released(row[v], h))
    /\ SetWorking(v, working[v] \ {h})
    /\ UNCHANGED <<scan, up>>

\* A thread that ends without letting go (what should release it failed as well).  A job's
\* record stays unfinished then, and so live, until the sweep of jobs fails it: LetGo.
Die(v, h) ==
    /\ up /\ h \in working[v] /\ h.kind # "job"
    /\ SetWorking(v, working[v] \ {h})
    /\ UNCHANGED <<row, scan, up>>

\* Stop on a gate, a question answered elsewhere (_take_lock, _lock_view), and Stop or the
\* auto-stop of a pause a restart left behind: a row no thread stands on is let go of.
DropWaiting(v) ==
    /\ up
    /\ IsGate(row[v]) \/ (IsPaused(row[v]) /\ ~Alive(v))
    /\ SetRow(v, Released(row[v], row[v].holder))
    /\ UNCHANGED <<working, scan, up>>

\* Resume of a pause a restart left behind: the turn starts again on the lock it had.
ResumeLeft(v, w) ==
    /\ up /\ row[v] # Ready /\ row[v].holder = By("pause", w) /\ ~Alive(v)
    /\ SetRow(v, Handed(row[v], By("pause", w), By("turn", w)))
    /\ SetWorking(v, working[v] \cup {By("turn", w)})
    /\ UNCHANGED <<scan, up>>
------------------------------------------------------------------------------
\* renew_live reads every row, then renews the live ones one transaction at a time.
RenewScan ==
    /\ up /\ scan = {}
    /\ scan' = {<<v, row[v].holder>> :
                  v \in {u \in Video : InForce(row[u]) /\ ~IsGate(row[u]) /\ ~IsPaused(row[u])}}
    /\ UNCHANGED <<row, working, up>>

RenewOne_Slip(v, h) ==
    /\ up /\ <<v, h>> \in scan
    /\ SetRow(v, Renewed(row[v], h))
    /\ scan' = scan \ {<<v, h>>}
    /\ UNCHANGED <<working, up>>
RenewOne(v, h) ==
    /\ up /\ <<v, h>> \in scan
    /\ SetRow(v, IF h \in working[v] THEN Renewed(row[v], h) ELSE row[v])
    /\ scan' = scan \ {<<v, h>>}
    /\ UNCHANGED <<working, up>>

Sweep ==
    /\ up
    /\ row' = [v \in Video |-> Swept(row[v])]
    /\ UNCHANGED <<working, scan, up>>

\* The process dies: every thread with it, and the read of a renewal under way.
Crash ==
    /\ up
    /\ up' = FALSE /\ scan' = {}
    /\ working' = [v \in Video |-> {}]
    /\ UNCHANGED row

\* Startup: activity.interrupt_leftovers and locks.clear_leftovers run before any request.
Restart ==
    /\ ~up
    /\ up' = TRUE
    /\ row' = [v \in Video |-> Kept(row[v])]
    /\ UNCHANGED <<working, scan>>

\* One unit of every lease runs out.
Tick_Slip ==
    /\ RenewalsKeepUp => \A v \in Video : Alive(v) => row[v].left > 1
    /\ row' = [v \in Video |-> IF row[v] # Ready /\ row[v].left >= 0 THEN [row[v] EXCEPT !.left = @ - 1] ELSE row[v]]
    /\ UNCHANGED <<working, scan, up>>
Tick ==
    /\ RenewalsKeepUp => \A v \in Video : Alive(v) => row[v].left > 1
    /\ \E v \in Video : InForce(row[v])
    /\ row' = [v \in Video |-> IF InForce(row[v]) THEN [row[v] EXCEPT !.left = @ - 1] ELSE row[v]]
    /\ UNCHANGED <<working, scan, up>>

ThreadStep(v) ==
    \/ \E w \in Work, kind \in {"turn", "job"}, new \in Work : PassOn(v, w, kind, new)
    \/ \E w \in Work : Hold(v, w) \/ CarryOn(v, w) \/ AskForGo(v, w) \/ ResumeLeft(v, w)
    \/ \E h \in Holder : LetGo(v, h) \/ Die(v, h) \/ RenewOne(v, h)
    \/ \E w \in Work, p \in Starter, overGate \in BOOLEAN : Take(v, w, p, overGate)
    \/ DropWaiting(v)

Next ==
    \/ \E v \in Video : ThreadStep(v)
    \/ RenewScan \/ Sweep \/ Crash \/ Restart \/ Tick

Spec == Init /\ [][Next]_vars

\* The renewal thread runs, a hold has its deadline (AUTO_STOP_S), a supervisor starts the server
\* again, and time passes.  The sweep needs an open editor (activity.sweep, on its ping): none here.
Fairness ==
    /\ WF_vars(Tick) /\ WF_vars(Restart) /\ WF_vars(RenewScan)
    /\ WF_vars(\E v \in Video, h \in Holder : RenewOne(v, h))
    /\ \A v \in Video : WF_vars(\E w \in Work : CarryOn(v, w))

FairSpec == Spec /\ Fairness
------------------------------------------------------------------------------
(* Properties *)

\* One edit at a time: no two threads may change a video at once (locks.py: "One edit at a time
\* per video"), through every hand, pause, question, stop, sweep and restart.
OneWorker == \A v \in Video : \A h1, h2 \in working[v] : h1 = h2

\* What makes it so, and what the proof needs: a thread that may change a video is the one its row
\* names, and the row is in force.
WorkIsCovered ==
    \A v \in Video : \A h \in working[v] :
        /\ h.kind # "gate"
        /\ Held(row[v], h) /\ row[v].left > 0

\* A lock in force is never taken from the thread it belongs to: it passes on or goes only in a
\* step of that thread, whatever late holders, sweeps and renewals do (locks.py: "Only the holder
\* releases"), also when the server stalls and leases run out under their holders.
OnlyItsHolderLetsGo ==
    [][\A v \in Video : Alive(v) /\ InForce(row[v]) /\ up'
          => \/ row'[v] # Ready /\ row'[v].holder = row[v].holder
             \/ row[v].holder \notin working'[v]]_vars

\* A question waits for its own person: while a gate's lease runs, time alone shortens it (no
\* renewal puts it back to LEASE), and the next holder of the video, if any, is the same person's.
\* A restart, too, drops no question and no pause, and keeps nothing else: after it a video is
\* Ready or waits on its user.
WaitsForItsPerson ==
    [][\A v \in Video :
          /\ IsGate(row[v]) /\ InForce(row[v]) /\ row'[v] # Ready
             => /\ row[v].by # Nobody => row'[v].by = row[v].by
                /\ IsGate(row'[v]) => row'[v].left >= row[v].left - 1
          /\ ~up /\ up'
             => row'[v] = IF IsGate(row[v]) \/ IsPaused(row[v]) THEN row[v] ELSE Ready]_vars

\* A lock never sticks (locks.py: a server that dies stops renewing, and the lease runs out): once
\* the server stays up, a row whose thread is gone stops being in force, so that the next request
\* may take the video with or without a sweep, or somebody works under it again.
DeadLockGoes ==
    <>[]up => \A v \in Video : (row[v] # Ready /\ ~Alive(v)) ~> (~InForce(row[v]) \/ Alive(v))

\* The lock table implements OneEdit: what a video is doing is what its row in force says.
PhaseOf(kind) == CASE kind = "gate" -> "waiting" [] kind = "pause" -> "paused" [] OTHER -> "working"
View(r) == IF InForce(r) THEN [phase |-> PhaseOf(r.holder.kind), id |-> r.holder.id, by |-> r.by] ELSE Ready
doing == [v \in Video |-> View(row[v])]

Edit == INSTANCE OneEdit WITH Free <- Ready

ASSUME ReadyAssumption == Ready \notin Edit!Doing

EditSpec == Edit!Spec
==============================================================================
