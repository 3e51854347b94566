----------------------------- MODULE AddLanding -----------------------------
(***************************************************************************)
(* How a change the user makes by hand lands: an Add (approve_plan, _ship) *)
(* or a change to what is in the video (an undo, a level: lock_held and    *)
(* _land).  The request changes the edit set under the video's lock; the   *)
(* lock passes to the job that renders it and goes with the job's end, in  *)
(* the job's own transaction (activity.on_end_in).  Stop is a route of     *)
(* several steps that reads the lock first (stop_video).                   *)
(*                                                                         *)
(* An edit set is the set of changes in it.  Renders are kept by the edit  *)
(* set they are of (edit_set_hash).  One video; leases do not run out here *)
(* (VideoLocks), and who starts what next is UpNext.  `meant` is no state  *)
(* of the program: the edit set its users asked for.                       *)
(*                                                                         *)
(* What VideoLocks has too is named apart here (LandingInit, LandingNext,  *)
(* TakeLock, ServerDies), so that one module of proofs has both.  X_Slip   *)
(* is a slip in the code X models (see LockTable).                         *)
(***************************************************************************)
EXTENDS Integers, FiniteSets

CONSTANTS
    Change,           \* changes made by hand, each once; each has its own render job
    Add,              \* those that are Adds: stoppable, their snapshot kept
    Preview,          \* render jobs asked for without the lock (export_project, purpose preview)
    Stopper,          \* threads of stop_video
    Free,             \* no row in video_locks
    MaxStops,         \* bound on clicks on Stop
    MaxCrashes,       \* bound on crashes
    StopsArePrompt    \* whether nothing happens between the steps of a Stop

ASSUME LandingAssumption ==
    /\ Add \subseteq Change /\ Change \cap Preview = {}
    /\ MaxStops \in Nat /\ MaxCrashes \in Nat
    /\ StopsArePrompt \in BOOLEAN

VARIABLES
    lock,     \* the video's row
    edits,    \* the changes in the video (rows not marked undone)
    rows,     \* the rows of `edits` there are, undone ones included
    meant,    \* the changes that should be in it
    req,      \* [Change -> where its request stands, and the job it passed the lock to]
    job,      \* [Job -> the activity job: its status, the edit set it was asked for, and whether its
              \*         detail says so (edit_hash)]
    worker,   \* [Job -> where its thread of the pool stands, and the edit set it renders]
    made,     \* settings.renders: the edit sets with a finished render
    stop,     \* [Stopper -> where it stands and what it read]
    stops, serving, crashes

video == <<edits, rows, meant>>
route == <<stop, stops>>
machine == <<serving, crashes>>
landingVars == <<lock, video, req, job, worker, made, route, machine>>

Job == Change \cup Preview
Active == {"queued", "running"}
Over == {"done", "failed", "cancelled"}
Shot == [edits : SUBSET Change, rows : SUBSET Change]
LockRow == [kind : {"req", "job"}, id : Job, shot : Shot, stoppable : BOOLEAN]
NoShot == [edits |-> {}, rows |-> {}]

\* A video with no row is not one with a row.
ASSUME FreeAssumption == Free \notin LockRow

NoWork == [pc |-> "none", of |-> {}]
NoStop == [pc |-> "idle", lock |-> Free, queued |-> {}]

LandingTypeOK ==
    /\ lock \in LockRow \cup {Free}
    /\ rows \in SUBSET Change /\ edits \in SUBSET rows /\ meant \in SUBSET Change
    /\ made \in SUBSET SUBSET Change
    /\ req \in [Change -> [pc : {"new", "took", "changed", "landing", "handing", "ending", "over"}, to : Job \cup {Free}]]
    /\ job \in [Job -> [status : {"none"} \cup Active \cup Over, of : SUBSET Change, hash : BOOLEAN]]
    /\ worker \in [Job -> [pc : {"none", "due", "waits", "rendering", "made", "lands", "ends"}, of : SUBSET Change]]
    /\ stop \in [Stopper -> [pc : {"idle", "list", "cancel", "restore", "end"}, lock : LockRow \cup {Free}, queued : SUBSET Job]]
    /\ stops \in 0..MaxStops /\ serving \in BOOLEAN /\ crashes \in 0..MaxCrashes

LandingInit ==
    /\ lock = Free /\ edits = {} /\ rows = {} /\ meant = {}
    /\ req = [c \in Change |-> [pc |-> "new", to |-> Free]]
    /\ job = [j \in Job |-> [status |-> "none", of |-> {}, hash |-> FALSE]]
    /\ worker = [j \in Job |-> NoWork]
    /\ made = {{}}
    /\ stop = [s \in Stopper |-> NoStop] /\ stops = 0
    /\ serving = TRUE /\ crashes = 0

Stopping == {s \in Stopper : stop[s].pc # "idle"}
May == serving /\ (StopsArePrompt => Stopping = {})
StopMay(s) == serving /\ (StopsArePrompt => Stopping \subseteq {s})

Holds(l, kind, id) == l # Free /\ l.kind = kind /\ l.id = id
LockWithout(kind, id) == IF Holds(lock, kind, id) THEN Free ELSE lock

\* ActivityJobs._move to a terminal status: a job that is over stays as it is; one that ends lets
\* go of the video's lock in the same transaction.
Ended(jobs, j, status) == IF jobs[j].status \in Active THEN [jobs EXCEPT ![j].status = status] ELSE jobs
EndsLock(j) == IF job[j].status \in Active THEN LockWithout("job", j) ELSE lock

Req(c, pc) == req' = [req EXCEPT ![c].pc = pc]
At(c, pc) == May /\ req[c].pc = pc
WorkGoes(j, pc) == worker' = [worker EXCEPT ![j].pc = pc]
------------------------------------------------------------------------------
(* The request. *)

\* lock_held: the video is Ready.
TakeLock(c) ==
    /\ At(c, "new") /\ lock = Free
    /\ lock' = [kind |-> "req", id |-> c, shot |-> NoShot, stoppable |-> c \in Add]
    /\ Req(c, "took")
    /\ UNCHANGED <<video, job, worker, made, route, machine>>

PutIn(c) == edits' = edits \cup {c} /\ rows' = rows \cup {c} /\ meant' = meant \cup {c}
TakeOut(e) == edits' = edits \ {e} /\ rows' = rows /\ meant' = meant \ {e}

\* approve_plan, _ship: the snapshot is kept on the lock, then the takes are approved.  One with
\* nothing to approve ends there.
Approve_Slip(c) ==
    /\ c \in Add /\ At(c, "took")
    /\ PutIn(c)
    /\ lock' = [lock EXCEPT !.shot = [edits |-> edits', rows |-> rows']]
    /\ Req(c, "changed")
    /\ UNCHANGED <<job, worker, made, route, machine>>
Approve(c) ==
    /\ c \in Add /\ At(c, "took")
    /\ lock' = [lock EXCEPT !.shot = [edits |-> edits, rows |-> rows]]
    /\ \/ PutIn(c) /\ Req(c, "changed")
       \/ Req(c, "ending") /\ UNCHANGED video
    /\ UNCHANGED <<job, worker, made, route, machine>>

\* A job is made and takes the lock over in one transaction (ticket.within), and goes to the pool.
MakeJob(c, hash) ==
    /\ job' = [job EXCEPT ![c] = [status |-> "queued", of |-> edits, hash |-> hash]]
    /\ lock' = [lock EXCEPT !.kind = "job"]
    /\ worker' = [worker EXCEPT ![c].pc = "due"]
    /\ req' = [req EXCEPT ![c] = [pc |-> "ending", to |-> c]]

\* _ship's render job (its detail has no edit hash).
Ship(c) ==
    /\ At(c, "changed")
    /\ MakeJob(c, FALSE)
    /\ UNCHANGED <<video, made, route, machine>>

\* The other changes: something goes in, or something that was in is marked undone.
Alter(c) ==
    /\ c \notin Add /\ At(c, "took")
    /\ PutIn(c) \/ \E e \in edits : TakeOut(e)
    /\ Req(c, "landing")
    /\ UNCHANGED <<lock, job, worker, made, route, machine>>

\* LockTicket.end, _land: nothing to render when the render is made; else the render on its way
\* for this edit set is to take the lock over, or a new one does.
Land(c) ==
    LET onItsWay == {j \in Job : job[j].status \in Active /\ job[j].hash /\ job[j].of = edits} IN
    /\ At(c, "landing")
    /\ \/ edits \in made /\ Req(c, "ending") /\ UNCHANGED <<lock, job, worker>>
       \/ edits \notin made /\ onItsWay = {} /\ MakeJob(c, TRUE)
       \/ /\ edits \notin made
          /\ \E j \in onItsWay : req' = [req EXCEPT ![c] = [pc |-> "handing", to |-> j]]
          /\ UNCHANGED <<lock, job, worker>>
    /\ UNCHANGED <<video, made, route, machine>>

\* ticket.hand: that job was under way when it was looked at, and may be over by now.
HandOver(c) ==
    /\ At(c, "handing")
    /\ lock' = [lock EXCEPT !.kind = "job", !.id = req[c].to]
    /\ Req(c, "ending")
    /\ UNCHANGED <<video, job, worker, made, route, machine>>

\* The end of the ticket: a lock not passed on goes, and so does one passed to a job that is over.
EndRequest_Slip(c) ==
    /\ At(c, "ending")
    /\ lock' = IF req[c].to = Free THEN LockWithout("req", c) ELSE lock
    /\ Req(c, "over")
    /\ UNCHANGED <<video, job, worker, made, route, machine>>
EndRequest(c) ==
    /\ At(c, "ending")
    /\ lock' = IF req[c].to = Free THEN LockWithout("req", c)
               ELSE IF job[req[c].to].status \in Over THEN LockWithout("job", req[c].to) ELSE lock
    /\ Req(c, "over")
    /\ UNCHANGED <<video, job, worker, made, route, machine>>

\* export_project: a preview of the edits as they are, asked for without the lock.  When it is made
\* or on its way there is nothing to do; that look and the making of the job are one step here.
AskPreview(p) ==
    /\ May /\ job[p].status = "none"
    /\ edits \notin made
    /\ \A j \in Job : ~(job[j].status \in Active /\ job[j].hash /\ job[j].of = edits)
    /\ job' = [job EXCEPT ![p] = [status |-> "queued", of |-> edits, hash |-> TRUE]]
    /\ WorkGoes(p, "due")
    /\ UNCHANGED <<lock, video, req, made, route, machine>>
------------------------------------------------------------------------------
(* The worker: rendered() and _export. *)

\* An Add's job that was stopped before it began renders nothing; the others do not look.  The
\* edits are read here, before the wait for the video's renders.
WorkReads_Slip(j) ==
    /\ May /\ worker[j].pc = "due"
    /\ worker' = [worker EXCEPT ![j] = [pc |-> "waits", of |-> edits \ {j}]]
    /\ UNCHANGED <<lock, video, req, job, made, route, machine>>
WorkReads(j) ==
    /\ May /\ worker[j].pc = "due"
    /\ worker' = [worker EXCEPT ![j] = IF j \in Add /\ job[j].status = "cancelled" THEN NoWork
                                       ELSE [pc |-> "waits", of |-> edits]]
    /\ UNCHANGED <<lock, video, req, job, made, route, machine>>

\* One render at a time per video; one that is made already is the answer.
WorkStarts(j) ==
    /\ May /\ worker[j].pc = "waits"
    /\ \A k \in Job : worker[k].pc \notin {"rendering", "made", "lands", "ends"}
    /\ IF worker[j].of \in made
       THEN /\ job' = Ended(job, j, "done") /\ lock' = EndsLock(j)
            /\ worker' = [worker EXCEPT ![j] = NoWork]
       ELSE /\ job' = IF job[j].status = "queued" THEN [job EXCEPT ![j].status = "running"] ELSE job
            /\ WorkGoes(j, "rendering")
            /\ UNCHANGED lock
    /\ UNCHANGED <<video, req, made, route, machine>>

WorkRenders(j) ==
    /\ May /\ worker[j].pc = "rendering"
    /\ \/ WorkGoes(j, "made") /\ UNCHANGED <<lock, job>>
       \/ /\ job' = Ended(job, j, "failed") /\ lock' = EndsLock(j)
          /\ worker' = [worker EXCEPT ![j] = NoWork]
    /\ UNCHANGED <<video, req, made, route, machine>>

\* "this render is of nothing now": a job stopped while it rendered leaves no render.
WorkLooks(j) ==
    /\ May /\ worker[j].pc = "made"
    /\ worker' = [worker EXCEPT ![j] = IF job[j].status = "cancelled" THEN NoWork ELSE [@ EXCEPT !.pc = "lands"]]
    /\ UNCHANGED <<lock, video, req, job, made, route, machine>>

\* Then the render is kept, and then the job is done.
WorkLands(j) ==
    /\ May /\ worker[j].pc = "lands"
    /\ made' = made \cup {worker[j].of}
    /\ WorkGoes(j, "ends")
    /\ UNCHANGED <<lock, video, req, job, route, machine>>

WorkEnds(j) ==
    /\ May /\ worker[j].pc = "ends"
    /\ job' = Ended(job, j, "done") /\ lock' = EndsLock(j)
    /\ worker' = [worker EXCEPT ![j] = NoWork]
    /\ UNCHANGED <<video, req, made, route, machine>>
------------------------------------------------------------------------------
(* Stop. *)

\* stop_video reads the lock; one that cannot be stopped, and a request's, is refused.
StopReads(s) ==
    /\ StopMay(s) /\ stop[s].pc = "idle" /\ stops < MaxStops
    /\ lock # Free => lock.stoppable /\ lock.kind # "req"
    /\ stop' = [stop EXCEPT ![s] = [pc |-> "list", lock |-> lock, queued |-> {}]]
    /\ stops' = stops + 1
    /\ UNCHANGED <<lock, video, req, job, worker, made, machine>>

\* _stop_video: the jobs that read as queued are cancelled one by one.
StopLists(s) ==
    /\ StopMay(s) /\ stop[s].pc = "list"
    /\ stop' = [stop EXCEPT ![s].pc = "cancel", ![s].queued = {j \in Job : job[j].status = "queued"}]
    /\ UNCHANGED <<lock, video, req, job, worker, made, stops, machine>>

\* A job that a Stop cancels takes what it was to land out of what is meant.
Cancel(j) ==
    /\ job' = Ended(job, j, "cancelled")
    /\ meant' = IF j \in Add /\ job[j].status \in Active THEN meant \ {j} ELSE meant

StopCancels(s) ==
    /\ StopMay(s) /\ stop[s].pc = "cancel"
    /\ \/ \E j \in stop[s].queued :
             /\ Cancel(j) /\ lock' = EndsLock(j)
             /\ stop' = [stop EXCEPT ![s].queued = @ \ {j}]
       \/ /\ stop[s].queued = {}
          /\ stop' = [stop EXCEPT ![s] = IF @.lock = Free THEN NoStop ELSE [@ EXCEPT !.pc = "restore"]]
          /\ UNCHANGED <<job, lock, meant>>
    /\ UNCHANGED <<edits, rows, req, worker, made, stops, machine>>

\* _restore_snapshot, from the lock that was read: rows it does not know go, the others are again
\* as they were; a row that is gone does not come back.
StopRestores(s) ==
    /\ StopMay(s) /\ stop[s].pc = "restore"
    /\ rows' = rows \cap stop[s].lock.shot.rows
    /\ edits' = stop[s].lock.shot.edits \cap rows'
    /\ stop' = [stop EXCEPT ![s].pc = "end"]
    /\ UNCHANGED <<lock, meant, req, job, worker, made, stops, machine>>

\* Then the job is cancelled, and the lock goes if the job still has it.
StopEnds(s) ==
    /\ StopMay(s) /\ stop[s].pc = "end"
    /\ Cancel(stop[s].lock.id) /\ lock' = LockWithout("job", stop[s].lock.id)
    /\ stop' = [stop EXCEPT ![s] = NoStop]
    /\ UNCHANGED <<edits, rows, req, worker, made, stops, machine>>
------------------------------------------------------------------------------
\* The process dies; a Stop that had begun is left where it was.
ServerDies ==
    /\ May /\ crashes < MaxCrashes
    /\ serving' = FALSE /\ crashes' = crashes + 1
    /\ req' = [c \in Change |-> IF req[c].pc = "new" THEN req[c] ELSE [pc |-> "over", to |-> Free]]
    /\ worker' = [j \in Job |-> NoWork]
    /\ stop' = [s \in Stopper |-> NoStop]
    /\ UNCHANGED <<lock, video, job, made, stops>>

\* activity.interrupt_leftovers, locks.clear_leftovers.
ServerReturns ==
    /\ ~serving /\ serving' = TRUE
    /\ job' = [j \in Job |-> IF job[j].status \in Active THEN [job[j] EXCEPT !.status = "failed"] ELSE job[j]]
    /\ lock' = Free
    /\ UNCHANGED <<video, req, worker, made, route, crashes>>

RequestStep(c) == Approve(c) \/ Ship(c) \/ Alter(c) \/ Land(c) \/ HandOver(c) \/ EndRequest(c)
WorkerStep(j) == WorkReads(j) \/ WorkStarts(j) \/ WorkRenders(j) \/ WorkLooks(j) \/ WorkLands(j) \/ WorkEnds(j)
StopStep(s) == StopLists(s) \/ StopCancels(s) \/ StopRestores(s) \/ StopEnds(s)

LandingNext ==
    \/ \E c \in Change : TakeLock(c) \/ RequestStep(c)
    \/ \E p \in Preview : AskPreview(p)
    \/ \E j \in Job : WorkerStep(j)
    \/ \E s \in Stopper : StopReads(s) \/ StopStep(s)
    \/ ServerDies \/ ServerReturns

LandingSpec == LandingInit /\ [][LandingNext]_landingVars

\* While requests, workers or routes have steps left one of them takes its step (each has finitely
\* many, so none is left behind); a server that went down comes back.
ServerGoesOn ==
    \/ \E c \in Change : RequestStep(c)
    \/ \E j \in Job : WorkerStep(j)
    \/ \E s \in Stopper : StopStep(s)
    \/ ServerReturns
LandingFairness == WF_landingVars(ServerGoesOn)

LandingFairSpec == LandingSpec /\ LandingFairness
------------------------------------------------------------------------------
(* Properties *)

\* With no Stop in the middle, the video is what its users asked for: a stopped Add "puts the edit
\* set back exactly as it was" (stop_video), a change that landed stays until somebody takes it
\* out, what was taken out stays out, and no Stop touches a change that is not its own.
AsMeant == Stopping = {} => edits = meant

\* "the video is Working until that render is in it" (_land), "the Add is Working until its render
\* lands" (_ship): when a change's own job ends done and the video is Ready again, the render of
\* what is in it is made.
LandsWithItsRender ==
    [][lock # Free /\ lock.kind = "job" /\ lock.id \in Change /\ lock' = Free /\ job'[lock.id].status = "done"
          => edits \in made']_landingVars

\* Whatever job the lock was passed to, and when that job ended: the video is Ready again.
LandingEnds == lock # Free ~> lock = Free
==============================================================================
