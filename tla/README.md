# The concurrency of Voltage's backend, in TLA+

Voltage is a video editor driven by an agent. The backend (`src/backend/app`) is one FastAPI
process per database. Every request, every agent turn, every render and every background loop is
a thread of that process, and each statement group under `store.tx()` is one transaction on one
connection behind a lock. The threads agree through rows (locks, jobs, a queue, batch records) and
through a few sets kept in memory (stops, pauses). Most of what can go wrong is in how these
are read and written by threads that run at once, by a process that dies, and by users who click
Stop while something ends.

This project models that part: who may change a video, what Stop, Pause and Resume do to a turn,
how the changes that wait are started, how a change lands with its render, how a batch runs a turn
per video and an export renders its files, which process serves and what its start does to the
charges it finds, what a payment grants, and whose voice may be cloned. TLC checks the models on
small instances. TLAPS proves, for every value of the constants, the theorems of eight modules: the
lock table, a turn under its clicks, the queue, the batch and its money, the batch export, the
server's lease and ceiling, purchases and refunds, and voices.

`PROJECT.json` lists the components, the runs, the source lines of every definition, the hazards
and the theorems. Paths below are relative to `src/backend/app`; `main.py` is `api/main.py`.

## The system

| Part | State it keeps | Operations | Talks to |
|---|---|---|---|
| Video locks (`jobs/locks.py`) | table `video_locks`: holder, who started it, lease, snapshot of the edit set | take, hand, pause/resume, renew, release, sweep, clear leftovers | every route that changes a video; listeners on release |
| Turns (`main.py` `_start_turn`, `_locked_turn`, `agent/loop.py`) | `_stops`, `Pauses._asked`, `Pauses._holding`, `settings.turn_view`, `settings.paused` | start, step, pause point, hold, end, Stop, Pause, Resume, auto-stop | lock, edit set, job store, editor's view |
| Up next (`jobs/queue.py`, `main.py` `_after_release`, `_run_next`) | table of queued changes, `settings.queue_paused` | add, remove, reorder, edit, clear, run next, claim, finish, recover | listens to the lock's release, starts turns and changes |
| Changes by hand (`main.py` `approve_plan`, `_ship`, `lock_held`, `_land`, `_export`) | edit set, `settings.renders`, the render job | take, change, ship, land, render, Stop | lock, activity jobs |
| Activity jobs (`jobs/activity.py`) | table of jobs: status, detail, lock to let go of at the end | create, move, update, finish, fail, cancel, sweep, interrupt leftovers | lock (`on_end_in`), editor |
| Batch engine (`jobs/batch.py`) | a batch record, a parent and child jobs, a pool of threads | gate, go, pause point, cancel, pause, resume, answers, close | turns, activity jobs, usage ledger |
| Batch export (`jobs/exports.py`, `main.py` `_deliver_one`) | an export record, a parent and child jobs, names held, files | start, render, render once more, pick a name, deliver, video done, close | video locks, renders, activity jobs |
| Job runner (`jobs/runner.py`, `jobs/store.py`) | turn jobs in memory, by id `j<n>` | submit, retry | turns |
| Event bus (`jobs/events.py`) | a bounded queue per open editor | subscribe, publish, drop the oldest | editor |
| Budget and ledger (`budget.py`, `usage.py`) | open charges, spent per project and day | charge, settle, refund, refund orphans | vendor calls |
| API lease (`lease.py`) | one row per database | acquire, renew, release | process start and stop |
| Rate limits (`ratelimit.py`) | a window of times per key | allow | routes |
| Store (`store/`) | SQLite or Postgres rows | tx, repositories, migrations | everything |
| Purge, exports of data (`purge.py`, `dataexport.py`) | tombstones, files | purge, resume a purge | store, disk |
| Billing (`billing/`, `billing_api.py`) | grants, the plan, checkouts, invoices, events seen, refunds claimed | checkout, webhook, browser's confirmation, refund, grant, balance | payment providers, usage ledger |
| Voice safety (`safety/`, `safety_api.py`, `voice_guard_api.py`) | checks of consent, voice records, suspensions, blocked lines | check, record, scope, verdict, strike, suspend, restore, withdraw | voicing, vendor |
| Clones (`orchestrator/clones.py`) | a video's clones, a lock per speaker, refusals | resolve, purge | voice guard, vendor |
| Agent (`agent/`) | plan, tools, guards | a loop of model call and tool call | turns, orchestrator |
| Orchestrator, render, media, lip sync, adapters | files, caches of clones and content | voice, mix, render, fit | vendors, ffmpeg |
| Accounts, notices, admin, analytics, frontend | rows, mail, views | request handlers | store |

What makes each of the modelled parts correct, and what is hard about it:

* **Locks.** One piece of work at a time may change a video; only the holder lets go; nothing
  stays locked behind a thread that is gone; a question waits for the person it was asked. Hard
  because leases run out, renewal and sweep act on rows they read earlier, a paused or asking turn
  holds a video with no thread, and a restart must clear exactly what only a dead thread could.
* **Turns.** A turn changes the video only under its lock; a stopped one leaves nothing; a paused
  one adds nothing; the lock never sticks. Hard because Stop, Pause, Resume, the auto-stop and the
  deadline each read the lock, the view and the flags one after another while the turn goes on.
* **Up next.** One change is started at a time, none is forgotten, an ended card tells the truth.
  Hard because each release tells a listener on its own thread, which looks at the queue after
  the transaction, while the pool, clicks and other releases do the same.
* **Changes by hand.** The video is what the users asked for, and a change that landed has its
  render. Hard because the lock passes through jobs, to one's own or to one under way, and Stop
  lists jobs that change while it goes through them.
* **Batches.** No video costs more than its share, cancelled batches start nothing, the parent
  ends, and ends last. Hard because Pause, Resume, Cancel and the deadline reach the videos one by
  one, outside the engine's lock, and because what an answer spent is written down late.
* **Exports.** Every file keeps its own name, a job that reads done has its file, the export ends,
  and ends last. Hard because two threads pick names at once, the sweep and a Stop end jobs whose
  threads go on, and the last two files of a video end together.
* **The server.** One process serves, the next one comes, and the ledger is what was kept. Hard
  because a start cleans up before its lease is asked for, and a charge, its open row, the call and
  the refund are four transactions a crash may fall between.
* **Billing.** A payment grants once, a refund is whole, no credit is lost, made, or wasted. Hard
  because events come twice and late, beside the browser's own confirmation, and because grants
  lapse, debts and refunds reach back and the balance is worked out anew from rows.
* **Voices.** One clone for a speaker, a limit on clones, a withdrawn voice gone for good. Hard
  because no route here takes the video's lock, each asks, calls a vendor and writes afterwards, and
  a delete the vendor refuses has to be remembered until it went.

## The modules

| Module | Models | Built on |
|---|---|---|
| `LockTable` | one row of `video_locks` and what each transaction does to it (operators) | |
| `OneEdit` | the promise: what a video may be doing, and who may take it over (abstract) | |
| `VideoLocks` | the lock service with the threads that hold, the renewal thread, the sweep, crash, restart, time | `LockTable`; implements `OneEdit` |
| `VideoLocksProofs` | the theorems about `VideoLocks` and `AddLanding` | `VideoLocks`, `AddLanding`, TLAPS |
| `TurnControl` | one video's turns under Stop, Pause, Resume, the auto-stop, crash and restart | implements `OneEdit` |
| `TurnControlProofs` | the theorems about `TurnControl` | `TurnControl`, TLAPS |
| `UpNext` | the queue of one video with its listeners and runners | |
| `UpNextProofs` | the theorems about `UpNext` | `UpNext`, TLAPS |
| `AddLanding` | Adds and other changes by hand, their renders, previews, Stop | |
| `BatchEngine` | a batch of turns: pool, pause point, clicks, deadline, answers, money | |
| `BatchEngineProofs` | the theorems about `BatchEngine`, with what a fold that adds up comes to | `BatchEngine`, TLAPS |
| `ExportEngine` | a batch export: pool, tries, names, files, Stop, sweep, crash | |
| `ExportEngineProofs` | the theorems about `ExportEngine` | `ExportEngine`, TLAPS |
| `OneServer` | processes, the lease, what a start does to jobs, locks and open charges; the voice budget | |
| `OneServerProofs` | the theorems about `OneServer` | `OneServer`, TLAPS |
| `CreditBalance` | `balance`, and what it should come to: one month after the other (operators) | |
| `Billing` | one owner's account, checkouts, webhooks, refunds, the check before paid work | `CreditBalance` |
| `BillingProofs` | the theorems about `Billing` | `Billing`, TLAPS |
| `VoiceGuard` | clones of the speakers of a video, checks of consent, withdrawal, strikes | |
| `VoiceGuardProofs` | the theorems about `VoiceGuard` | `VoiceGuard`, TLAPS |
| `MCLive` | what must end, come back or be served: seven of the modules, each with its fairness | instances of `TurnControl`, `AddLanding`, `OneServer`, `UpNext`, `Billing`, `ExportEngine`, `BatchEngine` |
| `MC...` | instances for TLC | the module named after it |

A name that ends in `_Slip` is a plausible slip in the code that the definition after it models.
`PROJECT.json` says which property notices it. No specification uses one.

### VideoLocks

`row[v]` is the row, with what is left of the lease where the code compares `lease_expires_at` with
the clock. A holder is a kind (`req-`, `turn:`, `gate:`, `pause:`, or a job's bare id) and an id.
`working[v]` is no variable of the code: it is the holders whose threads, as far as they know, may
change the video. That is what the rows are for, so it is what the properties are about.

| Action | Code |
|---|---|
| `Take` | `lock_held`, `_take_lock` → `take_in` |
| `PassOn` | `LockTicket.hand`, `within` → `hand_in` (request to turn or job, job to turn) |
| `Hold`, `CarryOn` | `_hold_paused`: hand to `pause:` and back |
| `AskForGo` | the turn's end on a question: hand to `gate:` |
| `LetGo` | `release`, `on_end_in` |
| `Die` | a thread that ends without either |
| `DropWaiting`, `ResumeLeft` | Stop or auto-stop of what waits; Resume after a restart |
| `RenewScan`, `RenewOne` | `renew_live` reads the rows, then renews each |
| `Sweep`, `Crash`, `Restart`, `Tick` | `sweep`, the process's end, `clear_leftovers`, the clock |

### TurnControl

`run[r]` is a pass through `_locked_turn` with its place `pc`, what it read and what it will say.
Each place is a point of the code between two transactions or two accesses of a shared set. The
routes `stopper`, `pauser`, `resumer` and `watcher` are threads in the same way. A route named in
`Atomic` runs with nothing between its steps. The edit set is the set of runs whose additions are
in it, and a snapshot is such a set. `Fail` and `HoldFails` are a database, a pool or a disk that
refuses a call.

### UpNext

`status`, `line` and `paused` are the columns. `tell[s]` is an `_after_release` and `start[s]` a
`_run_next`. `work` is what really became of each change, which the code keeps nowhere; the
properties compare the cards with it. The lock is only whose change holds the video.

### AddLanding

`lock`, `edits`, `job`, `made` (renders by edit set), `worker` (a render's thread) and `stop` (a
Stop under way). `meant` is no state of the program: it is the edit set the users asked for. A
render is known by the edit set it is of. `WorkReads` happens when the worker starts and
`WorkStarts` when the video's renderer is free, as in `_export`. Some names here begin with `Landing`, and
the crash is `ServerDies`: `VideoLocksProofs` extends this module together with `VideoLocks`.

### BatchEngine

What the engine does under its lock is one action. Its calls into the videos' turns (`calls`) are
one action per video, since `cancel`, `pause` and `resume` make them outside the lock. `turn[v]`
is a turn as TurnControl describes it: it may pay up to its cap, hold, and end on a question.
`answers[v]` is what the record says each answer spent and `paid` is the ledger. Two histories no step
reads: `crossed`, that the last Pause or Resume came while another click's calls were out, and of an answer
`blind`, that it was let in while the record did not say what another had cost.

### ExportEngine

`items`, `phase` and `moved` are the record. `thread[f]` is where a file's thread stands: `Begin`,
`Try`, `TakeVideo`, `Render`, `PickName`, `Deliver`, `Made`, `Finish`, `VideoDone`, `MoveStage`,
`Progress`, or `Raised` and `FailFile`. `held` is `_export_names_held`, `disk` the files there are.
Names are pairs of a stem and a number, as `_deliver_one` counts them. A Stop, the sweep and a
restart end jobs and nothing else: the thread of a job that is over goes on.

### OneServer

`proc[p].pc` follows the module body of `api/main.py` (jobs, locks, open charges, one by one) and
then the lifespan, which asks for the lease. `call[c]` is a thread inside `VoiceBudget.held` and
`with_retries`: charge, the open row, the vendor, refund or keep, the end of the row. `kept` is
what the takes that were kept cost. Units are half a call, since a design is trued up.

### CreditBalance and Billing

`balance` walks a sequence of points in time, as the code does; `MonthByMonth` is the definition it
is checked against, one month after another. In `Billing` each action is one transaction. A
`handler` is a request: a webhook (`hook`) or a browser's confirmation, from its look at the event
to its answer. `orders` holds `billing_pending` and `billing_paid`, `seen` the `billing_event` keys,
`refunded` the `billing_refund` keys. `sentBack` is the provider's side of a refund.

### VoiceGuard

`line[l]` is a thread that voices a line, from `_voice_for` through `CloneService.resolve` to the
record of the clone, its scope and its verdict. `rec` is `voice_records`, `there` what the vendor
has, `mine` My voices. `leaving` is a withdrawal of one voice, `ending` one of the video's consent,
`keeping` a Save to My voices, `draining` what a start has still to delete. `ended` is no state of the
program: whether consent was withdrawn and no phrase was read since.

## What is checked

Every property has a mutant: a changed definition that TLC must find
to violate it on the same instance.

| Run | Instance | What it shows |
|---|---|---|
| `VideoLocks` | 2 videos, 3 ids, 1 person, leases 2/3/2 | workers covered, `OneEdit` implemented, only the live holder lets go, gates wait for their person, the lock of a dead thread stops being in force (liveness) |
| `TurnControl` | 2 runs, 1 step each, 1 crash or call that raises, every route atomic | works under its lock, a Stop takes out its own and all of it, paused adds nothing, `OneEdit` implemented |
| `UpNext` | 3 items (2 goals), 2 slots, `MAX` 2, 2 direct changes, 1 crash, calls that raise, prompt threads | one started, cards are true, a paused queue starts nothing |
| `AddLanding` | 2 Adds, 1 other change, 1 preview, 2 Stops one after another, 1 crash | the video is as meant; what lands has its render |
| `BatchEngine` | 2 videos, cap 2, 3 clicks of two people, 1 crash; either 2 at a time, one paid call and 1 answer, or 1 at work and 2 answers | the parent ends last; a resumed batch carries on, unless its last click crossed another; the share is exceeded by blind answers only, each by one share at most |
| `ExportEngine` | 3 files of 2 videos with one stem, 2 threads, 2 tries, 1 fault | every file its own, done is there, moved when made, the parent ends last |
| `OneServer` | 2 processes on 2 hosts, an edit and a design, 2 tries, ceiling 3 halves, 1 end, 1 second start | one serves, the ceiling holds, the ledger is exact |
| `Billing` | 2 plans, 2 checkouts, 2 requests, 1 admin, 2 jobs, 3 months, 1 crash | granted once, refunds whole, the balance exact and frugal, overspending bounded |
| `VoiceGuard` | 2 speakers, 2 lines, 3 clones, 1 check, limit 1, 1 strike, 1 fault, consent withdrawn alone | one voice, the limit bounded, withdrawn stays, consent gone |
| `Live` | a part at a time: 1 turn, 1 Add and 1 change, 3 processes, 2 items, 1 checkout, 2 files tried once, a batch of 2 videos, one at a time | the lock of a turn goes, a landing ends, the server comes back, the queue moves, a payment is granted, an export and a batch end (liveness); what is safe with Stop and the queue's threads interleaved |
| `SecondStart` | violation of `OnlyTheDeadAreRefunded` | see Findings |
| `WithdrawnConsent` | violation of `NothingNewIsCloned` | see Findings |

The longest are `VoiceGuard`, `Live` and `BatchEngine`, of two to four minutes on two workers.

### Why the bounds are enough

* *Ids of work.* A lock's row names one holder. Three ids allow a holder, the next one it
  passes to and a third that comes late with an old id; ids are used again when nothing names them.
* *Leases.* With 2, a lease is fresh, is about to run out, or has run out. The gate's lease is longer
  than the others, as `GATE_LEASE` is, so that a renewal that shortens it shows.
* *Runs of a turn.* Two allow a turn and its resumed second run, or two turns one after another.
  One step each (`MaxCalls` 1) is a pause point before, a step, and a pause point after.
* *Queue.* Three items with `MAX` 2 let one wait while one runs and one is refused. Two slots are
  two listeners and two runners at once; `due` counts what the pool has still to start, to two.
* *Changes by hand.* An Add, a second one over its snapshot, and another change whose render the
  preview's job may be. One `Stopper` thread clicks twice, so that the second Stop meets what the
  first left.
* *Batch.* A behaviour shows clicks that cross or answers that cross (`part` of `MCBatchEngine`). Two
  videos at a time make a video at the pause point while another runs. Clicks that cross need a second
  person and a third click: Pause and Resume out at once, and a last one that crosses nothing. Answers of
  two videos share nothing but the batch's cap, so theirs are of one video; a cap of 2 allows a turn to spend
  a part, ask, and an answer to spend the rest, and two answers are one that is late, lost or gave up, and
  one let in meanwhile or after it settled. More of them, and any caps, are what `ShareHolds` proves.
* *Export.* Two files of one video end at once, and a third of another video has the name they ask
  for. One fault is a Stop, a job swept, a thread or the driver that breaks off, or a crash; a parent whose
  driver broke may be swept besides.
* *Server.* A process, and one that takes over or comes beside it. A ceiling of three halves lets one
  call through and makes the second wait for a refund. Liveness has three processes: two may end.
* *Billing.* A behaviour either pays and is refunded, by hosted checkout within a month, or buys at
  once, spends, is given credits and lapses, over three months (`part` of `MCBilling`): the two halves meet only
  in the sequence of grants, and every kind of grant occurs in the second. Two checkouts are one plan twice, two
  plans, or a plan and a top-up. A top-up lives two months, so that lapsing comes within the calendar.
* *Voices.* Two lines are the two of one speaker, or one of each. Three clones are the two made at
  once and one made after a withdrawal. A check that is over changes nothing any more, so one slot
  serves for all that follow each other; two open checks at once are left out. A limit of 1 with two lines is
  the limit plus one. The windows of 24 hours and 30 days do not slide.
* *Live.* One part is at work in a behaviour, the others stand still; of the two changes, the preview
  and the Stop of a landing any three come. A file of the export is tried once: `ExportEngine` has the
  tries, and each ends. The batch's pool has one thread, so that all of it waits at the pause point while a
  video is still queued, with two clicks around the deadline; nobody answers, since an answer's turn comes
  after its video's child is over.
* *Crashes.* One. A second meets a state of the same kind; nothing counts restarts.

`VideoLocks` checks for deadlock. The other runs have `CHECK_DEADLOCK FALSE`: their runs, changes,
items, files, calls, checkouts and clicks are each used once, and when all of them are over nothing is
left to do. That nothing waits on itself before that is what the liveness properties say.

Symmetry is used in `AddLanding`, `BatchEngine`, `ExportEngine`, `Billing` and the two runs of
`VoiceGuard`, which check no liveness.

### Fairness

Nobody has to click, and nothing has to crash. Assumed is only:

* Threads that began go on. Each is a loop or a straight line over calls that return or raise. Where
  all threads have finitely many steps it is enough that one of them takes its step while any can
  (`ServerGoesOn` of AddLanding, `GoesOn` of ExportEngine, the union in UpNext, `Handle` of Billing).
* The renewal thread (`start_renewing`), the lease's (`Lease.start`) and the pause watcher
  (`_watch_pauses`) come round. All are daemon loops that catch what their body raises.
* Time passes and deadlines come (`AUTO_STOP_S` of a hold, the batch's thirty minutes). In UpNext
  a change that works ends.
* A server that went down comes back: Docker restarts the container (OPS.md). In OneServer that is
  a new process whenever none lives (`Respawn`).
* A payment's event is delivered again until it is answered, as both providers do.

The sweep of expired locks is not assumed: it runs on the ping of an open editor
(`main.py:9724`) and so need never come. `DeadLockGoes` holds without it, because a row whose lease
ran out reads as none. Nor is the sweep of silent jobs, which runs when somebody lists jobs
(`activity.py:145`): an export ends without it, unless its driver is what broke (Known departures).

TurnControl has strong fairness for the worker's steps and the watcher's read, because routes
that run atomically disable them. A user who clicks for ever does not make a property hold.
MCLive restates each module's fairness for the part at work; a part that stands still owes nothing.

### Assumptions named in the modules

* `RenewalsKeepUp` (VideoLocks, OneServer): a lease does not run out under a living thread or server.
  `RENEW` is a third of the lease; a hold ends `LEASE_GRACE_S` before its lease does. Without it a
  server that stalled takes its lease back, whoever has it (Known departures).
* `Atomic` (TurnControl), `ThreadsArePrompt` (UpNext), `StopsArePrompt` (AddLanding), `ConsentAlone`
  (VoiceGuard) are settings of runs: the named routes run with nothing between their steps, queue
  threads with no other of theirs in between, one Stop with no other step of a user or worker in
  between, and consent is withdrawn while no line, recording, withdrawal or Save of the owner's is under
  way. The code does not guarantee them. They separate what holds when these do not overlap from what fails
  because they do, which Known departures lists. `Live` sets the first three the other way, for Stop and
  for the queue, as far as what it checks goes; `WithdrawnConsent` drops the last. No theorem assumes
  any of them.
* `WorksWithoutResume`, `PauseWithoutResume` and `LandedIsSafe` are about a turn on which nobody clicks
  Resume (`"resume" \notin Clicks`), as in `Live`; every other route's steps fall as they may.
* `MaxSecond` (OneServer) bounds the processes started beside a living one; 0 in `AloneRefundsTheDead`.
* Crashes come between Stops in AddLanding (see Known departures). `FreeAssumption` says that a free video is
  not a lock row.
* `crossed` and `blind` (BatchEngine), `stale` (`VideoLocksProofs`) and `loose` (`VoiceGuardProofs`) are
  histories: no step reads them, and a property names with them the one case it does not cover.
* Ids of turns are unique in TurnControl. In the code they start again after a restart
  (`jobs/store.py`); that is in the plan (TurnIds).
* In VoiceGuard the flags of voice guard and of verified cloning are on, and every vendor gives a
  clone an id of its own.

## What is proved

From the named assumptions on the constants, for every value of them: every set of videos, people,
work, files and names, every lease, pool and number of tries.

| Module | Theorem | Statement |
|---|---|---|
| `VideoLocksProofs` | `TypeCorrect` | `Spec => []TypeOK` |
| | `WorkersAreCovered` | `RenewalsKeepUp => (Spec => []WorkIsCovered)` |
| | `OneWorkerAtATime` | `RenewalsKeepUp => (Spec => []OneWorker)` |
| | `ImplementsOneEdit` | `RenewalsKeepUp => (Spec => EditSpec)` |
| | `HoldersLetGo` | `Spec => OnlyItsHolderLetsGo` |
| | `QuestionsWait` | `Spec => WaitsForItsPerson` |
| | `LandingTypeCorrect` | `LandingSpec => []LandingTypeOK` |
| | `LandsRendered` | `LandingSpec /\ History => [][lock # Free /\ lock.id \notin stale => LandsStep]_<<landingVars, stale>>` |
| `ExportEngineProofs` | `TypesHold` | `Spec => []TypeOK` |
| | `ParentLast` | `Spec => []ParentEndsLast` |
| | `OwnFiles` | `Spec => []FilesAreTheirOwn` |
| | `MovesWhenMade` | `Spec => []MovedWhenMade` |
| `TurnControlProofs` | `TypeCorrect` | `Spec => []TypeOK` |
| | `ImplementsOneEdit` | `Spec => EditSpec` |
| | `StoppedIsGone` | `Spec => []StoppedLeavesNothing` |
| | `WorksWithoutResume` | `"resume" \notin Clicks`: `Spec => [](WorksUnderItsLock /\ StoppedLeavesNothing)` |
| | `PauseWithoutResume` | `"resume" \notin Clicks`: `Spec => PausedAddsNothing` |
| | `LandedIsSafe` | `"resume" \notin Clicks`: `Spec => [][LandedStays \/ LatePut]_vars` |
| `UpNextProofs` | `TypeCorrect` | `Spec => []TypeOK` |
| | `OneRuns` | `Spec => []OneStarted` |
| | `RunsOnce` | `Spec => [][GetsItOnce]_vars` |
| | `PausedStartsFew` | `Spec => [][paused => PausedStep]_vars` |
| `BatchEngineProofs` | `TypeCorrect` | `Spec => [](TypeOK /\ TypeInv)` |
| | `ParentLast` | `Spec => []ParentEndsLast` |
| | `ResumedGoesOn` | `Spec => []ResumedCarriesOn` |
| | `ShareHolds` | `Spec => []PaidPerBlindAnswer` |
| `OneServerProofs` | `TypeCorrect` | `Spec => []TypeOK` |
| | `OneServesAlways` | `RenewalsKeepUp`: `Spec => []OneServes` |
| | `CeilingHolds` | `Spec => []UnderCeiling` |
| | `AloneRefundsTheDead` | `MaxSecond = 0`: `Spec => OnlyTheDeadAreRefunded` |
| | `LedgerHolds` | `Spec => []LedgerIsExact` |
| `BillingProofs` | `TypeCorrect` | `Spec => [](TypeOK /\ TypeInv)` |
| | `GrantedOnce` | `Spec => []PaidOnce` |
| | `RefundsAreWhole` | `Spec => []RefundIsWhole` |
| | `BalanceHolds` | `Spec => []BalanceIsExact` |
| | `OverspendHolds` | `Spec => []OverspendIsBounded` |
| | `LapsesLeastHolds` | `Spec => []LapsesLeast` |
| `VoiceGuardProofs` | `TypeCorrect` | `Spec => []TypeOK` |
| | `LimitHolds` | `Spec => []LimitBounded` |
| | `OneVoiceEach` | `Spec /\ History => []OneVoiceNamed` |
| | `WithdrawnForGood` | `Spec =>` a withdrawn voice stays so, and none comes back or stops waiting but by `MarkWithdrawn` |

**The lock table**, from `LeaseAssumption`, `RenewalAssumption` and `ReadyAssumption` (a Ready video
is not a row). `OneWorker` is not inductive: a state with one worker whose row is another's would
let a second one take the video. The inductive invariant is
`IInv == TypeOK /\ WorkIsCovered /\ DownIsIdle`: whoever may change a video is the holder its row
names, in force, and a server that is down has no threads. Two workers of a video are then both the
one the row names.

The argument has three layers. Lemmas on `LockTable`'s operators say what a take, hand, renewal,
release, sweep and clear return (`TakenIsLock`, `HandedIsRow`, ...). `ThreadStepCovers` says that
every step of a thread writes one row and one set of workers such that the workers are covered
(`RowStep`), and `RowStepKeeps` that this keeps the invariant; the steps of the loops and of time
follow one by one in `NextIInv`. `ImplementsOneEdit` maps a row in force to what the video is doing
and each step to a step of `OneEdit` or a stutter: a hand to `GoOn` or `Shift`, a sweep, a restart
or a tick to `End` of a set of videos. `IInv` is what makes a hand start from a row in force.
The types and the two action properties need no renewal in time: they follow from
`StallInv == TypeOK /\ DownIsIdle` and that no gate works, one lemma per kind of step saying that what it
does to a row is done rightly (`Rightly`: only the row's own holder ends it, and a question keeps its person).

**Adds and their renders**, from `LandingAssumption` and `FreeAssumption`, and nothing of how Stops fall.

* `LockInv`: a request at work has the lock as itself (`Requests`), the job of a change is under way exactly
  while it has the lock (`Holders`), and what a Stop goes on to end was the job of an Add (`Routes`). So
  nothing lands beside another change.
* `RenderInv` says that the worker of the change that has the lock renders what is in the video, and that a
  worker at its end has made its render. What can take this away is a Stop that puts its edit set back
  between the worker's read of the set and the end of the render (Known departures): the history `stale`
  holds the renders to which that happened, from that step until they end. `LandsRendered` is
  `LandsWithItsRender` for all others: every step in which a change that is not `stale` ends done and lets the video go
  has the render of what is then in the video.

**The batch export**, from `ExportAssumption`. None of the three properties is inductive; the
invariant is `IInv == TypeInv /\ LastInv /\ FilesInv /\ MoveInv`:

* `TypeInv` adds to the types that a thread which may try again has a try left (`TriesLeft`);
* `LastInv` says of the driver what `ParentEndsLast` says of the job, one step earlier: when it is
  about to end the parent, the record is finished and every thread and child is over;
* `FilesInv` says that a picked name is on the disk only as its thread's own file and is nobody
  else's, and that a thread past its delivery has its row's file: without it two threads could pick
  one name in one state the property allows;
* `MoveInv` says that of a video whose files are all made and that was not moved, one thread has yet to
  look (`finish` or `look`), as long as nothing broke off: that is why the last of two threads that end
  at once sees it done.

Each part has a lemma for the steps of one file (`FileStep`, one case per action) and one for what goes
on around the files (`AroundStep`: the driver, sweeps, Stops, other changes, crash, restart).
Steps that leave a part's variables alone go through a lemma that says so (`FileStepKeeps`,
`QuietFiles`, `QuietMove`).

**A turn under its clicks**, from `ControlAssumption` and `ReadyAssumption`. That a row implements
`OneEdit` needs no promptness: `Names` says that the run whose steps hand a row on is the one the row
names. Nor does it that a stopped turn leaves nothing (`StoppedIsGone`): `CleanInv` says that nothing in
the video, the row, a snapshot or what a Resume read knows a run which has added nothing yet (`Unknown`),
so a snapshot is of the time before its run (`BeforeIt`), and whoever puts one back for a Stop takes the
run's own work out (`AllClean`).

A run that works under its lock is no inductive fact: what a run does next depends on the snapshot, the
ticket and the sets it read before. `Core` says where a run has the lock and under which key (`HasLock`,
`Tickets`), that one run has it (`OneHas`), that a hold is known to the routes (`OnHold`), that the snapshot
a run or a row carries is what Stop would put back (`Snaps`, `LandedKept`), and what a run that ends will
do (`Ends`, `NotYet`). A Resume whose steps are crossed breaks it (Known departures). Where nobody clicks
Resume (`WorksWithoutResume`, `PauseWithoutResume`, `LandedIsSafe`) a turn pauses once and then only ends.
`PauseInv` says of a pause that a row shows or a route read that its turn is on its way out of it (`Leaving`), and
of one a route acts on that its turn is past it (`Gone`), however long ago the route looked. A route that
drops such a pause then drops nobody's lock (`CoreDrops`), and `Core` stays. What landed is then taken out
only by a route that puts back the snapshot of a lock which is not the row any more (`LatePut`).

**The queue**, from `QueueAssumption`, whatever threads interleave. A claim looks and writes in one
transaction, and with no card started (`OneCard`) it makes one: `OneRuns`. `RunsOnce` is about the work
itself and not the cards, which may say otherwise (Known departures). `OnceInv` says of what a thread has claimed
and takes to the door that no work of it was begun, that no other thread has it, and that its card was
claimed, so a change that has the video gets it for the first time, whoever ends its card meanwhile. `PausedStartsFew` is what remains of a pause when
a runner that looked at the queue before it goes on after: no runner passes its look at a paused queue, and
each one past it claims one card at most, with no other started.

**The batch**, from `BatchAssumption`.

* `LastInv` (`Waiting`, `Begun`, `DownIsQuiet`) says that a child which is not over has a thread,
  and that a turn of the batch which goes on belongs to it.
* `ResumeInv` (`AfterDone`, `Callers`, `PausedOrReached`) says that a child which waits on a paused
  turn is in a batch that is paused, cancelled or being dropped, or is still on the list of a Resume,
  unless the last Pause or Resume came while another click's calls were out (`crossed`). A Pause or Resume that
  crosses nothing makes all well again, whatever crossed before it.
* The money is a sum over the answers of a video: a fold of the
  community modules over a sequence. No installed prover takes the library's induction theorems, which
  have an operator as a parameter. What the proof needs of the fold is therefore derived in the module from
  the least element of a set of counterexamples (`Induction`): that the fold is a sum (`SumOfIsSum`), the
  same in whatever order it is taken (`SumsSame`, `SumWithout`), and what an appended or changed answer
  does to it (`SumOfAppend`, `SumOfExcept`). `OwnInv` says whose a turn is. `ShareInv` is about a video none
  of whose answers was let in blind: what its turn may still spend and what of it the record has, and of
  each answer that it is alone, read the rest truly and runs under it. `BoundInv` takes over from the
  first blind answer on: what a video was paid, what its turn may still spend and what its one reading answer was
  given come to a share, and one share more for each blind answer that has run or will not. That one
  answer that is not blind reads at a time is what makes the count hold (`OneReads`).

**The server**, from `ServerAssumption`. `LeaseKept` (who serves has a fresh lease in its name) is
inductive while renewals keep up, and gives `OneServes`. `UnderCeiling` is a guard of one
transaction that nothing else undoes; the proof is that refunds, in whatever order they come and
however often, never raise the ledger. `AloneRefundsTheDead` is the other side of the finding
`SecondStart`: when no process is started beside a living one (`MaxSecond = 0`), only charges of dead
processes are given back, since a start that lists open charges is then alone (`ReadsOthers`).
`LedgerHolds` is about the sum over all calls. Its invariant `LedgerInv` says that while no process was
started beside a living one and no process died between a write and its mark, the ledger is the total of
what each call owes (`Owed`: its kept takes, and the charge it has open), that a start that
gives back is alone and has read every open charge, and that what is open once it serves are charges of its
own calls (`Listed`). That a total
moves by what the one call that moves owes more or less (`TotalMoves`) needs no induction: the running sum
that witnesses a total (`IsTotal`) is shifted. Only that the fold of the property is the total (`OneTotal`)
is an induction, over the size of the set; `ServerAssumption` says the calls are finite.

**Payments and refunds**, from `BillingAssumption` (`None` is no checkout, no item and no month; the jobs
are finitely many, as `OverspendIsBounded` counts them).
`PaidInv` says of each payment what its event, its `billing_paid` key and its invoice say of each other
(`Payment`), of each request that its checkout has come in, and that a purchase at once is the work of
one request only (`Handling`); and of the grants that a plan has one row a month (`Once`). `PaidOnce` is not
inductive without `Handling`: two requests could grant the same purchase at once. `RefundInv` says of each
refund that it took back its credits in one row or in none (`Taken`), and of each administrator at work
that the claim is theirs alone and that they take credits after the money went (`Claims`). What the rows
say is kept by every append (`Keeps`), which is shown once for the account's own rows, a purchase's and an
admin's. The sum in `RefundIsWhole` is then that of at most one row (`CreditsOfNone`, `CreditsOfOne`).

**The balance**, from `TopupAssumption` and for any rows and ledger. `balance` is sums and loops, which
`CreditBalance` writes as recursive functions: their equations (`TotalWithout`, `ComeIs`, `RoundsAre`)
are proved from the functions that satisfy them, by counting (`Counting`) and gathering (`Gathering`).
The `Value` of an account is what is left less what is owed plus what lapsed. Taking lowers it by what was
spent, a grant raises it by its credits, lapsing leaves it (`TakeValue`, `ArriveKeeps`, `LapseKeeps`), so
after each round it is what came less what was spent (`RoundsStand`), which is the first part of
`BalanceIsExact`. The second part compares the rounds at the chosen points with those of every month,
month by month (`Agree`): between two points nothing comes and nothing lapses, and to take an amount and
then another is to take both (`TakeTwice`), as long as neither is given back. Of `Billing` they need that
no row is of a month to come (`Calendar`), and that a step writes at most two rows, each of this month
(`StepGrows`).

`OverspendIsBounded` needs more than the sums, since a lapse lowers what is left. Credits are owed only
when none is left (`Tight`, `TightRounds`), so a month that begins lets none lapse while any are owed and
what is left stays or is not below 0 (`NextMonth`). A row more leaves the account as it stood until this month
(`Like`, `LikeRounds`) and lets no more lapse (`MonthsLapseLess`), so it lowers what is left by no more
than it takes back (`OneRowMore`). What is recorded this month changes nothing of what lapsed
(`LapsedBefore`), so a job's spending lowers it by one (`LedgerCovers`). The inductive invariant `Covers`
keeps what is left above what was taken back by as many credits as there are jobs that asked, less all
the jobs: a job that is let through saw a credit left, and one that spends gives its place back.

`LapsesLeast` says that no way of paying each credit used from a grant that could pay it loses fewer credits
than `balance` does, because the soonest to lapse pays first; it is about accounts whose rows all give and whose
months are not below zero. Such a way is a choice for each used credit at
once; the proof turns it into one made month by month (`WayOf`, and `WayIsAllots` back again, by dealing the
credits of a month out to the grants one after another). `balance` month after month is such a way itself
(`Greedy`). Two ways are compared by `Ahead`: whatever time one takes, what has lapsed by then, or would
if nothing more were used, is no more in the account's way than in the other. `Ahead` is kept
when grants come and lapse (`AheadReady`) and when both pay the same amount (`AheadTake`), because the first
grants to lapse give the amount or all they have (`FirstGive`). So it holds in each month (`AlwaysLeads`), and
of the last one it is the property (`GreedyIsBest`). Of `Billing` it needs that nothing was used before the account
was opened (`NotBefore`), and what `BalanceIsExact` needs.

**Voices**, from `VoiceAssumption`. `LimitHolds` counts: records of the window and lines that were let
through are together under the limit and the lines (`LimitKept`), because a record is counted in the step
that ends its line's passage. The others rest on `GuardInv`, whatever withdrawals cross: a line knows the
clone it made and shares it with no other (`LinesKnow`, `LinesApart`), what has a record is of a
speaker (`Recorded`), and a withdrawal of one voice that is about to mark it deleted has it deleted (`Leaves`). So a
withdrawn voice stays withdrawn and gone, and of what a voice waits for only `MarkWithdrawn` writes more than
it saw (`WithdrawnForGood`). `OneVoiceEach` adds that a voice in use is the one its speaker's name is set to
(`RightVoice`), as is the one a line is about to record (`RightLine`), but for those in the history `loose`: voices whose
name a purge or a `forget_withdrawn_voice` took away while the vendor had them in use. A second clone is
never made beside the first for any other reason, however many lines run at once and whatever fails.

Where a run checks the property of a theorem, its constants satisfy what the theorem assumes. Each
inductive invariant was model-checked on the instance of its module's run, or a smaller one, before it was
proved.

Only model-checked: all liveness and `ENABLED`, which are out of the prover's reach, and the module `MCLive`,
which is instances of the others. Of its invariant `SafeMeanwhile` the queue's half is `TypeCorrect` and
`OneRuns` of `UpNextProofs`, which assume nothing of the threads, and the turn's half, with a Stop whose steps
may be interleaved, is `TypeCorrect` and `WorksWithoutResume` of `TurnControlProofs`: `Live` has no Resume.
That its composed behaviours are behaviours of each part is not proved. Also only checked, under the settings of
their runs: `AsMeant`, `CardsAreTrue`, `PausedStartsNothing`, `StopTakesItsOwn`, `OneVoice`, `WithdrawnStays` and
`ConsentGone`. They hold when the threads of the setting do not overlap and fail when they do (Known
departures); the theorems about the same state say what holds either way.

## Findings

Each is a run in which TLC finds the property violated by what the code does.

* **`SecondStart`.** `refund_orphans`, `interrupt_leftovers` and `clear_leftovers` run when
  `api/main.py` is imported; the lease is asked for in the lifespan, later. A process started beside
  a living one has given back the open charges of the living one's calls, failed its jobs and
  cleared its locks by the time it is refused. `main.py:1086` says the charges are those "a crashed
  process left open".
* **`WithdrawnConsent`.** A line asks for consent once, at the start. When consent is withdrawn after
  that, and after voice guard was asked, the line makes its clone and the speaker keeps it, though
  `withdraw_consent_now` says "nothing new is cloned until it is given again" (`main.py:11130`).

## Known departures

Met while modelling, each a behaviour of the code. The properties above are stated so that they hold
beside them, and say so where they leave one out.

In VideoLocks and OneServer:

* Without `RenewalsKeepUp` a lease can run out under a thread that works, and two may change a video.
* `Lease.renew` writes its row whoever has it by then (`lease.py:78`): a server that stalled past its
  lease takes it back from the one that serves.
* A crash between a charge and its open row keeps the charge; one between a refund of an open charge and
  the end of its row gives it back a second time (`budget.py:106`, `budget.py:135`). `LedgerIsExact`
  leaves these two windows out.
* The open row is written after the charge and before the `try` (`budget.py:110`): when the database
  refuses that write the charge stays with no row and no refund. The module has no such step.

In TurnControl:

* `_resume` reads the lock (`main.py:8838`), then asks whether the turn holds (`main.py:8847`). If the
  hold ended in between (another Resume, or its deadline), the restart path starts a second run of a
  turn that goes on, without the lock. `pause.py:112` and `_start_turn`'s docstring say otherwise. Hence
  "resume" in `Atomic`.
* `stop_video` reads the lock (`main.py:9297`), then asks whether the turn holds (`main.py:9302`). If the
  hold has ended in between and a later turn has landed before the route goes on, `_stop_left_pause` puts
  back the snapshot of the old pause over what that turn landed (`main.py:8875`). `_auto_stop_due` reads
  the same way. Hence "stop" and "watch" in `Atomic` for `StopTakesItsOwn`; what the stopped turn added is gone all
  the same (`StoppedIsGone`).
* A Stop after the worker's last look at `_stops` (`main.py:8519`), or before `_stops.discard` at
  the start (`main.py:8499`), is answered and then forgotten: the turn's work stays in.
* `_set_turn` reads the view and writes it back in two transactions (`main.py:6402`). A Pause that
  read the view before the turn ended writes running over done, and the editor then shows
  Interrupted.
* When the database refuses the hand at the end of a hold, the turn ends without the lock, which
  stays with its pause until the auto-stop. A Stop or the auto-stop then puts back a snapshot over
  what the turn landed (`Astray`).

In UpNext:

* The listener of a release reads which change runs after the transaction (`main.py:9546`); one
  claimed in between is taken for it and finished as done. Hence `ThreadsArePrompt` for `CardsAreTrue`.
* A direct change that fails while a queued turn's question is open ends that question's card
  (`main.py:9550`).
* A question asked by another turn keeps the card of a finished change at Running (`main.py:9547`),
  and after a restart that of a lost one (`main.py:9627`).
* What waits behind a direct change that a crash lost is forgotten: `clear_leftovers` tells no
  listener and `_recover_queue` looks only at started cards (`main.py:9632`). Hence no crash in the
  queue of `Live`.
* A start that raises leaves its card Running and the queue blocked (`main.py:9615`); the next
  direct change ends it as done. Hence no call that raises in the queue of `Live`.
* A crash may leave a card that the next change ends as done; `CardsAreTrue` says so.
* A Pause between a card's claim and its refusal lets the other change's release end the card.
* A lock whose thread died without letting go tells the listener only when it is swept, which
  takes an open editor: until then what waits behind it waits. UpNext's changes always let go.

In AddLanding:

* `stop_video` reads the lock once (`main.py:9299`) and `_stop_video` then cancels every job that reads
  as queued (`main.py:9275`). An Add that ships in between loses its render and stays in the video.
  `/jobs/stop` (`main.py:9264`) does the same with no race: it never looks at the lock. The module has
  no such step.
* A crash between the steps of a Stop leaves the Add in with its job cancelled.
* A Stop that restores from a lock it read earlier can undo what landed since (`main.py:9331`).
* A Stop between `WorkLooks` and `WorkLands` leaves the render of a stopped Add in
  `settings.renders`.

In BatchEngine:

* What an answer cost is written by a thread of its own, some time after the answer's turn ended; never
  when `_await_turn` gave up on that turn (`BRIEF_TURN_WAIT_S`, which a pause uses up: 0.0 is written,
  `main.py:4314`) or a crash took the thread. An answer that comes before that is worked out from the same rest
  (`main.py:4880`), and the video costs more than its share, though `answer_batch_video` promises "what is left
  of its share of the batch's cap" (`main.py:4868`). Two that read at once also write their costs to one
  place of the record. `blind` names these answers, and `PaidPerBlindAnswer` says how much more they cost.
* A video past its pause point starts its turn in a batch paused since (`batch.py:223`); one past it
  when Cancel looked for a turn to stop starts one too, whose job is cancelled.
* The deadline of a pause sets `paused` to False and then cancels (`batch.py:411`): a waiting video
  may start in between, and a new Pause or Resume is overridden.
* `BRIEF_TURN_WAIT_S` counts the time a turn is paused: a child paused for long fails by timeout,
  and Resume no longer reaches its turn.
* Pause and Resume that overlap, in two requests, leave a turn paused in a batch that goes on
  (the loops of `batch.py:366` and `batch.py:386`, outside the lock), until the next Pause or Resume.
  `crossed` names them.
* `_drive` and `_close` have the shape of those of an export (`batch.py:265`, `batch.py:275`): a call to
  the database that raises there leaves the parent running. Here the module has no such step.
* After a restart the record's phase still reads running, though its jobs are over. So it does in an
  export.

In ExportEngine:

* A file whose job a Stop or the sweep ended is rendered, named and delivered all the same; its row
  has the file and its job does not say so. A parent that was swept reads failed when everything was
  made.
* `_drive` reads the record before its `try` and calls `_close` in its `finally`, and `_close` reads and
  writes the database with nothing around it (`exports.py:199`, `exports.py:207`). When such a call raises
  (`DriverBreaks`), the driver is gone and the parent reads as running until somebody's list of jobs sweeps it
  or the server restarts, though the comment says "the parent always ends" (`exports.py:204`).
  `ExportEnds` leaves it out and the safety properties do not.

In Billing:

* `buy_plan` looks only at the plan the account is on now (`billing/__init__.py:321`). Two checkouts for
  one plan that are both paid in a month are both invoiced, and the second grants nothing, though
  `fulfil` says a payment "grants what it bought, once" (`billing/__init__.py:366`).
* A refund of an older invoice of the plan the account is on takes the plan off.
* A crash between the claim of a refund and its end leaves the claim, and nobody may refund that
  invoice again. When the provider's answer is lost the credits stay until the refund is tried again.
* When calls were given back, the ledger has negative rows and what lapses depends on the points the
  balance works at: hence the condition on the second part of `BalanceIsExact`.
* What a month gave back beyond what it used goes to the first grant even when credits are owed
  (`billing/__init__.py:178`), and lapses with it while the debt stays. The account can then be
  further below 0 than its jobs and what was taken back account for: hence the condition of
  `OverspendIsBounded`. The run, which lets a month give back one credit beyond its use at most,
  is too small to show it.
* A crash between a beta code's key and its grant uses the code up (`beta.py`, not modelled).

In VoiceGuard, when consent is withdrawn while other work is under way:

* A recording that is being checked passes afterwards: `check_liveness` writes over whatever the row
  reads (`safety_api.py:159`).
* `purge` reads the clones a second time (`clones.py:145`): one that only the second read has is deleted
  at the vendor and its record stays active.
* A clone the vendor refuses to delete stays its speaker's: the speaker's lines are refused until
  somebody takes the voice back.
* A voice taken back whose delete the vendor refused is marked deleted by a withdrawal of consent that
  read it before, and no start tries again.
* Save to My voices that checked a voice before it was withdrawn keeps it there.
* `forget_withdrawn_voice` compares and then clears: a clone made in between is forgotten.
* A phrase that was not read yet survives the withdrawal, although `withdraw_checks` is there so that
  "the next consent reads a new phrase" (`main.py:11143`).

And at any time:

* A withdrawal of consent deletes the clones and then marks their records (`main.py:11133`). A crash in
  between leaves the record of a clone that is gone active: `OneVoice` counts voices at the vendor.
* A crash between the vendor's answer and `set_clone` leaves a clone that nothing names.
* A clone whose record was not written passes the check of its scope; the next start records it, as
  active. When its consent was withdrawn by then and the vendor had refused to delete it, it comes back:
  two faults, and `ConsentGone` is for one at a time.
* A strike suspends an account again that an admin has just restored, on the blocked lines of the
  last 24 hours.

## What is not modelled

* **In the plan** (below): turn ids, activity jobs' merge of a detail, the event bus, rate limits, purge,
  the content cache, retime and arrange.
* **Out of TLC's reach**: signal processing (`media`, `continuity`, `lipsync`), ffmpeg work
  (`render`), what the model says and what a tool computes (`agent`, `orchestrator/planner.py`), the
  rules of voice safety about words and sound.
* **Sequential rows in and out**: accounts, notices, admin, analytics, flags, most of `store/`, the
  link import; wording and layout: templates, PDFs, mail.
* **Vendors, the frontend, bench and chaos tools**: external to the backend's state. What a user may
  send from the frontend is the users' actions of the modules.

Left out of the modelled parts: the wording of views and refusals, `relabel` and `set_snapshot`
apart from `AddLanding`'s snapshot, `VideoQueue.edit`, estimates, Add all that passed (AddLanding
once per video), prices and tax, `AVE_ALLOW_SECOND_API`, the queue of held lines (a line that is held
ends), what a user has to confirm before a voice speaks or an export is made, a voice picked for a
speaker on purpose, the lines prepared ahead, and the audit pack. In VoiceGuard the
two writes of Save to My voices that nothing reads apart are one, and so are a drained voice's delete
and its mark.

## The plan

Done: `LockTable`, `OneEdit`, `VideoLocks`, `TurnControl`, `UpNext`, `AddLanding`, `BatchEngine`,
`ExportEngine`, `OneServer`, `CreditBalance`, `Billing`, `VoiceGuard`, `MCLive`, and the proofs of all but
`MCLive`.

Next, most important first:

1. `TurnIds`: the job runner's ids that start again after a restart, with the sets kept by id.
2. The queue of held lines: two admins, a deadline, a line that was voiced otherwise meanwhile.
3. The content cache and the purge that stops half way.
4. Operators checked against definitions: rate limits' sliding window, retime and arrange, the
   event bus's bounded queue.
