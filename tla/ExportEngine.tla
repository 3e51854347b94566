----------------------------- MODULE ExportEngine -----------------------------
(***************************************************************************)
(* A batch export (jobs/exports.py): a parent job, one child job and one   *)
(* row of the record for each file, a pool of threads that render a file,  *)
(* once more when that fails, and a driver that closes the export when     *)
(* every thread came back.  A file waits for its video's lock, renders,    *)
(* picks a name nobody has, and is delivered (_deliver_one in              *)
(* api/main.py).  Around it: a Stop on a video, the sweep of silent jobs   *)
(* (jobs/activity.py), a crash and a restart.                              *)
(*                                                                         *)
(* X_Slip is a slip in the code X models (see LockTable).                  *)
(***************************************************************************)
EXTENDS Naturals, FiniteSets

CONSTANTS
    File, Video,
    VideoOf,           \* [File -> Video]
    Stem,              \* [File -> the name its preset's pattern gives it]
    None,
    Concurrency,       \* CONCURRENCY, threads of the pool
    Attempts,          \* ATTEMPTS for one file
    MaxFaults          \* bound on Stops, sweeps, crashes, and threads or drivers that break off

Names == {Stem[f] : f \in File} \X (1..Cardinality(File))

ASSUME ExportAssumption ==
    /\ VideoOf \in [File -> Video] /\ \A v \in Video : \E f \in File : VideoOf[f] = v
    /\ DOMAIN Stem = File /\ IsFiniteSet(File) /\ None \notin File \cup Names
    /\ {Concurrency, Attempts} \subseteq Nat \ {0} /\ MaxFaults \in Nat

VARIABLES
    phase,      \* of the record: "running" or "finished"
    items,      \* of the record: [File -> the name of its file, whether a reason is told, its attempts]
    moved,      \* of the record: videos whose every file was made
    stage,      \* videos that were moved to Exported
    parent, child,   \* the jobs' statuses
    thread,     \* [File -> where its thread stands]
    driver,     \* where the driver stands
    lock,       \* [Video -> the file that has its lock, or None]
    busy,       \* videos that another change has
    held,       \* _export_names_held: [File -> the name it picked]
    disk,       \* [file names -> the file whose picture is in it]
    stopping,   \* files whose jobs a Stop has listed
    broke,      \* whether a thread broke off: the database refused a call
    up, faults

record == <<phase, items, moved>>
jobs == <<parent, child>>
place == <<lock, busy, held, disk>>
bounds == <<broke, up, faults>>
vars == <<record, stage, jobs, thread, driver, place, stopping, bounds>>

Over == {"done", "failed", "cancelled"}
\* Where a thread is between the pool and its end.
Working == {"begin", "try", "wait", "render", "name", "deliver", "made", "finish", "look", "move", "fail", "progress"}

TypeOK ==
    /\ phase \in {"running", "finished"} /\ moved \subseteq Video /\ stage \subseteq Video
    /\ items \in [File -> [file : Names \cup {None}, error : BOOLEAN, attempts : 0..Attempts]]
    /\ parent \in {"running"} \cup Over /\ child \in [File -> {"queued", "running"} \cup Over]
    /\ thread \in [File -> {"queued", "over"} \cup Working]
    /\ driver \in {"waits", "ends", "over", "broken"}
    /\ lock \in [Video -> File \cup {None}] /\ busy \subseteq Video
    /\ held \in [File -> Names \cup {None}] /\ disk \in [Names -> File \cup {None}]
    /\ stopping \subseteq File
    /\ broke \in BOOLEAN /\ up \in BOOLEAN /\ faults \in 0..MaxFaults

\* start: the jobs, the record and the driver.
Init ==
    /\ phase = "running" /\ moved = {} /\ stage = {}
    /\ items = [f \in File |-> [file |-> None, error |-> FALSE, attempts |-> 0]]
    /\ parent = "running" /\ child = [f \in File |-> "queued"]
    /\ thread = [f \in File |-> "queued"] /\ driver = "waits"
    /\ lock = [v \in Video |-> None] /\ busy = {}
    /\ held = [f \in File |-> None] /\ disk = [n \in Names |-> None]
    /\ stopping = {} /\ broke = FALSE /\ up = TRUE /\ faults = 0

\* ActivityJobs._move: a job that is over is frozen.
Moved(was, status) == IF was \in Over THEN was ELSE status
Child(f, status) == child' = [child EXCEPT ![f] = Moved(@, status)]
Fault == faults < MaxFaults /\ faults' = faults + 1
At(f, pc) == up /\ thread[f] = pc
To(f, pc) == thread' = [thread EXCEPT ![f] = pc]
------------------------------------------------------------------------------
(* One file: _one, and render_one which is _deliver_one *)

PoolTakes(f) ==
    /\ At(f, "queued") /\ driver = "waits" /\ Cardinality({g \in File : thread[g] \in Working}) < Concurrency
    /\ To(f, "begin")
    /\ UNCHANGED <<record, stage, jobs, driver, place, stopping, bounds>>

\* activity.start: a child that was stopped while it waited stays as it is, and its file is made.
Begin(f) ==
    /\ At(f, "begin") /\ To(f, "try")
    /\ Child(f, "running")
    /\ UNCHANGED <<record, stage, parent, driver, place, stopping, bounds>>

Try(f) ==
    /\ At(f, "try") /\ To(f, "wait")
    /\ items' = [items EXCEPT ![f].attempts = @ + 1]
    /\ UNCHANGED <<phase, moved, stage, jobs, driver, place, stopping, bounds>>

\* An attempt that raised: one more, or the reason is written.
Raised(f) ==
    IF items[f].attempts < Attempts
    THEN To(f, "try") /\ UNCHANGED items
    ELSE To(f, "fail") /\ items' = [items EXCEPT ![f].error = TRUE]

\* _waiting_lock: it waits while another change has the video, and gives up past BATCH_LOCK_WAIT_S.
TakeVideo(f) ==
    LET v == VideoOf[f]
    IN  /\ At(f, "wait")
        /\ IF v \notin busy /\ lock[v] = None
           THEN lock' = [lock EXCEPT ![v] = f] /\ To(f, "render") /\ UNCHANGED items
           ELSE Raised(f) /\ UNCHANGED lock
        /\ UNCHANGED <<phase, moved, stage, jobs, driver, busy, held, disk, stopping, bounds>>

\* _export under the lock, which goes with the block.
Render(f) ==
    /\ At(f, "render")
    /\ lock' = [lock EXCEPT ![VideoOf[f]] = None]
    /\ (To(f, "name") /\ UNCHANGED items) \/ Raised(f)
    /\ UNCHANGED <<phase, moved, stage, jobs, driver, busy, held, disk, stopping, bounds>>

\* The first of its stem's names that no other file has made or picked.
Taken_Slip(f) == {items[g].file : g \in File \ {f}}
Taken(f) == {items[g].file : g \in File \ {f}} \cup {held[g] : g \in File \ {f}}
PickName(f) ==
    /\ At(f, "name") /\ To(f, "deliver")
    /\ \E n \in 1..Cardinality(File) :
        /\ <<Stem[f], n>> \notin Taken(f) /\ \A j \in 1..(n - 1) : <<Stem[f], j>> \in Taken(f)
        /\ held' = [held EXCEPT ![f] = <<Stem[f], n>>]
    /\ UNCHANGED <<record, stage, jobs, driver, lock, busy, disk, stopping, bounds>>

\* deliver_mod.deliver, and the move into the export's folder under the name.
Deliver(f) ==
    /\ At(f, "deliver")
    /\ \/ To(f, "made") /\ disk' = [disk EXCEPT ![held[f]] = f] /\ UNCHANGED items
       \/ Raised(f) /\ UNCHANGED disk
    /\ UNCHANGED <<phase, moved, stage, jobs, driver, lock, busy, held, stopping, bounds>>

Made(f) ==
    /\ At(f, "made") /\ To(f, "finish")
    /\ items' = [items EXCEPT ![f].file = held[f], ![f].error = FALSE]
    /\ UNCHANGED <<phase, moved, stage, jobs, driver, place, stopping, bounds>>

Finish(f) ==
    /\ At(f, "finish") /\ To(f, "look")
    /\ Child(f, "done")
    /\ UNCHANGED <<record, stage, parent, driver, place, stopping, bounds>>

\* _video_done, in the lock: the last file of the video marks it as moved.
AllMade(v) == \A g \in File : VideoOf[g] = v => items[g].file # None
VideoDone_Slip(f) ==
    LET v == VideoOf[f]
        last == \A g \in File \ {f} : VideoOf[g] = v => child[g] \in Over
    IN  /\ At(f, "look")
        /\ IF v \notin moved /\ last
           THEN moved' = moved \cup {v} /\ To(f, "move")
           ELSE To(f, "progress") /\ UNCHANGED moved
        /\ UNCHANGED <<phase, items, stage, jobs, driver, place, stopping, bounds>>
VideoDone(f) ==
    LET v == VideoOf[f]
    IN  /\ At(f, "look")
        /\ IF v \notin moved /\ AllMade(v)
           THEN moved' = moved \cup {v} /\ To(f, "move")
           ELSE To(f, "progress") /\ UNCHANGED moved
        /\ UNCHANGED <<phase, items, stage, jobs, driver, place, stopping, bounds>>

\* on_video_done: the video moves to Exported; a move that raises is logged.
MoveStage(f) ==
    /\ At(f, "move") /\ To(f, "progress")
    /\ stage' \in {stage, stage \cup {VideoOf[f]}}
    /\ UNCHANGED <<record, jobs, driver, place, stopping, bounds>>

FailFile(f) ==
    /\ At(f, "fail") /\ To(f, "progress")
    /\ Child(f, "failed")
    /\ UNCHANGED <<record, stage, parent, driver, place, stopping, bounds>>

Progress(f) ==
    /\ At(f, "progress") /\ To(f, "over")
    /\ UNCHANGED <<record, stage, jobs, driver, place, stopping, bounds>>

\* A call to the database outside the attempt raises, and the thread ends there.
Breaks(f) ==
    /\ up /\ thread[f] \in {"begin", "try", "made", "finish", "look", "fail", "progress"}
    /\ Fault /\ broke' = TRUE
    /\ To(f, "over")
    /\ UNCHANGED <<record, stage, jobs, driver, place, stopping, up>>
------------------------------------------------------------------------------
(* The driver *)

\* _close, in the lock, when the pool is empty: what never came back fails, and the record is finished.
AllBack_Slip == \A f \in File : child[f] \in Over
AllBack == \A f \in File : thread[f] = "over"
Close(d) ==
    /\ up /\ driver = d /\ d = "waits" /\ AllBack
    /\ driver' = "ends" /\ phase' = "finished"
    /\ child' = [f \in File |-> Moved(child[f], "failed")]
    /\ items' = [f \in File |-> [items[f] EXCEPT !.error = @ \/ child[f] \notin Over]]
    /\ UNCHANGED <<moved, stage, parent, thread, place, stopping, bounds>>

\* The parent finishes, and who listens is told.
EndParent_Slip(d) ==
    /\ up /\ driver = d /\ d = "ends" /\ driver' = "over"
    /\ parent' = IF \A f \in File : child[f] = "done" THEN Moved(parent, "done") ELSE parent
    /\ UNCHANGED <<record, stage, child, thread, place, stopping, bounds>>
EndParent(d) ==
    /\ up /\ driver = d /\ d = "ends" /\ driver' = "over"
    /\ parent' = Moved(parent, "done")
    /\ UNCHANGED <<record, stage, child, thread, place, stopping, bounds>>

\* The driver's own calls to the database have nothing around them that would go on: one that raises
\* ends the driver as it begins, among the children that _close fails, or before the parent finishes.
DriverBreaks ==
    /\ up /\ Fault /\ driver' = "broken"
    /\ \/ driver = "ends" /\ UNCHANGED child
       \/ driver = "waits" /\ (\A f \in File : thread[f] = "queued") /\ UNCHANGED child
       \/ /\ driver = "waits" /\ AllBack
          /\ \E failed \in SUBSET File :
                child' = [f \in File |-> IF f \in failed THEN Moved(child[f], "failed") ELSE child[f]]
    /\ UNCHANGED <<record, stage, parent, thread, place, stopping, broke, up>>
------------------------------------------------------------------------------
(* Around it *)

\* Another change takes the video's lock, and lets go of it.
OtherWork(v) ==
    /\ up /\ lock[v] = None
    /\ busy' = IF v \in busy THEN busy \ {v} ELSE busy \cup {v}
    /\ UNCHANGED <<record, stage, jobs, thread, driver, lock, held, disk, stopping, bounds>>

\* Stop on a video: it lists the jobs that read as queued, and then cancels them one by one.
StopLists(v) ==
    /\ up /\ Fault /\ stopping = {}
    /\ stopping' = {f \in File : VideoOf[f] = v /\ child[f] = "queued"}
    /\ UNCHANGED <<record, stage, jobs, thread, driver, place, broke, up>>
StopCancels(f) ==
    /\ up /\ f \in stopping /\ stopping' = stopping \ {f}
    /\ Child(f, "cancelled")
    /\ UNCHANGED <<record, stage, parent, thread, driver, place, bounds>>

\* sweep, when somebody lists jobs: a running job that was silent for too long fails; its thread goes
\* on.  A parent whose driver broke needs it, so that one is not counted among the faults.
SweepChild(f) ==
    /\ up /\ Fault /\ child[f] = "running" /\ Child(f, "failed")
    /\ UNCHANGED <<record, stage, parent, thread, driver, place, stopping, broke, up>>
SweepParent ==
    /\ up /\ parent = "running" /\ parent' = "failed"
    /\ Fault \/ (driver = "broken" /\ UNCHANGED faults)
    /\ UNCHANGED <<record, stage, child, thread, driver, place, stopping, broke, up>>

Crash ==
    /\ up /\ Fault /\ up' = FALSE
    /\ UNCHANGED <<record, stage, jobs, thread, driver, place, stopping, broke>>

\* activity.interrupt_leftovers and locks.clear_leftovers; no thread carries the export on.
Restart ==
    /\ ~up /\ up' = TRUE
    /\ parent' = Moved(parent, "failed") /\ child' = [f \in File |-> Moved(child[f], "failed")]
    /\ thread' = [f \in File |-> "over"] /\ driver' = "over"
    /\ lock' = [v \in Video |-> None] /\ busy' = {} /\ held' = [f \in File |-> None] /\ stopping' = {}
    /\ UNCHANGED <<record, stage, disk, broke, faults>>

OneFile(f) ==
    \/ PoolTakes(f) \/ Begin(f) \/ Try(f) \/ TakeVideo(f) \/ Render(f) \/ PickName(f) \/ Deliver(f)
    \/ Made(f) \/ Finish(f) \/ VideoDone(f) \/ MoveStage(f) \/ FailFile(f) \/ Progress(f)
Drive == \E d \in {"waits", "ends"} : Close(d) \/ EndParent(d)

Next ==
    \/ \E f \in File : OneFile(f) \/ Breaks(f) \/ StopCancels(f) \/ SweepChild(f)
    \/ Drive \/ DriverBreaks \/ SweepParent \/ Crash \/ Restart
    \/ \E v \in Video : OtherWork(v) \/ StopLists(v)

Spec == Init /\ [][Next]_vars

\* Threads of a pool go on, and a supervisor starts a server that is down.
GoesOn == Restart \/ Drive \/ \E f \in File : OneFile(f)
Fairness == WF_vars(GoesOn)
FairSpec == Spec /\ Fairness
------------------------------------------------------------------------------
(* What an export promises *)

\* The parent reads done last: every thread is back, every child is over, and the record is finished,
\* also when a thread broke off, a Stop cancelled children or the sweep failed some.
ParentEndsLast ==
    parent = "done" =>
        phase = "finished" /\ \A f \in File : thread[f] = "over" /\ child[f] \in Over

\* A file whose job reads done is there to be downloaded, wherever a crash falls, and what its row
\* names is its own picture, although the presets of two files may ask for one name at once.
FilesAreTheirOwn ==
    \A f \in File :
        /\ child[f] = "done" => items[f].file # None
        /\ items[f].file # None => disk[items[f].file] = f

\* A video moves to Exported only when each of its files was made, and if nothing broke off a
\* finished export leaves out no such video: the last two files of a video may end at once.
MovedWhenMade ==
    /\ stage \subseteq moved /\ \A v \in moved : AllMade(v)
    /\ phase = "finished" /\ ~broke => \A v \in Video : AllMade(v) => v \in moved

\* Whatever breaks in its threads, fails, is stopped or swept, and after a crash, an export ends ("the
\* parent always ends", _drive); but one whose driver the database refused a call waits for a sweep or a
\* restart.
ExportEnds == <>[](parent \in Over \/ driver = "broken")
===============================================================================
