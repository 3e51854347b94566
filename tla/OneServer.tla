------------------------------ MODULE OneServer ------------------------------
(***************************************************************************)
(* Server processes on one database: how one starts (the module body of    *)
(* api/main.py, then its lifespan), the lease that lets one serve          *)
(* (lease.py), and what a start does to the work it finds: the jobs, the   *)
(* video's lock, and the charges of voice calls left open (budget.py).     *)
(*                                                                         *)
(* A process is known by the PROCESS id it makes when it starts; one that  *)
(* is refused or dies is over, and a new one has another id.  A call is    *)
(* one job that voices one line: it charges the budget before each try at  *)
(* the vendor (VoiceBudget.held), and an edit holds the video's lock.  A   *)
(* thread of a process that died stands for ever where it stopped.         *)
(*                                                                         *)
(* X_Slip is a slip in the code X models (see LockTable).                  *)
(***************************************************************************)
EXTENDS Integers, FiniteSetsExt

CONSTANTS
    Proc,              \* processes ever started
    HostOf,            \* [Proc -> host]
    Call,              \* voice calls, each made once
    Edit,              \* those that are an edit of the video; the others design a voice
    None,
    Ceiling,           \* VoiceBudget.ceiling, in units of half a call
    TTL,               \* the lease's, in ticks
    MaxTries,          \* DEFAULT_ATTEMPTS of with_retries
    MaxEnds,           \* bound on processes that crash or shut down
    MaxSecond,         \* bound on processes started beside a living one
    RenewalsKeepUp     \* whether a living server's lease is renewed in time (RENEW is a third of TTL)

ASSUME ServerAssumption ==
    /\ IsFiniteSet(Call) /\ Edit \subseteq Call /\ None \notin Proc /\ None \notin Call
    /\ Ceiling \in Nat /\ TTL \in Nat \ {0} /\ MaxTries \in Nat \ {0}
    /\ MaxEnds \in Nat /\ MaxSecond \in Nat /\ RenewalsKeepUp \in BOOLEAN

Cost == 2     \* what every call charges; a design is then trued up to 1, 2 or 3

VARIABLES
    proc,      \* [Proc -> where it is, the open charges it has read, the one it is giving back]
    lease,     \* meta.api_lease: who, and how long ago it was seen
    call,      \* [Call -> its process, where its thread stands, its tries left]
    job,       \* [Call -> its activity job's status]
    lock,      \* the video's row: the edit that holds it, or None
    spent,     \* SUM(units) of the ledger
    open,      \* the calls with a charge_open row in meta
    ends, second

life == <<proc, lease>>
money == <<spent, open>>
bounds == <<ends, second>>
vars == <<life, call, job, lock, money, bounds>>

Starting == {"jobs", "locks", "charges", "give", "drop", "acquire"}
Alive == Starting \cup {"serves", "leaving", "left"}
InCall == {"charge", "mark", "vendor", "refund", "unmark", "keep", "trueup", "end"}
NoLease == [by |-> None, age |-> 0]

TypeOK ==
    /\ proc \in [Proc -> [pc : {"new", "dead"} \cup Alive, read : SUBSET Call, at : Call \cup {None}]]
    /\ lease \in [by : Proc \cup {None}, age : 0..TTL]
    /\ call \in [Call -> [by : Proc \cup {None}, pc : {"new", "over"} \cup InCall, tries : 0..MaxTries, kept : 0..3]]
    /\ job \in [Call -> {"none", "running", "done", "failed"}]
    /\ lock \in Edit \cup {None}
    /\ spent \in Int /\ open \in SUBSET Call
    /\ ends \in 0..MaxEnds /\ second \in 0..MaxSecond

Init ==
    /\ proc = [p \in Proc |-> [pc |-> "new", read |-> {}, at |-> None]]
    /\ lease = NoLease
    /\ call = [c \in Call |-> [by |-> None, pc |-> "new", tries |-> MaxTries, kept |-> 0]]
    /\ job = [c \in Call |-> "none"] /\ lock = None
    /\ spent = 0 /\ open = {}
    /\ ends = 0 /\ second = 0

Living == {p \in Proc : proc[p].pc \in Alive}
Runs(c) == call[c].pc \in InCall /\ call[c].by \in Living
GoProc(p, pc) == proc' = [proc EXCEPT ![p].pc = pc]
------------------------------------------------------------------------------
(* A process starts: the body of api/main.py runs when it is imported. *)

\* A supervisor starts a process when none lives; somebody may start one beside it.
Start(p) ==
    /\ proc[p].pc = "new"
    /\ \/ Living = {} /\ UNCHANGED second
       \/ Living # {} /\ second < MaxSecond /\ second' = second + 1
    /\ GoProc(p, "jobs")
    /\ UNCHANGED <<lease, call, job, lock, money, ends>>

\* activity.interrupt_leftovers: every unfinished job fails, and with it goes its lock (on_end_in).
InterruptLeftovers(p) ==
    /\ proc[p].pc = "jobs" /\ GoProc(p, "locks")
    /\ job' = [c \in Call |-> IF job[c] = "running" THEN "failed" ELSE job[c]]
    /\ lock' = IF lock # None /\ job[lock] = "running" THEN None ELSE lock
    /\ UNCHANGED <<lease, call, money, bounds>>

\* locks.clear_leftovers.
ClearLeftovers(p) ==
    /\ proc[p].pc = "locks" /\ GoProc(p, "charges")
    /\ lock' = None
    /\ UNCHANGED <<lease, call, job, money, bounds>>

\* budget.refund_orphans: it reads every open row, and gives back those of other processes one by
\* one: a negative row in the ledger, then the open row goes.
ReadOrphans(p) ==
    /\ proc[p].pc = "charges"
    /\ proc' = [proc EXCEPT ![p] = [pc |-> "give", read |-> {c \in open : call[c].by # p}, at |-> None]]
    /\ UNCHANGED <<lease, call, job, lock, money, bounds>>

GiveBack_Slip(p, c) ==
    /\ proc[p].pc = "give" /\ c \in proc[p].read
    /\ proc' = [proc EXCEPT ![p] = [pc |-> "give", read |-> @.read \ {c}, at |-> None]]
    /\ spent' = spent - Cost
    /\ UNCHANGED <<lease, call, job, lock, open, bounds>>
GiveBack(p, c) ==
    /\ proc[p].pc = "give" /\ c \in proc[p].read
    /\ proc' = [proc EXCEPT ![p] = [pc |-> "drop", read |-> @.read \ {c}, at |-> c]]
    /\ spent' = spent - Cost
    /\ UNCHANGED <<lease, call, job, lock, open, bounds>>

DropOpen(p) ==
    /\ proc[p].pc = "drop"
    /\ proc' = [proc EXCEPT ![p].pc = "give", ![p].at = None]
    /\ open' = open \ {proc[p].at}
    /\ UNCHANGED <<lease, call, job, lock, spent, bounds>>

Imported(p) ==
    /\ proc[p].pc = "give" /\ proc[p].read = {}
    /\ GoProc(p, "acquire")
    /\ UNCHANGED <<lease, call, job, lock, money, bounds>>

\* holder_is_live: on this host, whether its pid runs; elsewhere, whether it was seen within TTL.
HolderIsLive_Slip(p) == lease.by # None /\ lease.by # p
HolderIsLive(p) ==
    /\ lease.by # None
    /\ IF HostOf[lease.by] = HostOf[p] THEN lease.by \in Living ELSE lease.age < TTL

\* lease.acquire, at the lifespan's start: it serves, or LeaseHeld ends the process.
Acquire_Slip(p) ==
    /\ proc[p].pc = "acquire"
    /\ lease' = [by |-> p, age |-> 0] /\ GoProc(p, "serves")
    /\ UNCHANGED <<call, job, lock, money, bounds>>
Acquire(p) ==
    /\ proc[p].pc = "acquire"
    /\ IF HolderIsLive(p)
       THEN GoProc(p, "new") /\ UNCHANGED lease
       ELSE lease' = [by |-> p, age |-> 0] /\ GoProc(p, "serves")
    /\ UNCHANGED <<call, job, lock, money, bounds>>

\* Lease.renew: the row is written, whoever it names by now.
Renew(p) ==
    /\ proc[p].pc = "serves"
    /\ lease' = [by |-> p, age |-> 0]
    /\ UNCHANGED <<proc, call, job, lock, money, bounds>>

\* Lease.release: the row is read, and deleted in another transaction when it is ours.
Leave(p) ==
    /\ proc[p].pc = "serves" /\ ends < MaxEnds /\ ends' = ends + 1
    /\ GoProc(p, IF lease.by = p THEN "leaving" ELSE "left")
    /\ UNCHANGED <<lease, call, job, lock, money, second>>

Release(p) ==
    /\ proc[p].pc = "leaving" /\ GoProc(p, "left")
    /\ lease' = NoLease
    /\ UNCHANGED <<call, job, lock, money, bounds>>

\* The interpreter waits for the threads of its pools, then it is gone.
Exit(p) ==
    /\ proc[p].pc = "left" /\ \A c \in Call : call[c].by = p => call[c].pc = "over"
    /\ GoProc(p, "dead")
    /\ UNCHANGED <<lease, call, job, lock, money, bounds>>

Crash(p) ==
    /\ proc[p].pc \in Alive /\ ends < MaxEnds /\ ends' = ends + 1
    /\ proc' = [proc EXCEPT ![p].pc = "dead", ![p].read = {}]
    /\ UNCHANGED <<lease, call, job, lock, money, second>>

Tick ==
    /\ lease.by # None /\ lease.age < TTL
    /\ RenewalsKeepUp /\ proc[lease.by].pc \in {"serves", "leaving"} => lease.age + 1 < TTL
    /\ lease' = [lease EXCEPT !.age = @ + 1]
    /\ UNCHANGED <<proc, call, job, lock, money, bounds>>
------------------------------------------------------------------------------
(* A voice call. *)

Goes(c, pc) == call' = [call EXCEPT ![c].pc = pc]
CallAt(c, pc) == Runs(c) /\ call[c].pc = pc

Begin(c, p) ==
    /\ proc[p].pc = "serves" /\ call[c].pc = "new"
    /\ IF c \in Edit THEN lock = None /\ lock' = c ELSE UNCHANGED lock
    /\ call' = [call EXCEPT ![c].pc = "charge", ![c].by = p]
    /\ job' = [job EXCEPT ![c] = "running"]
    /\ UNCHANGED <<life, money, bounds>>

\* VoiceBudget.charge: checked and recorded in one transaction, or BudgetExceeded (not retried).
Charge_Slip(c) ==
    /\ CallAt(c, "charge")
    /\ IF spent < Ceiling
       THEN spent' = spent + Cost /\ Goes(c, "mark")
       ELSE UNCHANGED spent /\ Goes(c, "end")
    /\ UNCHANGED <<life, job, lock, open, bounds>>
Charge(c) ==
    /\ CallAt(c, "charge")
    /\ IF spent + Cost <= Ceiling
       THEN spent' = spent + Cost /\ Goes(c, "mark")
       ELSE UNCHANGED spent /\ Goes(c, "end")
    /\ UNCHANGED <<life, job, lock, open, bounds>>

\* held: the row that says the charge is open.
MarkOpen(c) ==
    /\ CallAt(c, "mark") /\ Goes(c, "vendor")
    /\ open' = open \cup {c}
    /\ UNCHANGED <<life, job, lock, spent, bounds>>

\* The vendor made the take, or it did not.
VendorAnswers(c) ==
    /\ CallAt(c, "vendor")
    /\ Goes(c, "keep") \/ Goes(c, "refund")
    /\ UNCHANGED <<life, job, lock, money, bounds>>

Refund(c) ==
    /\ CallAt(c, "refund") /\ Goes(c, "unmark")
    /\ spent' = spent - Cost
    /\ UNCHANGED <<life, job, lock, open, bounds>>

\* The finally of held.  A call that failed is tried again, charged again (with_retries); one that
\* was made is kept.
UnmarkFailed(c) ==
    /\ CallAt(c, "unmark")
    /\ open' = open \ {c}
    /\ call' = [call EXCEPT ![c].tries = @ - 1, ![c].pc = IF call[c].tries > 1 THEN "charge" ELSE "end"]
    /\ UNCHANGED <<life, job, lock, spent, bounds>>

UnmarkMade(c) ==
    /\ CallAt(c, "keep")
    /\ open' = open \ {c}
    /\ call' = [call EXCEPT ![c].kept = Cost, ![c].pc = IF c \in Edit THEN "end" ELSE "trueup"]
    /\ UNCHANGED <<life, job, lock, spent, bounds>>

\* design_voice: the estimate is trued up to the text the vendor used; what the budget cannot take
\* is let be ("the money is spent either way").
TrueUp(c) ==
    /\ CallAt(c, "trueup")
    /\ \E used \in (Cost - 1)..(Cost + 1) :
          IF spent + used - Cost <= Ceiling
          THEN call' = [call EXCEPT ![c].kept = used, ![c].pc = "end"] /\ spent' = spent + used - Cost
          ELSE Goes(c, "end") /\ UNCHANGED spent
    /\ UNCHANGED <<life, job, lock, open, bounds>>

\* The job's last move: one that is over stays as it is; one that ends lets go of the lock.
EndJob(c) ==
    /\ CallAt(c, "end")
    /\ call' = [call EXCEPT ![c].pc = "over", ![c].tries = 0]
    /\ job' = IF job[c] = "running" THEN [job EXCEPT ![c] = IF call[c].kept > 0 THEN "done" ELSE "failed"] ELSE job
    /\ lock' = IF job[c] = "running" /\ lock = c THEN None ELSE lock
    /\ UNCHANGED <<life, money, bounds>>

StartStep(p) ==
    \/ InterruptLeftovers(p) \/ ClearLeftovers(p) \/ ReadOrphans(p)
    \/ (\E c \in Call : GiveBack(p, c)) \/ DropOpen(p) \/ Imported(p) \/ Acquire(p)
CallStep(c) ==
    \/ Charge(c) \/ MarkOpen(c) \/ VendorAnswers(c) \/ Refund(c) \/ UnmarkFailed(c) \/ UnmarkMade(c)
    \/ TrueUp(c) \/ EndJob(c)

Next ==
    \/ \E p \in Proc : Start(p) \/ StartStep(p) \/ Renew(p) \/ Leave(p) \/ Release(p) \/ Exit(p) \/ Crash(p)
    \/ \E c \in Call : CallStep(c) \/ \E p \in Proc : Begin(c, p)
    \/ Tick

Spec == Init /\ [][Next]_vars

\* A supervisor starts a process while none lives (Docker's restart policy), threads run, and time
\* passes.  Nobody has to make a call, to shut a server down or to start a second one.
Respawn == Living = {} /\ \E p \in Proc : Start(p)
Going ==
    /\ \A p \in Proc : WF_vars(StartStep(p) \/ Release(p) \/ Exit(p)) /\ WF_vars(Renew(p))
    /\ \A c \in Call : WF_vars(CallStep(c))
    /\ WF_vars(Tick)

FairSpec == Spec /\ WF_vars(Respawn) /\ Going
------------------------------------------------------------------------------
(* Properties *)

\* "One API process per database" (lease.py): two processes never serve at once, on one host or on
\* two, while renewals keep up.
OneServes == Cardinality({p \in Proc : proc[p].pc = "serves"}) <= 1

\* "Concurrent jobs on a project can never both squeeze under the ceiling" (VoiceBudget.charge),
\* through retries, refunds, true-ups, crashes and starts.
UnderCeiling == spent <= Ceiling

\* "A crash mid-call never bills a take that was never made (and a retry does not pay twice)"
\* (budget.py): once the server is up and no call is under way, the ledger is what the takes that
\* were kept cost.  Two windows are left out: a crash between a charge and its open row keeps the
\* charge, one between a refund and the end of its row gives it back twice (README).
Quiet ==
    /\ \E p \in Proc : proc[p].pc = "serves"
    /\ \A c \in Call : ~Runs(c)
Between ==
    \/ \E c \in Call : ~Runs(c) /\ call[c].pc \in {"mark", "unmark"}
    \/ \E p \in Proc : proc[p].pc = "dead" /\ proc[p].at # None
LedgerIsExact ==
    Quiet /\ second = 0 /\ ~Between => spent = MapThenSumSet(LAMBDA c : call[c].kept, Call)

\* The service comes back: on the same host at once, elsewhere when the dead server's lease has
\* run out (lease.py), whatever refusals come first.
ComesBack == []<>(\E p \in Proc : proc[p].pc = "serves")

\* "Charges a crashed process left open are given back" (main.py, at the import): none of a
\* process that lives.
OnlyTheDeadAreRefunded ==
    [][\A p \in Proc : proc[p].pc = "give" /\ proc'[p].pc = "drop" => call[proc'[p].at].by \notin Living]_vars
===============================================================================
