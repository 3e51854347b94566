---------------------------- MODULE OneServerProofs ----------------------------
(***************************************************************************)
(* Proofs about OneServer for any processes, hosts, calls and bounds: the  *)
(* type invariant, one serving process while renewals keep up, the ceiling *)
(* of the voice budget, and, where no process is started beside a living   *)
(* one, that only the charges of dead processes are given back and that    *)
(* the ledger, once a server is up and no call runs, is what the kept      *)
(* takes cost.                                                             *)
(***************************************************************************)
EXTENDS OneServer, FiniteSetTheorems, WellFoundedInduction, TLAPS

Procs == [pc : {"new", "dead"} \cup Alive, read : SUBSET Call, at : Call \cup {None}]
Leases == [by : Proc \cup {None}, age : 0..TTL]
Calls == [by : Proc \cup {None}, pc : {"new", "over"} \cup InCall, tries : 0..MaxTries, kept : 0..3]

ProcsOK == proc \in [Proc -> Procs]
CallsOK == call \in [Call -> Calls]
RestOK ==
    /\ lease \in Leases /\ job \in [Call -> {"none", "running", "done", "failed"}]
    /\ lock \in Edit \cup {None} /\ spent \in Int /\ open \in SUBSET Call
    /\ ends \in 0..MaxEnds /\ second \in 0..MaxSecond

\* A call that may be tried again has a try left.
TriesLeft == \A c \in Call : call[c].pc \notin {"end", "over"} => call[c].tries > 0

LEMMA TypeParts == TypeOK <=> ProcsOK /\ CallsOK /\ RestOK
  BY DEF TypeOK, ProcsOK, CallsOK, RestOK, Procs, Leases, Calls

LEMMA InitTypes == Init => TypeOK
  <1> SUFFICES ASSUME Init PROVE ProcsOK /\ CallsOK /\ RestOK
    BY TypeParts
  <1>1. ProcsOK
    BY DEF Init, ProcsOK, Procs
  <1>2. CallsOK
    BY ServerAssumption DEF Init, CallsOK, Calls
  <1>3. RestOK
    BY ServerAssumption DEF Init, RestOK, Leases, NoLease
  <1> QED
    BY <1>1, <1>2, <1>3

\* A process moves on.
LEMMA GoProcTypes ==
    ASSUME ProcsOK, NEW p \in Proc, NEW pc \in {"new", "dead"} \cup Alive, GoProc(p, pc)
    PROVE  /\ ProcsOK'
           /\ proc'[p].pc = pc /\ proc'[p].read = proc[p].read /\ proc'[p].at = proc[p].at
           /\ \A q \in Proc : q # p => proc'[q] = proc[q]
  BY DEF GoProc, ProcsOK, Procs

\* A call moves on.
LEMMA GoesTypes ==
    ASSUME CallsOK, NEW c \in Call, NEW pc \in {"new", "over"} \cup InCall, Goes(c, pc)
    PROVE  CallsOK'
  BY DEF Goes, CallsOK, Calls

LEMMA ProcTypes ==
    ASSUME TypeOK, NEW p \in Proc,
           Start(p) \/ StartStep(p) \/ Renew(p) \/ Leave(p) \/ Release(p) \/ Exit(p) \/ Crash(p)
    PROVE  TypeOK'
  <1> SUFFICES ProcsOK' /\ CallsOK' /\ RestOK'
    BY TypeParts DEF TypeOK, ProcsOK, CallsOK, RestOK, Procs, Leases, Calls
  <1>t. ProcsOK /\ CallsOK /\ RestOK /\ proc[p] \in Procs
    BY TypeParts DEF ProcsOK
  <1>f. [by |-> p, age |-> 0] \in Leases /\ NoLease \in Leases
    BY ServerAssumption DEF Leases, NoLease
  <1>1. CASE Start(p)
    <2>1. ProcsOK'
      BY <1>1, <1>t, GoProcTypes DEF Start, Alive, Starting
    <2>2. second' \in 0..MaxSecond
      BY <1>1, <1>t, ServerAssumption DEF Start, RestOK
    <2> QED
      BY <1>1, <1>t, <2>1, <2>2 DEF Start, money, CallsOK, RestOK
  <1>2. CASE InterruptLeftovers(p)
    <2>1. ProcsOK'
      BY <1>2, <1>t, GoProcTypes DEF InterruptLeftovers, Alive, Starting
    <2> QED
      BY <1>2, <1>t, <2>1 DEF InterruptLeftovers, money, bounds, CallsOK, RestOK
  <1>3. CASE ClearLeftovers(p)
    <2>1. ProcsOK'
      BY <1>3, <1>t, GoProcTypes DEF ClearLeftovers, Alive, Starting
    <2> QED
      BY <1>3, <1>t, <2>1 DEF ClearLeftovers, money, bounds, CallsOK, RestOK
  <1>4. CASE ReadOrphans(p)
    <2>1. ProcsOK'
      BY <1>4, <1>t DEF ReadOrphans, ProcsOK, Procs, Alive, Starting, RestOK
    <2> QED
      BY <1>4, <1>t, <2>1 DEF ReadOrphans, money, bounds, CallsOK, RestOK
  <1>5. ASSUME NEW c \in Call, GiveBack(p, c) PROVE ProcsOK' /\ CallsOK' /\ RestOK'
    <2>1. ProcsOK'
      BY <1>5, <1>t DEF GiveBack, ProcsOK, Procs, Alive, Starting
    <2> QED
      BY <1>5, <1>t, <2>1 DEF GiveBack, Cost, bounds, CallsOK, RestOK
  <1>6. CASE DropOpen(p)
    <2>1. ProcsOK'
      BY <1>6, <1>t DEF DropOpen, ProcsOK, Procs, Alive, Starting
    <2> QED
      BY <1>6, <1>t, <2>1 DEF DropOpen, bounds, CallsOK, RestOK
  <1>7. CASE Imported(p)
    <2>1. ProcsOK'
      BY <1>7, <1>t, GoProcTypes DEF Imported, Alive, Starting
    <2> QED
      BY <1>7, <1>t, <2>1 DEF Imported, money, bounds, CallsOK, RestOK
  <1>8. CASE Acquire(p)
    <2>1. ProcsOK' /\ lease' \in Leases
      BY <1>8, <1>t, <1>f, GoProcTypes DEF Acquire, Alive, RestOK
    <2> QED
      BY <1>8, <1>t, <2>1 DEF Acquire, money, bounds, CallsOK, RestOK
  <1>9. CASE Renew(p)
    BY <1>9, <1>t, <1>f DEF Renew, money, bounds, ProcsOK, CallsOK, RestOK
  <1>10. CASE Leave(p)
    <2>1. ProcsOK'
      BY <1>10, <1>t, GoProcTypes DEF Leave, Alive
    <2>2. ends' \in 0..MaxEnds
      BY <1>10, <1>t, ServerAssumption DEF Leave, RestOK
    <2> QED
      BY <1>10, <1>t, <2>1, <2>2 DEF Leave, money, CallsOK, RestOK
  <1>11. CASE Release(p)
    <2>1. ProcsOK'
      BY <1>11, <1>t, GoProcTypes DEF Release, Alive
    <2> QED
      BY <1>11, <1>t, <1>f, <2>1 DEF Release, money, bounds, CallsOK, RestOK
  <1>12. CASE Exit(p)
    <2>1. ProcsOK'
      BY <1>12, <1>t, GoProcTypes DEF Exit
    <2> QED
      BY <1>12, <1>t, <2>1 DEF Exit, money, bounds, CallsOK, RestOK
  <1>13. CASE Crash(p)
    <2>1. ProcsOK'
      BY <1>13, <1>t DEF Crash, ProcsOK, Procs
    <2>2. ends' \in 0..MaxEnds
      BY <1>13, <1>t, ServerAssumption DEF Crash, RestOK
    <2> QED
      BY <1>13, <1>t, <2>1, <2>2 DEF Crash, money, CallsOK, RestOK
  <1> QED
    BY <1>1, <1>2, <1>3, <1>4, <1>5, <1>6, <1>7, <1>8, <1>9, <1>10, <1>11, <1>12, <1>13 DEF StartStep

LEMMA CallTypes == ASSUME TypeOK, TriesLeft, NEW c \in Call, CallStep(c) PROVE TypeOK'
  <1> SUFFICES ProcsOK' /\ CallsOK' /\ RestOK'
    BY TypeParts DEF TypeOK, ProcsOK, CallsOK, RestOK, Procs, Leases, Calls
  <1>t. ProcsOK /\ CallsOK /\ RestOK /\ call[c] \in Calls
    BY TypeParts DEF CallsOK
  <1>p. proc' = proc /\ UNCHANGED <<lease, bounds>>
    BY DEF CallStep, Charge, MarkOpen, VendorAnswers, Refund, UnmarkFailed, UnmarkMade, TrueUp, EndJob, life
  <1>1. CASE Charge(c)
    <2>1. CallsOK'
      BY <1>1, <1>t, GoesTypes DEF Charge, InCall
    <2> QED
      BY <1>1, <1>t, <1>p, <2>1 DEF Charge, Cost, bounds, ProcsOK, RestOK
  <1>2. CASE MarkOpen(c)
    <2>1. CallsOK'
      BY <1>2, <1>t, GoesTypes DEF MarkOpen, InCall
    <2> QED
      BY <1>2, <1>t, <1>p, <2>1 DEF MarkOpen, bounds, ProcsOK, RestOK
  <1>3. CASE VendorAnswers(c)
    <2>1. CallsOK'
      BY <1>3, <1>t, GoesTypes DEF VendorAnswers, InCall
    <2> QED
      BY <1>3, <1>t, <1>p, <2>1 DEF VendorAnswers, money, bounds, ProcsOK, RestOK
  <1>4. CASE Refund(c)
    <2>1. CallsOK'
      BY <1>4, <1>t, GoesTypes DEF Refund, InCall
    <2> QED
      BY <1>4, <1>t, <1>p, <2>1 DEF Refund, Cost, bounds, ProcsOK, RestOK
  <1>5. CASE UnmarkFailed(c)
    <2>1. PICK pc \in {"charge", "end"} : call' = [call EXCEPT ![c].tries = @ - 1, ![c].pc = pc]
      BY <1>5 DEF UnmarkFailed
    <2>2. CallsOK'
      <3>1. call' = [call EXCEPT ![c] = [call[c] EXCEPT !.tries = call[c].tries - 1, !.pc = pc]]
        BY <2>1
      <3>2. call[c].tries - 1 \in 0..MaxTries
        BY <1>5, <1>t, ServerAssumption DEF UnmarkFailed, CallAt, TriesLeft, Calls
      <3>3. [call[c] EXCEPT !.tries = call[c].tries - 1, !.pc = pc] \in Calls
        BY <1>t, <3>2 DEF Calls, InCall
      <3> QED
        BY <1>t, <3>1, <3>3 DEF CallsOK
    <2> QED
      BY <1>5, <1>t, <1>p, <2>2 DEF UnmarkFailed, bounds, ProcsOK, RestOK
  <1>6. CASE UnmarkMade(c)
    <2>1. PICK pc \in {"end", "trueup"} : call' = [call EXCEPT ![c].kept = Cost, ![c].pc = pc]
      BY <1>6 DEF UnmarkMade
    <2>2. CallsOK'
      <3>1. call' = [call EXCEPT ![c] = [call[c] EXCEPT !.kept = 2, !.pc = pc]]
        BY <2>1 DEF Cost
      <3>2. pc \in {"new", "over"} \cup InCall /\ 2 \in 0..3
        BY DEF InCall
      <3>3. [call[c] EXCEPT !.kept = 2, !.pc = pc] \in Calls
        BY <1>t, <3>2 DEF Calls
      <3> QED
        BY <1>t, <3>1, <3>3 DEF CallsOK
    <2> QED
      BY <1>6, <1>t, <1>p, <2>2 DEF UnmarkMade, bounds, ProcsOK, RestOK
  <1>7. CASE TrueUp(c)
    <2>1. PICK used \in (Cost - 1)..(Cost + 1) :
            IF spent + used - Cost <= Ceiling
            THEN call' = [call EXCEPT ![c].kept = used, ![c].pc = "end"] /\ spent' = spent + used - Cost
            ELSE Goes(c, "end") /\ UNCHANGED spent
      BY <1>7 DEF TrueUp
    <2>2. used \in 0..3
      BY <2>1 DEF Cost
    <2>3. CallsOK' /\ spent' \in Int
      BY <1>t, <2>1, <2>2, GoesTypes DEF CallsOK, Calls, InCall, Cost, RestOK
    <2> QED
      BY <1>7, <1>t, <1>p, <2>3 DEF TrueUp, bounds, ProcsOK, RestOK
  <1>8. CASE EndJob(c)
    <2>1. CallsOK'
      <3>1. 0 \in 0..MaxTries /\ "over" \in {"new", "over"} \cup InCall
        BY ServerAssumption
      <3>2. call' = [call EXCEPT ![c] = [call[c] EXCEPT !.pc = "over", !.tries = 0]]
        BY <1>8 DEF EndJob
      <3>3. [call[c] EXCEPT !.pc = "over", !.tries = 0] \in Calls
        BY <1>t, <3>1 DEF Calls
      <3> QED
        BY <1>t, <3>2, <3>3 DEF CallsOK
    <2>2. job' \in [Call -> {"none", "running", "done", "failed"}]
      BY <1>8, <1>t DEF EndJob, RestOK
    <2> QED
      BY <1>8, <1>t, <1>p, <2>1, <2>2 DEF EndJob, money, bounds, ProcsOK, RestOK
  <1> QED
    BY <1>1, <1>2, <1>3, <1>4, <1>5, <1>6, <1>7, <1>8 DEF CallStep
LEMMA BeginAndTickTypes ==
    ASSUME TypeOK, (\E c \in Call, p \in Proc : Begin(c, p)) \/ Tick \/ UNCHANGED vars
    PROVE  TypeOK'
  <1> SUFFICES ProcsOK' /\ CallsOK' /\ RestOK'
    BY TypeParts DEF TypeOK, ProcsOK, CallsOK, RestOK, Procs, Leases, Calls
  <1>t. ProcsOK /\ CallsOK /\ RestOK
    BY TypeParts
  <1>1. ASSUME NEW c \in Call, NEW p \in Proc, Begin(c, p) PROVE ProcsOK' /\ CallsOK' /\ RestOK'
    <2>1. call' = [call EXCEPT ![c] = [call[c] EXCEPT !.pc = "charge", !.by = p]]
      BY <1>1 DEF Begin
    <2>2. [call[c] EXCEPT !.pc = "charge", !.by = p] \in Calls
      BY <1>t DEF CallsOK, Calls, InCall
    <2>3. CallsOK'
      BY <1>t, <2>1, <2>2 DEF CallsOK
    <2>4. lock' \in Edit \cup {None}
      BY <1>1, <1>t DEF Begin, RestOK
    <2> QED
      BY <1>1, <1>t, <2>3, <2>4 DEF Begin, life, money, bounds, ProcsOK, RestOK
  <1>2. CASE Tick
    <2>1. lease' \in Leases
      BY <1>2, <1>t, ServerAssumption DEF Tick, RestOK, Leases
    <2> QED
      BY <1>2, <1>t, <2>1 DEF Tick, money, bounds, ProcsOK, CallsOK, RestOK
  <1>3. CASE UNCHANGED vars
    BY <1>3, <1>t DEF vars, life, money, bounds, ProcsOK, CallsOK, RestOK
  <1> QED
    BY <1>1, <1>2, <1>3

LEMMA TriesNext == TypeOK /\ TriesLeft /\ [Next]_vars => TriesLeft'
  <1> SUFFICES ASSUME TypeOK, TriesLeft, [Next]_vars PROVE TriesLeft'
    OBVIOUS
  <1>t. CallsOK
    BY TypeParts
  <1>1. CASE call' = call
    BY <1>1 DEF TriesLeft
  <1>2. ASSUME NEW c \in Call, NEW p \in Proc, Begin(c, p) PROVE TriesLeft'
    BY <1>2, <1>t DEF Begin, TriesLeft, CallsOK, Calls
  <1>3. ASSUME NEW c \in Call, CallStep(c) PROVE TriesLeft'
    <2>1. \A d \in Call : d # c => call'[d] = call[d]
      BY <1>3, <1>t DEF CallStep, Charge, MarkOpen, VendorAnswers, Refund, UnmarkFailed, UnmarkMade, TrueUp, EndJob, Goes,
         CallsOK
    <2>2. call'[c].pc \notin {"end", "over"} => call'[c].tries > 0
      <3>0. call[c] \in Calls
        BY <1>t DEF CallsOK
      <3>1. CASE Charge(c) \/ MarkOpen(c) \/ VendorAnswers(c) \/ Refund(c)
        BY <3>1, <1>t DEF Charge, MarkOpen, VendorAnswers, Refund, Goes, CallAt, TriesLeft, CallsOK, Calls
      <3>2. CASE UnmarkFailed(c)
        BY <3>2, <3>0, <1>t DEF UnmarkFailed, TriesLeft, CallsOK, Calls
      <3>3. CASE UnmarkMade(c)
        BY <3>3, <1>t DEF UnmarkMade, CallAt, TriesLeft, CallsOK, Calls
      <3>4. CASE TrueUp(c)
        BY <3>4, <1>t DEF TrueUp, Goes, CallsOK, Calls
      <3>5. CASE EndJob(c)
        BY <3>5, <1>t DEF EndJob, CallsOK, Calls
      <3> QED
        BY <1>3, <3>1, <3>2, <3>3, <3>4, <3>5 DEF CallStep
    <2> QED
      BY <2>1, <2>2 DEF TriesLeft
  <1>4. ASSUME NEW p \in Proc,
               Start(p) \/ StartStep(p) \/ Renew(p) \/ Leave(p) \/ Release(p) \/ Exit(p) \/ Crash(p)
        PROVE  call' = call
    BY <1>4 DEF Start, StartStep, InterruptLeftovers, ClearLeftovers, ReadOrphans, GiveBack, DropOpen, Imported, Acquire,
       Renew, Leave, Release, Exit, Crash
  <1>5. Tick \/ UNCHANGED vars => call' = call
    BY DEF Tick, vars
  <1> QED
    BY <1>1, <1>2, <1>3, <1>4, <1>5 DEF Next

LEMMA TypesNext == TypeOK /\ TriesLeft /\ [Next]_vars => TypeOK' /\ TriesLeft'
  BY ProcTypes, CallTypes, BeginAndTickTypes, TriesNext DEF Next

LEMMA TypesAlways == Spec => [](TypeOK /\ TriesLeft)
  <1>1. Init => TypeOK /\ TriesLeft
    BY InitTypes, ServerAssumption DEF Init, TriesLeft
  <1> QED
    BY <1>1, TypesNext, PTL DEF Spec

\* The types hold always: no call is tried more often than DEFAULT_ATTEMPTS.
THEOREM TypeCorrect == Spec => []TypeOK
  BY TypesAlways, PTL
------------------------------------------------------------------------------
(* The lease *)

\* A process that serves, or that is about to delete its lease, has it, and it is fresh.
LeaseKept == \A p \in Proc : proc[p].pc \in {"serves", "leaving"} => lease.by = p /\ lease.age < TTL

LEMMA LeaseNext == ASSUME RenewalsKeepUp PROVE TypeOK /\ LeaseKept /\ [Next]_vars => LeaseKept'
  <1> SUFFICES ASSUME TypeOK, LeaseKept, [Next]_vars PROVE LeaseKept'
    OBVIOUS
  <1>t. ProcsOK /\ RestOK /\ TTL \in Nat \ {0}
    BY TypeParts, ServerAssumption
  <1>0. ASSUME lease' = lease, \A q \in Proc : proc'[q].pc \in {"serves", "leaving"} => proc[q].pc \in {"serves", "leaving"}
        PROVE  LeaseKept'
    BY <1>0 DEF LeaseKept
  <1>1. ASSUME NEW p \in Proc, Start(p) \/ InterruptLeftovers(p) \/ ClearLeftovers(p) \/ Imported(p) PROVE LeaseKept'
    BY <1>0, <1>1, <1>t, GoProcTypes DEF Start, InterruptLeftovers, ClearLeftovers, Imported, Alive, Starting
  <1>2. ASSUME NEW p \in Proc, ReadOrphans(p) \/ (\E c \in Call : GiveBack(p, c)) \/ DropOpen(p) \/ Crash(p)
        PROVE  LeaseKept'
    BY <1>0, <1>2, <1>t DEF ReadOrphans, GiveBack, DropOpen, Crash, ProcsOK, Procs
  <1>3. ASSUME NEW p \in Proc, Acquire(p) PROVE LeaseKept'
    <2>1. CASE HolderIsLive(p)
      BY <1>0, <1>3, <1>t, <2>1, GoProcTypes DEF Acquire
    <2>2. CASE ~HolderIsLive(p)
      <3>1. \A q \in Proc : proc[q].pc \notin {"serves", "leaving"}
        <4> SUFFICES ASSUME NEW q \in Proc, proc[q].pc \in {"serves", "leaving"} PROVE FALSE
          OBVIOUS
        <4>1. lease.by = q /\ lease.age < TTL /\ q \in Living /\ q # None
          BY ServerAssumption DEF LeaseKept, Living, Alive
        <4> QED
          BY <2>2, <4>1 DEF HolderIsLive
      <3>2. lease' = [by |-> p, age |-> 0] /\ \A q \in Proc : q # p => proc'[q] = proc[q]
        BY <1>3, <1>t, <2>2, GoProcTypes DEF Acquire, Alive
      <3> QED
        BY <1>t, <3>1, <3>2 DEF LeaseKept
    <2> QED
      BY <2>1, <2>2
  <1>4. ASSUME NEW p \in Proc, Renew(p) PROVE LeaseKept'
    <2>1. lease' = [by |-> p, age |-> 0] /\ proc' = proc /\ lease.by = p
      BY <1>4 DEF Renew, LeaseKept
    <2> QED
      BY <1>t, <2>1 DEF LeaseKept
  <1>5. ASSUME NEW p \in Proc, Leave(p) PROVE LeaseKept'
    BY <1>0, <1>5, <1>t, GoProcTypes DEF Leave, Alive
  <1>6. ASSUME NEW p \in Proc, Release(p) PROVE LeaseKept'
    <2>1. lease.by = p /\ proc'[p].pc = "left" /\ \A q \in Proc : q # p => proc'[q] = proc[q]
      BY <1>6, <1>t, GoProcTypes DEF Release, LeaseKept, Alive
    <2>2. \A q \in Proc : proc'[q].pc \notin {"serves", "leaving"}
      BY <2>1 DEF LeaseKept
    <2> QED
      BY <2>2 DEF LeaseKept
  <1>7. ASSUME NEW p \in Proc, Exit(p) PROVE LeaseKept'
    BY <1>0, <1>7, <1>t, GoProcTypes DEF Exit
  <1>8. CASE Tick
    <2>1. lease'.by = lease.by /\ lease'.age = lease.age + 1 /\ proc' = proc
      BY <1>8, <1>t DEF Tick, RestOK, Leases
    <2>2. ASSUME NEW p \in Proc, proc[p].pc \in {"serves", "leaving"} PROVE lease.by = p /\ lease.age + 1 < TTL
      BY <1>8, <2>2 DEF Tick, LeaseKept
    <2> QED
      BY <2>1, <2>2 DEF LeaseKept
  <1>9. CASE (\E c \in Call : CallStep(c) \/ \E p \in Proc : Begin(c, p)) \/ UNCHANGED vars
    <2>1. UNCHANGED life
      BY <1>9 DEF CallStep, Charge, MarkOpen, VendorAnswers, Refund, UnmarkFailed, UnmarkMade, TrueUp, EndJob, Begin, vars
    <2> QED
      BY <1>0, <2>1 DEF life
  <1> QED
    BY <1>1, <1>2, <1>3, <1>4, <1>5, <1>6, <1>7, <1>8, <1>9 DEF Next, StartStep

\* While renewals keep up, one process at most serves a database, on however many hosts processes start, crash,
\* are refused and shut down (lease.py).
THEOREM OneServesAlways == ASSUME RenewalsKeepUp PROVE Spec => []OneServes
  <1>1. Init => LeaseKept
    BY DEF Init, LeaseKept
  <1>2. LeaseKept => OneServes
    <2> SUFFICES ASSUME LeaseKept PROVE OneServes
      OBVIOUS
    <2> DEFINE S == {p \in Proc : proc[p].pc = "serves"}
    <2>1. S \subseteq {lease.by}
      BY DEF LeaseKept
    <2>2. Cardinality({lease.by}) = 1 /\ IsFiniteSet({lease.by})
      BY FS_Singleton
    <2>3. Cardinality(S) <= 1
      BY <2>1, <2>2, FS_Subset
    <2> QED
      BY <2>3 DEF OneServes
  <1> QED
    BY <1>1, <1>2, LeaseNext, TypeCorrect, PTL DEF Spec
------------------------------------------------------------------------------
(* The money *)

\* Whatever calls race, retry, fail, are trued up and given back, the ledger stays under the ceiling
\* (VoiceBudget.charge).
THEOREM CeilingHolds == Spec => []UnderCeiling
  <1>1. Init => UnderCeiling
    BY ServerAssumption DEF Init, UnderCeiling
  <1>2. TypeOK /\ UnderCeiling /\ [Next]_vars => UnderCeiling'
    <2> SUFFICES ASSUME TypeOK, UnderCeiling, [Next]_vars PROVE UnderCeiling'
      OBVIOUS
    <2>t. spent \in Int /\ Ceiling \in Nat
      BY ServerAssumption DEF TypeOK
    <2>1. spent' = spent => UnderCeiling'
      BY DEF UnderCeiling
    <2>2. ASSUME NEW p \in Proc,
                 Start(p) \/ StartStep(p) \/ Renew(p) \/ Leave(p) \/ Release(p) \/ Exit(p) \/ Crash(p)
          PROVE  spent' = spent \/ spent' = spent - 2
      BY <2>2 DEF Start, StartStep, InterruptLeftovers, ClearLeftovers, ReadOrphans, GiveBack, DropOpen, Imported,
         Acquire, Renew, Leave, Release, Exit, Crash, money, Cost
    <2>3. ASSUME NEW c \in Call, CallStep(c) PROVE spent' = spent \/ spent' = spent - 2 \/ spent' <= Ceiling
      <3>1. CASE Charge(c)
        BY <2>t, <3>1 DEF Charge, Cost
      <3>2. CASE TrueUp(c)
        BY <2>t, <3>2 DEF TrueUp, Cost
      <3> QED
        BY <2>3, <3>1, <3>2
        DEF CallStep, MarkOpen, VendorAnswers, Refund, UnmarkFailed, UnmarkMade, EndJob, money, Cost
    <2>4. (\E c \in Call, p \in Proc : Begin(c, p)) \/ Tick \/ UNCHANGED vars => spent' = spent
      BY DEF Begin, Tick, vars, money
    <2>5. spent' = spent \/ spent' = spent - 2 \/ spent' <= Ceiling
      BY <2>2, <2>3, <2>4 DEF Next
    <2> QED
      BY <2>t, <2>5 DEF UnderCeiling
  <1> QED
    BY <1>1, <1>2, TypeCorrect, PTL DEF Spec

\* As long as no process was started beside a living one, one lives at most.
Alone == \A p, q \in Living : p = q
Solo == second = 0 => Alone

\* What a start has read are calls of other processes.
ReadsOthers == \A p \in Proc : \A c \in proc[p].read : proc[p].pc \in {"give", "drop"} /\ call[c].by # p

\* What second starts were made stays so, and a start that is not one finds no process living.
LEMMA SecondStays ==
    ASSUME TypeOK, [Next]_vars, second' = 0
    PROVE  second = 0 /\ \A p \in Proc : Start(p) => Living = {}
  <1>t. second \in Nat
    BY ServerAssumption DEF TypeOK
  <1>1. second' = second \/ second' = second + 1
    BY DEF Next, Start, StartStep, InterruptLeftovers, ClearLeftovers, ReadOrphans, GiveBack, DropOpen, Imported, Acquire,
       Renew, Leave, Release, Exit, Crash, CallStep, Charge, MarkOpen, VendorAnswers, Refund, UnmarkFailed, UnmarkMade,
       TrueUp, EndJob, Begin, Tick, vars, bounds
  <1>2. second = 0
    BY <1>t, <1>1
  <1> QED
    BY <1>t, <1>2 DEF Start

LEMMA SoloNext == TypeOK /\ Solo /\ [Next]_vars => Solo'
  <1> SUFFICES ASSUME TypeOK, Solo, [Next]_vars, second' = 0 PROVE Alone'
    BY DEF Solo
  <1>t. ProcsOK /\ RestOK
    BY TypeParts
  <1>0. Alone
    BY SecondStays DEF Solo
  <1>1. Living' \subseteq Living => Alone'
    BY <1>0 DEF Alone
  <1>2. ASSUME NEW p \in Proc, Start(p) PROVE Alone'
    <2>1. Living = {}
      BY <1>2, SecondStays
    <2>2. Living' \subseteq {p}
      BY <1>2, <1>t, <2>1, GoProcTypes DEF Start, Living, Alive, Starting
    <2> QED
      BY <2>2 DEF Alone
  <1>3. ASSUME NEW p \in Proc, InterruptLeftovers(p) \/ ClearLeftovers(p) \/ Imported(p) \/ Acquire(p) \/ Leave(p)
                               \/ Release(p) \/ Exit(p)
        PROVE  Living' \subseteq Living
    <2>1. p \in Living
      BY <1>3 DEF InterruptLeftovers, ClearLeftovers, Imported, Acquire, Leave, Release, Exit, Living, Alive, Starting
    <2>2. \E pc \in {"new", "dead"} \cup Alive : GoProc(p, pc)
      BY <1>3 DEF InterruptLeftovers, ClearLeftovers, Imported, Acquire, Leave, Release, Exit, Alive, Starting
    <2> QED
      BY <1>t, <2>1, <2>2, GoProcTypes DEF Living
  <1>4. ASSUME NEW p \in Proc, ReadOrphans(p) \/ (\E c \in Call : GiveBack(p, c)) \/ DropOpen(p) \/ Crash(p)
        PROVE  Living' \subseteq Living
    BY <1>4, <1>t DEF ReadOrphans, GiveBack, DropOpen, Crash, Living, Alive, Starting, ProcsOK, Procs
  <1>5. ASSUME NEW p \in Proc, Renew(p) PROVE Living' \subseteq Living
    BY <1>5 DEF Renew, Living
  <1>6. CASE (\E c \in Call : CallStep(c) \/ \E p \in Proc : Begin(c, p)) \/ Tick \/ UNCHANGED vars
    <2>1. proc' = proc
      BY <1>6 DEF CallStep, Charge, MarkOpen, VendorAnswers, Refund, UnmarkFailed, UnmarkMade, TrueUp, EndJob, Begin,
         Tick, vars, life
    <2> QED
      BY <1>1, <2>1 DEF Living
  <1> QED
    BY <1>1, <1>2, <1>3, <1>4, <1>5, <1>6 DEF Next, StartStep

LEMMA ReadsNext == TypeOK /\ ReadsOthers /\ [Next]_vars => ReadsOthers'
  <1> SUFFICES ASSUME TypeOK, ReadsOthers, [Next]_vars PROVE ReadsOthers'
    OBVIOUS
  <1>t. ProcsOK /\ CallsOK /\ RestOK
    BY TypeParts
  <1>1. ASSUME NEW p \in Proc, call' = call, proc'[p].read \subseteq proc[p].read,
               proc'[p].read # {} => proc'[p].pc \in {"give", "drop"}, \A q \in Proc : q # p => proc'[q] = proc[q]
        PROVE  ReadsOthers'
    BY <1>1 DEF ReadsOthers
  <1>2. ASSUME NEW p \in Proc, Start(p) \/ InterruptLeftovers(p) \/ ClearLeftovers(p) \/ Imported(p) \/ Acquire(p)
                               \/ Leave(p) \/ Release(p) \/ Exit(p)
        PROVE  ReadsOthers'
    <2>1. proc[p].read = {} /\ call' = call
      BY <1>2 DEF Start, InterruptLeftovers, ClearLeftovers, Imported, Acquire, Leave, Release, Exit, ReadsOthers
    <2>2. \E pc \in {"new", "dead"} \cup Alive : GoProc(p, pc)
      BY <1>2 DEF Start, InterruptLeftovers, ClearLeftovers, Imported, Acquire, Leave, Release, Exit, Alive, Starting
    <2> QED
      BY <1>1, <1>t, <2>1, <2>2, GoProcTypes
  <1>3. ASSUME NEW p \in Proc, ReadOrphans(p) PROVE ReadsOthers'
    <2>1. /\ call' = call /\ proc'[p].pc = "give" /\ proc'[p].read = {c \in open : call[c].by # p}
          /\ \A q \in Proc : q # p => proc'[q] = proc[q]
      BY <1>3, <1>t DEF ReadOrphans, ProcsOK
    <2> QED
      BY <2>1 DEF ReadsOthers
  <1>4. ASSUME NEW p \in Proc, (\E c \in Call : GiveBack(p, c)) \/ DropOpen(p) \/ Crash(p) PROVE ReadsOthers'
    <2>1. /\ call' = call /\ proc'[p].read \subseteq proc[p].read /\ \A q \in Proc : q # p => proc'[q] = proc[q]
          /\ proc'[p].read # {} => proc'[p].pc \in {"give", "drop"}
      BY <1>4, <1>t DEF GiveBack, DropOpen, Crash, ProcsOK, Procs
    <2> QED
      BY <1>1, <2>1
  <1>5. ASSUME NEW c \in Call, NEW p \in Proc, Begin(c, p) PROVE ReadsOthers'
    <2>1. proc' = proc /\ proc[p].pc = "serves" /\ \A d \in Call : d # c => call'[d] = call[d]
      BY <1>5, <1>t DEF Begin, life, CallsOK
    <2>2. call'[c].by = p
      BY <1>5, <1>t DEF Begin, CallsOK, Calls
    <2>3. \A q \in Proc : proc[q].read \subseteq Call
      BY <1>t DEF ProcsOK, Procs
    <2> QED
      BY <2>1, <2>2, <2>3 DEF ReadsOthers
  <1>6. ASSUME NEW c \in Call, CallStep(c) PROVE ReadsOthers'
    <2>1. proc' = proc /\ \A d \in Call : call'[d].by = call[d].by
      <3>1. CASE Charge(c) \/ MarkOpen(c) \/ VendorAnswers(c) \/ Refund(c)
        BY <1>t, <3>1 DEF Charge, MarkOpen, VendorAnswers, Refund, Goes, life, CallsOK, Calls
      <3>2. CASE UnmarkFailed(c) \/ UnmarkMade(c)
        BY <1>t, <3>2 DEF UnmarkFailed, UnmarkMade, life, CallsOK, Calls
      <3>3. CASE TrueUp(c)
        BY <1>t, <3>3 DEF TrueUp, Goes, life, CallsOK, Calls
      <3>4. CASE EndJob(c)
        BY <1>t, <3>4 DEF EndJob, life, CallsOK, Calls
      <3> QED
        BY <1>6, <3>1, <3>2, <3>3, <3>4 DEF CallStep
    <2>2. \A q \in Proc : proc[q].read \subseteq Call
      BY <1>t DEF ProcsOK, Procs
    <2> QED
      BY <2>1, <2>2 DEF ReadsOthers
  <1>7. CASE Tick \/ UNCHANGED vars \/ \E p \in Proc : Renew(p)
    BY <1>7 DEF Tick, vars, life, Renew, ReadsOthers
  <1> QED
    BY <1>2, <1>3, <1>4, <1>5, <1>6, <1>7 DEF Next, StartStep

\* With no process started beside a living one, a start gives back the charges of dead processes only
\* (budget.refund_orphans, run when api/main.py is imported, before the lease is asked for).
THEOREM AloneRefundsTheDead == ASSUME MaxSecond = 0 PROVE Spec => OnlyTheDeadAreRefunded
  <1>1. Init => Solo /\ ReadsOthers
    BY DEF Init, Solo, Alone, ReadsOthers, Living, Alive, Starting
  <1>2. TypeOK /\ Solo /\ ReadsOthers /\ [Next]_vars
        => (\A p \in Proc : proc[p].pc = "give" /\ proc'[p].pc = "drop" => call[proc'[p].at].by \notin Living)
    <2> SUFFICES ASSUME TypeOK, Solo, ReadsOthers, [Next]_vars,
                        NEW p \in Proc, proc[p].pc = "give", proc'[p].pc = "drop"
                 PROVE  call[proc'[p].at].by \notin Living
      OBVIOUS
    <2>t. ProcsOK
      BY TypeParts
    <2>a. Alone
      BY DEF Solo, TypeOK
    <2>1. PICK c \in Call : GiveBack(p, c)
      <3>1. proc' # proc
        OBVIOUS
      <3>2. PICK q \in Proc : Start(q) \/ StartStep(q) \/ Leave(q) \/ Release(q) \/ Exit(q) \/ Crash(q)
        BY <3>1 DEF Next, Renew, Tick, Begin, CallStep, Charge, MarkOpen, VendorAnswers, Refund, UnmarkFailed,
           UnmarkMade, TrueUp, EndJob, vars, life
      <3>3. CASE Start(q) \/ InterruptLeftovers(q) \/ ClearLeftovers(q) \/ Imported(q) \/ Acquire(q) \/ Leave(q)
                 \/ Release(q) \/ Exit(q)
        <4>1. \E pc \in ({"new", "dead"} \cup Alive) \ {"drop"} : GoProc(q, pc)
          BY <3>3 DEF Start, InterruptLeftovers, ClearLeftovers, Imported, Acquire, Leave, Release, Exit, Alive, Starting
        <4> QED
          BY <2>t, <4>1, GoProcTypes
      <3>4. CASE ReadOrphans(q) \/ DropOpen(q) \/ Crash(q)
        BY <2>t, <3>4 DEF ReadOrphans, DropOpen, Crash, ProcsOK, Procs
      <3>5. CASE \E c \in Call : GiveBack(q, c)
        BY <2>t, <3>5 DEF GiveBack, ProcsOK
      <3> QED
        BY <3>2, <3>3, <3>4, <3>5 DEF StartStep
    <2>2. proc'[p].at = c /\ c \in proc[p].read
      BY <2>t, <2>1 DEF GiveBack, ProcsOK
    <2>3. call[c].by # p /\ p \in Living
      BY <2>2 DEF ReadsOthers, Living, Alive, Starting
    <2> QED
      BY <2>2, <2>3, <2>a DEF Alone
  <1> QED
    BY <1>1, <1>2, SoloNext, ReadsNext, TypeCorrect, PTL DEF Spec, OnlyTheDeadAreRefunded
------------------------------------------------------------------------------
(* The ledger *)

\* A sum over the calls, as the folds take them: one after another.  The sums that are compared take
\* the same call next, so their order does not matter.
Pick(s) == CHOOSE c \in s : TRUE
Adds(g, f) == \A s \in SUBSET Call : g[s] = IF s = {} THEN 0 ELSE f[Pick(s)] + g[s \ {Pick(s)}]
IsTotal(n, f) == \E g \in [SUBSET Call -> Int] : Adds(g, f) /\ n = g[Call]

LEMMA Picked == ASSUME NEW s, s # {} PROVE Pick(s) \in s
  BY DEF Pick

LEMMA TotalOfNone == ASSUME NEW f, \A c \in Call : f[c] = 0 PROVE IsTotal(0, f)
  <1> DEFINE g == [s \in SUBSET Call |-> 0]
  <1>1. g \in [SUBSET Call -> Int] /\ g[Call] = 0
    OBVIOUS
  <1>2. ASSUME NEW s \in SUBSET Call PROVE g[s] = IF s = {} THEN 0 ELSE f[Pick(s)] + g[s \ {Pick(s)}]
    <2>1. s # {} => f[Pick(s)] = 0
      BY Picked
    <2> QED
      BY <2>1
  <1>3. Adds(g, f)
    BY <1>2 DEF Adds
  <1> HIDE DEF g
  <1> QED
    BY <1>1, <1>3 DEF IsTotal

\* A total moves as much as the one call that moves.
LEMMA TotalMoves ==
    ASSUME NEW n \in Int, NEW f \in [Call -> Int], IsTotal(n, f), NEW c \in Call,
           NEW h \in [Call -> Int], \A d \in Call : d # c => h[d] = f[d]
    PROVE  IsTotal(n + (h[c] - f[c]), h)
  <1>1. PICK g \in [SUBSET Call -> Int] : Adds(g, f) /\ n = g[Call]
    BY DEF IsTotal
  <1> DEFINE by(s) == IF c \in s THEN h[c] - f[c] ELSE 0
             k == [s \in SUBSET Call |-> g[s] + by(s)]
  <1>2. k \in [SUBSET Call -> Int] /\ k[Call] = n + (h[c] - f[c])
    BY <1>1
  <1>3. ASSUME NEW s \in SUBSET Call PROVE k[s] = IF s = {} THEN 0 ELSE h[Pick(s)] + k[s \ {Pick(s)}]
    <2>0. k[s] = g[s] + by(s) /\ g[s] = IF s = {} THEN 0 ELSE f[Pick(s)] + g[s \ {Pick(s)}]
      BY <1>1 DEF Adds
    <2>1. CASE s = {}
      BY <2>0, <2>1
    <2>2. CASE s # {}
      <3> DEFINE x == Pick(s)
      <3>1. x \in s
        BY <2>2, Picked
      <3>2. g[s] = f[x] + g[s \ {x}]
        BY <2>0, <2>2
      <3> HIDE DEF x
      <3>3. k[s \ {x}] = g[s \ {x}] + by(s \ {x}) /\ g[s \ {x}] \in Int /\ f[x] \in Int
        BY <1>1, <3>1
      <3>4. k[s] = h[x] + k[s \ {x}]
        <4>1. CASE x = c
          BY <2>0, <3>1, <3>2, <3>3, <4>1
        <4>2. CASE x # c
          BY <2>0, <3>1, <3>2, <3>3, <4>2
        <4> QED
          BY <4>1, <4>2
      <3> QED
        BY <2>2, <3>4 DEF x
    <2> QED
      BY <2>1, <2>2
  <1>4. Adds(k, h)
    BY <1>3 DEF Adds
  <1> HIDE DEF k
  <1> QED
    BY <1>2, <1>4 DEF IsTotal

\* Induction over the naturals, as a fact about a set of them.
LEMMA Induction ==
    ASSUME NEW G, 0 \in G, \A n \in Nat : n \in G => n + 1 \in G
    PROVE  Nat \subseteq G
  <1> SUFFICES ASSUME Nat \ G # {} PROVE FALSE
    OBVIOUS
  <1>1. PICK x \in Nat \ G : \A y \in Nat \ G : <<y, x>> \notin OpToRel(<, Nat)
    BY WFMin, NatLessThanWellFounded, Zenon
  <1>2. x # 0
    BY Zenon
  <1>3. x \in Nat /\ x - 1 \in Nat /\ x - 1 < x /\ (x - 1) + 1 = x
    BY <1>2
  <1>4. <<x - 1, x>> \in OpToRel(<, Nat)
    BY <1>3, Zenon DEF OpToRel
  <1>5. x - 1 \in G
    BY <1>1, <1>3, <1>4, Zenon
  <1> QED
    BY <1>3, <1>5, Zenon

\* What adds up the same is the same: the total that LedgerIsExact names is the total.
LEMMA OneTotal ==
    ASSUME NEW f, NEW g, NEW k, Adds(g, f), Adds(k, f)
    PROVE  g[Call] = k[Call]
  <1> DEFINE G == {n \in Nat : \A s \in SUBSET Call : Cardinality(s) <= n => g[s] = k[s]}
  <1>f. ASSUME NEW s \in SUBSET Call
        PROVE  /\ IsFiniteSet(s) /\ Cardinality(s) \in Nat /\ (Cardinality(s) = 0 => s = {})
               /\ \A x \in s : Cardinality(s \ {x}) = Cardinality(s) - 1
    <2>1. IsFiniteSet(s)
      BY ServerAssumption, FS_Subset
    <2> QED
      BY <2>1, FS_CardinalityType, FS_EmptySet, FS_RemoveElement
  <1>e. g[{}] = 0 /\ k[{}] = 0
    BY DEF Adds
  <1>1. 0 \in G
    <2>1. ASSUME NEW s \in SUBSET Call, Cardinality(s) <= 0 PROVE s = {}
      BY <1>f, <2>1
    <2> QED
      BY <1>e, <2>1
  <1>2. ASSUME NEW n \in Nat, n \in G PROVE n + 1 \in G
    <2>1. ASSUME NEW s \in SUBSET Call, Cardinality(s) <= n + 1, s # {} PROVE g[s] = k[s]
      <3> DEFINE x == Pick(s)
      <3>1. x \in s
        BY <2>1, Picked
      <3>2. g[s] = f[x] + g[s \ {x}] /\ k[s] = f[x] + k[s \ {x}]
        BY <2>1 DEF Adds
      <3> HIDE DEF x
      <3>3. s \ {x} \in SUBSET Call /\ Cardinality(s \ {x}) <= n
        BY <1>f, <2>1, <3>1
      <3>4. g[s \ {x}] = k[s \ {x}]
        BY <1>2, <3>3
      <3> QED
        BY <3>2, <3>4
    <2>2. ASSUME NEW s \in SUBSET Call, Cardinality(s) <= n + 1 PROVE g[s] = k[s]
      BY <1>e, <2>1, <2>2
    <2> QED
      BY <2>2
  <1>3. Nat \subseteq G
    <2> HIDE DEF G
    <2> QED
      BY <1>1, <1>2, Induction
  <1> QED
    BY <1>3, <1>f

LEMMA LedgerTotal ==
    ASSUME NEW n, NEW f, \A c \in Call : f[c] = call[c].kept, IsTotal(n, f)
    PROVE  n = MapThenSumSet(LAMBDA c : call[c].kept, Call)
  <1> DEFINE Unfold(g) == [s \in SUBSET Call |-> IF s = {} THEN 0 ELSE call[Pick(s)].kept + g[s \ {Pick(s)}]]
             total == CHOOSE g : g = Unfold(g)
  <1>1. PICK g \in [SUBSET Call -> Int] : Adds(g, f) /\ n = g[Call]
    BY DEF IsTotal
  <1>2. ASSUME NEW s \in SUBSET Call PROVE g[s] = Unfold(g)[s]
    <2>1. s # {} => Pick(s) \in Call
      BY Picked
    <2> QED
      BY <1>1, <2>1 DEF Adds
  <1>3. g = Unfold(g)
    BY <1>2
  <1>4. total = Unfold(total)
    <2> HIDE DEF Unfold
    <2> QED
      BY <1>3
  <1>5. MapThenSumSet(LAMBDA c : call[c].kept, Call) = total[Call]
    BY DEF MapThenSumSet, MapThenFoldSet, Pick
  <1> HIDE DEF total
  <1>6. ASSUME NEW s \in SUBSET Call PROVE total[s] = IF s = {} THEN 0 ELSE f[Pick(s)] + total[s \ {Pick(s)}]
    <2>1. Unfold(total)[s] = IF s = {} THEN 0 ELSE call[Pick(s)].kept + total[s \ {Pick(s)}]
      OBVIOUS
    <2>2. s # {} => Pick(s) \in Call
      BY Picked
    <2> HIDE DEF Unfold
    <2> QED
      BY <1>4, <2>1, <2>2
  <1>7. Adds(total, f)
    BY <1>6 DEF Adds
  <1> QED
    BY <1>1, <1>5, <1>7, OneTotal

\* A call belongs to a process that got as far as serving; what it has kept, and whether it may have
\* an open row, follows from where it stands.
Has == {"serves", "leaving", "left", "dead"}
Marked == {"vendor", "keep", "refund", "unmark"}
Callers == \A c \in Call :
    /\ call[c].by \in Proc => proc[call[c].by].pc \in Has
    /\ call[c].pc \in InCall => call[c].by \in Proc
KeptTakes == \A c \in Call :
    /\ call[c].pc \notin {"trueup", "end", "over"} => call[c].kept = 0
    /\ call[c].pc = "trueup" => call[c].kept = Cost
    /\ c \in open => call[c].pc \in Marked

\* A process is giving back a call in the step between the two of refund_orphans only.
GivesOne == \A p \in Proc :
    /\ proc[p].at # None => proc[p].pc \in {"drop", "dead"}
    /\ proc[p].pc = "drop" => proc[p].at \in Call \ proc[p].read

Books == Callers /\ KeptTakes /\ GivesOne /\ ReadsOthers

\* A start beside nobody has read every open row; after it the open rows are those of its own calls,
\* and a call under way has its row.
Listed ==
    /\ \A p \in Proc :
         /\ proc[p].pc = "give" => open = proc[p].read
         /\ proc[p].pc = "drop" => open = proc[p].read \cup {proc[p].at}
         /\ proc[p].pc = "acquire" => open = {}
         /\ proc[p].pc \in {"serves", "leaving", "left"} => \A c \in open : call[c].by = p
    /\ \A c \in Call : Runs(c) /\ call[c].pc \in Marked => c \in open
ListedAlone == second = 0 => Listed

\* What the ledger has of a call: what was kept, and its charge until it is given back.
GivenBack(c) == call[c].pc = "unmark" \/ \E p \in Proc : proc[p].at = c
Charged(c) == call[c].pc = "mark" \/ (c \in open /\ ~GivenBack(c))
Owed == [c \in Call |-> call[c].kept + IF Charged(c) THEN Cost ELSE 0]
Exact == second = 0 /\ ~Between => IsTotal(spent, Owed)

LedgerInv == TypeOK /\ TriesLeft /\ Books /\ Solo /\ ListedAlone /\ Exact

------------------------------------------------------------------------------
(* What the steps do to the books *)

Others(p) == \A q \in Proc : q # p => proc'[q] = proc[q]
Moved(p, from, to) ==
    /\ proc[p].pc \in from /\ proc'[p].pc \in to
    /\ proc'[p].read = proc[p].read /\ proc'[p].at = proc[p].at
    /\ Others(p) /\ UNCHANGED <<call, money>>

ProcStep(p) == Start(p) \/ StartStep(p) \/ Renew(p) \/ Leave(p) \/ Release(p) \/ Exit(p) \/ Crash(p)

LEMMA ProcSteps ==
    ASSUME TypeOK, NEW p \in Proc, ProcStep(p)
    PROVE  \/ Start(p) /\ Moved(p, {"new"}, {"jobs"})
           \/ Moved(p, {"jobs", "locks"}, {"locks", "charges"})
           \/ Moved(p, {"give"}, {"acquire"}) /\ proc[p].read = {}
           \/ Moved(p, {"acquire"}, {"new", "serves"})
           \/ Moved(p, {"serves", "leaving", "left"}, {"leaving", "left", "dead"})
           \/ UNCHANGED <<proc, call, money>>
           \/ ReadOrphans(p) \/ (\E c \in Call : GiveBack(p, c)) \/ DropOpen(p) \/ Crash(p)
  <1>t. ProcsOK
    BY TypeParts
  <1>1. ASSUME NEW to \in {"new", "dead"} \cup Alive, GoProc(p, to), UNCHANGED <<call, money>>
        PROVE  \A from : proc[p].pc \in from => Moved(p, from, {to})
    BY <1>t, <1>1, GoProcTypes DEF Moved, Others
  <1>m. \A from, to, more : to \subseteq more /\ Moved(p, from, to) => Moved(p, from, more)
    BY DEF Moved
  <1>2. CASE Start(p)
    BY <1>1, <1>2, Zenon DEF Start, Alive, Starting
  <1>3. CASE InterruptLeftovers(p)
    <2>1. Moved(p, {"jobs", "locks"}, {"locks"})
      BY <1>1, <1>3 DEF InterruptLeftovers, Alive, Starting
    <2> QED
      BY <1>m, <2>1
  <1>4. CASE ClearLeftovers(p)
    <2>1. Moved(p, {"jobs", "locks"}, {"charges"})
      BY <1>1, <1>4 DEF ClearLeftovers, Alive, Starting
    <2> QED
      BY <1>m, <2>1
  <1>5. CASE Imported(p)
    BY <1>1, <1>5 DEF Imported, Alive, Starting
  <1>6. CASE Acquire(p)
    <2>1. Moved(p, {"acquire"}, {"new"}) \/ Moved(p, {"acquire"}, {"serves"})
      BY <1>1, <1>6 DEF Acquire, Alive
    <2> QED
      BY <1>m, <2>1
  <1>7. CASE Renew(p)
    BY <1>7 DEF Renew
  <1>8. CASE Leave(p) \/ Release(p) \/ Exit(p)
    <2>1. \E to \in {"leaving", "left", "dead"} : Moved(p, {"serves", "leaving", "left"}, {to})
      BY <1>1, <1>8 DEF Leave, Release, Exit, Alive
    <2> QED
      BY <1>m, <2>1
  <1> QED
    BY <1>2, <1>3, <1>4, <1>5, <1>6, <1>7, <1>8 DEF ProcStep, StartStep

\* The steps of refund_orphans, and a crash, one by one.
LEMMA RefundSteps ==
    ASSUME TypeOK, NEW p \in Proc
    PROVE  /\ ReadOrphans(p) =>
                /\ proc[p].pc = "charges" /\ Others(p) /\ UNCHANGED <<call, money>>
                /\ proc'[p] = [pc |-> "give", read |-> {c \in open : call[c].by # p}, at |-> None]
           /\ \A c \in Call : GiveBack(p, c) =>
                /\ proc[p].pc = "give" /\ c \in proc[p].read /\ Others(p) /\ UNCHANGED <<call, open>>
                /\ proc'[p] = [pc |-> "drop", read |-> proc[p].read \ {c}, at |-> c] /\ spent' = spent - Cost
           /\ DropOpen(p) =>
                /\ proc[p].pc = "drop" /\ Others(p) /\ UNCHANGED <<call, spent>>
                /\ proc'[p] = [pc |-> "give", read |-> proc[p].read, at |-> None] /\ open' = open \ {proc[p].at}
           /\ Crash(p) =>
                /\ proc[p].pc \in Alive /\ Others(p) /\ UNCHANGED <<call, money>>
                /\ proc'[p] = [pc |-> "dead", read |-> {}, at |-> proc[p].at]
  <1>t. ProcsOK
    BY TypeParts
  <1>1. ReadOrphans(p) =>
          /\ proc[p].pc = "charges" /\ Others(p) /\ UNCHANGED <<call, money>>
          /\ proc'[p] = [pc |-> "give", read |-> {c \in open : call[c].by # p}, at |-> None]
    BY <1>t DEF ReadOrphans, ProcsOK, Others
  <1>2. \A c \in Call : GiveBack(p, c) =>
          /\ proc[p].pc = "give" /\ c \in proc[p].read /\ Others(p) /\ UNCHANGED <<call, open>>
          /\ proc'[p] = [pc |-> "drop", read |-> proc[p].read \ {c}, at |-> c] /\ spent' = spent - Cost
    BY <1>t DEF GiveBack, ProcsOK, Others
  <1>3. DropOpen(p) =>
          /\ proc[p].pc = "drop" /\ Others(p) /\ UNCHANGED <<call, spent>>
          /\ proc'[p] = [pc |-> "give", read |-> proc[p].read, at |-> None] /\ open' = open \ {proc[p].at}
    BY <1>t DEF DropOpen, ProcsOK, Procs, Others
  <1>4. Crash(p) =>
          /\ proc[p].pc \in Alive /\ Others(p) /\ UNCHANGED <<call, money>>
          /\ proc'[p] = [pc |-> "dead", read |-> {}, at |-> proc[p].at]
    BY <1>t DEF Crash, ProcsOK, Procs, Others
  <1> QED
    BY <1>1, <1>2, <1>3, <1>4

LEMMA CrashIsDead == ASSUME TypeOK, NEW p \in Proc, Crash(p) PROVE proc'[p].pc = "dead"
  <1>1. proc'[p] = [pc |-> "dead", read |-> {}, at |-> proc[p].at]
    BY RefundSteps
  <1> QED
    BY <1>1

\* A step of a call, by where the call stands: what it costs, and what becomes of its open row.
Steps(c, from, to, cost, kept) ==
    /\ call[c].pc = from /\ call'[c].pc \in to
    /\ spent' = spent + cost /\ call'[c].kept = kept

LEMMA CallSteps ==
    ASSUME TypeOK, NEW c \in Call, CallStep(c)
    PROVE  /\ Runs(c) /\ UNCHANGED <<proc, second>> /\ call'[c].by = call[c].by
           /\ \A d \in Call : d # c => call'[d] = call[d] /\ (d \in open' <=> d \in open)
           /\ \/ (c \in open' <=> c \in open)
                 /\ \/ Steps(c, "charge", {"mark"}, Cost, call[c].kept)
                    \/ Steps(c, "charge", {"end"}, 0, call[c].kept)
                    \/ Steps(c, "vendor", {"keep", "refund"}, 0, call[c].kept)
                    \/ Steps(c, "refund", {"unmark"}, -Cost, call[c].kept)
                    \/ \E used \in 1..3 : Steps(c, "trueup", {"end"}, used - Cost, used)
                    \/ Steps(c, "trueup", {"end"}, 0, call[c].kept)
                    \/ Steps(c, "end", {"over"}, 0, call[c].kept)
              \/ c \in open' /\ Steps(c, "mark", {"vendor"}, 0, call[c].kept)
              \/ c \notin open' /\ \/ Steps(c, "unmark", {"charge", "end"}, 0, call[c].kept)
                                   \/ Steps(c, "keep", {"trueup", "end"}, 0, Cost)
  <1>t. CallsOK /\ spent \in Int /\ open \in SUBSET Call
    BY TypeParts DEF RestOK
  <1>g. ASSUME NEW pc, Goes(c, pc)
        PROVE  /\ call'[c].pc = pc /\ call'[c].kept = call[c].kept /\ call'[c].by = call[c].by
               /\ \A d \in Call : d # c => call'[d] = call[d]
    BY <1>t, <1>g DEF Goes, CallsOK, Calls
  <1>1. CASE Charge(c)
    BY <1>t, <1>1, <1>g DEF Charge, CallAt, Steps, life, bounds, Cost
  <1>2. CASE MarkOpen(c)
    BY <1>t, <1>2, <1>g DEF MarkOpen, CallAt, Steps, life, bounds
  <1>3. CASE VendorAnswers(c)
    BY <1>t, <1>3, <1>g DEF VendorAnswers, CallAt, Steps, life, bounds, money
  <1>4. CASE Refund(c)
    BY <1>t, <1>4, <1>g DEF Refund, CallAt, Steps, life, bounds, Cost
  <1>5. CASE UnmarkFailed(c)
    BY <1>t, <1>5 DEF UnmarkFailed, CallAt, Steps, life, bounds, CallsOK, Calls
  <1>6. CASE UnmarkMade(c)
    BY <1>t, <1>6 DEF UnmarkMade, CallAt, Steps, life, bounds, CallsOK, Calls
  <1>7. CASE TrueUp(c)
    <2>0. CallAt(c, "trueup") /\ UNCHANGED <<life, open, bounds>>
      BY <1>7 DEF TrueUp
    <2>1. PICK used \in (Cost - 1)..(Cost + 1) :
            IF spent + used - Cost <= Ceiling
            THEN call' = [call EXCEPT ![c].kept = used, ![c].pc = "end"] /\ spent' = spent + used - Cost
            ELSE Goes(c, "end") /\ UNCHANGED spent
      BY <1>7 DEF TrueUp
    <2>2. used \in 1..3
      BY <2>1 DEF Cost
    <2>3. CASE Goes(c, "end") /\ UNCHANGED spent
      BY <1>t, <1>g, <2>0, <2>3 DEF CallAt, Steps, life, bounds
    <2>4. CASE call' = [call EXCEPT ![c].kept = used, ![c].pc = "end"] /\ spent' = spent + used - Cost
      <3>1. /\ call'[c].pc = "end" /\ call'[c].kept = used /\ call'[c].by = call[c].by
            /\ \A d \in Call : d # c => call'[d] = call[d]
        BY <1>t, <2>4 DEF CallsOK, Calls
      <3>2. spent' = spent + (used - Cost)
        BY <1>t, <2>2, <2>4 DEF Cost
      <3> QED
        BY <2>0, <2>2, <3>1, <3>2 DEF CallAt, Steps, life, bounds
    <2> QED
      BY <2>1, <2>3, <2>4
  <1>8. CASE EndJob(c)
    BY <1>t, <1>8 DEF EndJob, CallAt, Steps, life, bounds, money, CallsOK, Calls
  <1> QED
    BY <1>1, <1>2, <1>3, <1>4, <1>5, <1>6, <1>7, <1>8 DEF CallStep

LEMMA BeginFacts ==
    ASSUME TypeOK, NEW c \in Call, NEW p \in Proc, Begin(c, p)
    PROVE  /\ proc[p].pc = "serves" /\ call[c].pc = "new" /\ call'[c].pc = "charge" /\ call'[c].by = p
           /\ call'[c].kept = call[c].kept /\ \A d \in Call : d # c => call'[d] = call[d]
           /\ UNCHANGED <<proc, money, second>>
  BY TypeParts DEF Begin, CallsOK, Calls, life, bounds

LEMMA ProcCallers ==
    ASSUME TypeOK, Books, NEW p \in Proc, ProcStep(p)
    PROVE  Callers'
  <1>1. call' = call /\ \A q \in Proc : q # p => proc'[q] = proc[q]
    <2>1. ReadOrphans(p) \/ (\E c \in Call : GiveBack(p, c)) \/ DropOpen(p) \/ Crash(p) => call' = call /\ Others(p)
      BY RefundSteps
    <2> QED
      BY <2>1, ProcSteps DEF Moved, Others
  <1>2. proc[p].pc \in Has => proc'[p].pc \in Has
    <2>1. ReadOrphans(p) \/ (\E c \in Call : GiveBack(p, c)) \/ DropOpen(p) => proc[p].pc \notin Has
      BY RefundSteps DEF Has
    <2>2. Crash(p) => proc'[p].pc \in Has
      BY CrashIsDead DEF Has
    <2> QED
      BY <2>1, <2>2, ProcSteps DEF Moved, Has
  <1> QED
    BY <1>1, <1>2 DEF Books, Callers

LEMMA ProcTakes ==
    ASSUME TypeOK, Books, NEW p \in Proc, ProcStep(p)
    PROVE  KeptTakes'
  <1>1. call' = call /\ open' \subseteq open
    <2>1. ReadOrphans(p) \/ (\E c \in Call : GiveBack(p, c)) \/ DropOpen(p) \/ Crash(p) => call' = call /\ open' \subseteq open
      BY RefundSteps DEF money
    <2> QED
      BY <2>1, ProcSteps DEF Moved, money
  <1> QED
    BY <1>1 DEF Books, KeptTakes

LEMMA ProcGives ==
    ASSUME TypeOK, Books, NEW p \in Proc, ProcStep(p)
    PROVE  GivesOne'
  <1>t. proc[p] \in Procs /\ None \notin Call
    BY TypeParts, ServerAssumption DEF ProcsOK
  <1>0. ASSUME Others(p), proc'[p].at # None => proc'[p].pc \in {"drop", "dead"},
               proc'[p].pc = "drop" => proc'[p].at \in Call \ proc'[p].read
        PROVE  GivesOne'
    BY <1>0 DEF Others, GivesOne, Books
  <1>1. ASSUME NEW from, NEW to, Moved(p, from, to), "drop" \notin from, "dead" \notin from, "drop" \notin to PROVE GivesOne'
    BY <1>0, <1>1 DEF Moved, GivesOne, Books
  <1>2. ASSUME NEW pc, NEW read, NEW at, proc'[p] = [pc |-> pc, read |-> read, at |-> at], Others(p),
               at # None => pc \in {"drop", "dead"}, pc = "drop" => at \in Call \ read
        PROVE  GivesOne'
    BY <1>0, <1>2
  <1>3. CASE ReadOrphans(p)
    <2>1. proc'[p] = [pc |-> "give", read |-> {c \in open : call[c].by # p}, at |-> None] /\ Others(p)
      BY <1>3, RefundSteps
    <2> QED
      BY <1>2, <2>1
  <1>5. ASSUME NEW c \in Call, GiveBack(p, c) PROVE GivesOne'
    <2>1. proc'[p] = [pc |-> "drop", read |-> proc[p].read \ {c}, at |-> c] /\ Others(p)
      BY <1>5, RefundSteps
    <2> QED
      BY <1>2, <2>1
  <1>6. CASE DropOpen(p)
    <2>1. proc'[p] = [pc |-> "give", read |-> proc[p].read, at |-> None] /\ Others(p)
      BY <1>6, RefundSteps
    <2> QED
      BY <1>2, <2>1
  <1>7. CASE Crash(p)
    <2>1. proc'[p] = [pc |-> "dead", read |-> {}, at |-> proc[p].at] /\ Others(p)
      BY <1>7, RefundSteps
    <2> QED
      BY <1>2, <2>1
  <1>4. CASE UNCHANGED <<proc, call, money>>
    BY <1>4 DEF GivesOne, Books
  <1> QED
    BY <1>1, <1>3, <1>4, <1>5, <1>6, <1>7, ProcSteps

LEMMA ProcBooks == ASSUME TypeOK, Books, NEW p \in Proc, ProcStep(p) PROVE Books'
  <1>1. [Next]_vars
    BY DEF Next, ProcStep
  <1> QED
    BY <1>1, ProcCallers, ProcTakes, ProcGives, ReadsNext DEF Books

LEMMA CallBooks == ASSUME TypeOK, Books, NEW c \in Call, CallStep(c) PROVE Books'
  <1>0. /\ Runs(c) /\ proc' = proc /\ call'[c].by = call[c].by
        /\ \A d \in Call : d # c => call'[d] = call[d] /\ (d \in open' <=> d \in open)
    BY CallSteps
  <1>r. ReadsOthers'
    BY ReadsNext DEF Books, Next
  <1>1. Callers'
    <2>1. call'[c].by \in Proc
      BY <1>0 DEF Books, Callers, Runs
    <2> QED
      BY <1>0, <2>1 DEF Books, Callers
  <1>2. KeptTakes'
    <2>1. /\ call'[c].pc \notin {"trueup", "end", "over"} => call'[c].kept = 0
          /\ call'[c].pc = "trueup" => call'[c].kept = Cost
          /\ c \in open' => call'[c].pc \in Marked
      BY CallSteps DEF Books, KeptTakes, Steps, Marked
    <2> QED
      BY <1>0, <2>1 DEF Books, KeptTakes
  <1>3. GivesOne'
    BY <1>0 DEF Books, GivesOne
  <1> QED
    BY <1>r, <1>1, <1>2, <1>3 DEF Books

LEMMA BooksNext == TypeOK /\ Books /\ [Next]_vars => Books'
  <1> SUFFICES ASSUME TypeOK, Books, [Next]_vars PROVE Books'
    OBVIOUS
  <1>1. ASSUME NEW c \in Call, NEW p \in Proc, Begin(c, p) PROVE Books'
    <2>r. ReadsOthers'
      BY ReadsNext DEF Books
    <2>1. Callers'
      BY <1>1, BeginFacts DEF Books, Callers, Has
    <2>2. KeptTakes'
      BY <1>1, BeginFacts DEF Books, KeptTakes, Marked, money
    <2>3. GivesOne'
      BY <1>1, BeginFacts DEF Books, GivesOne
    <2> QED
      BY <2>r, <2>1, <2>2, <2>3 DEF Books
  <1>2. CASE Tick \/ UNCHANGED vars
    BY <1>2 DEF Tick, vars, life, money, Books, Callers, KeptTakes, GivesOne, ReadsOthers
  <1> QED
    BY <1>1, <1>2, ProcBooks, CallBooks DEF Next, ProcStep

------------------------------------------------------------------------------
(* Starts beside nobody *)

\* No process starts while a call is under way.
LEMMA NoneStarts ==
    ASSUME TypeOK, Books, Alone, NEW c \in Call, Runs(c)
    PROVE  \A p \in Proc : proc[p].pc \notin Starting
  <1>1. call[c].by \in Living /\ proc[call[c].by].pc \in Has
    BY DEF Books, Callers, Runs, Living
  <1>2. ASSUME NEW p \in Proc, proc[p].pc \in Starting PROVE p \in Living /\ p # call[c].by
    BY <1>1, <1>2 DEF Starting, Has, Living, Alive
  <1> QED
    BY <1>1, <1>2 DEF Alone

LEMMA ProcListed ==
    ASSUME TypeOK, Books, Alone, Listed, NEW p \in Proc, ProcStep(p), Start(p) => Living = {}
    PROVE  Listed'
  <1>t. open \in SUBSET Call /\ None \notin Call
    BY TypeParts, ServerAssumption DEF RestOK
  <1>1. CASE UNCHANGED <<proc, call, money>>
    BY <1>1 DEF Listed, money, Runs, Living
  <1>2. CASE ~UNCHANGED <<proc, call, money>>
    <2>0. call' = call /\ Others(p)
      BY <1>2, ProcSteps, RefundSteps DEF Moved
    <2>1. ASSUME NEW q \in Proc, q # p PROVE q \notin Living /\ q \notin Living'
      <3>1. proc'[q] = proc[q]
        BY <2>0, <2>1 DEF Others
      <3>2. p \in Living \/ Living = {}
        <4>1. Crash(p) \/ ReadOrphans(p) \/ DropOpen(p) \/ (\E c \in Call : GiveBack(p, c)) => p \in Living
          BY RefundSteps DEF Living, Alive, Starting
        <4> QED
          BY <1>2, <4>1, ProcSteps DEF Moved, Living, Alive, Starting
      <3> QED
        BY <2>1, <3>1, <3>2 DEF Alone, Living
    <2>2. /\ proc'[p].pc = "give" => open' = proc'[p].read
          /\ proc'[p].pc = "drop" => open' = proc'[p].read \cup {proc'[p].at}
          /\ proc'[p].pc = "acquire" => open' = {}
          /\ proc'[p].pc \in {"serves", "leaving", "left"} => \A c \in open' : call[c].by = p
      <3>1. CASE ReadOrphans(p)
        <4>1. proc[p].pc = "charges" /\ open' = open
              /\ proc'[p] = [pc |-> "give", read |-> {c \in open : call[c].by # p}, at |-> None]
          BY <3>1, RefundSteps DEF money
        <4>2. \A c \in open : call[c].by # p
          BY <1>t, <4>1 DEF Books, Callers, Has
        <4> QED
          BY <4>1, <4>2
      <3>2. ASSUME NEW c \in Call, GiveBack(p, c)
            PROVE  proc'[p].pc = "drop" /\ open' = proc'[p].read \cup {proc'[p].at}
        <4>1. /\ proc[p].pc = "give" /\ c \in proc[p].read /\ open' = open
              /\ proc'[p] = [pc |-> "drop", read |-> proc[p].read \ {c}, at |-> c]
          BY <3>2, RefundSteps
        <4>2. open = proc[p].read
          BY <4>1 DEF Listed
        <4> QED
          BY <4>1, <4>2
      <3>3. CASE DropOpen(p)
        <4>1. /\ proc[p].pc = "drop" /\ open' = open \ {proc[p].at}
              /\ proc'[p] = [pc |-> "give", read |-> proc[p].read, at |-> None]
          BY <3>3, RefundSteps
        <4>2. open = proc[p].read \cup {proc[p].at} /\ proc[p].at \notin proc[p].read
          BY <4>1 DEF Listed, Books, GivesOne
        <4> QED
          BY <4>1, <4>2
      <3>4. CASE Crash(p)
        BY <3>4, CrashIsDead
      <3>5. CASE Moved(p, {"give"}, {"acquire"}) /\ proc[p].read = {}
        BY <3>5 DEF Moved, Listed, money
      <3>6. CASE Moved(p, {"acquire"}, {"new", "serves"})
        BY <3>6 DEF Moved, Listed, money
      <3>7. CASE Moved(p, {"serves", "leaving", "left"}, {"leaving", "left", "dead"})
        BY <3>7 DEF Moved, Listed, money
      <3>8. CASE Moved(p, {"new", "jobs", "locks"}, {"jobs", "locks", "charges"})
        BY <3>8 DEF Moved
      <3>9. Moved(p, {"new"}, {"jobs"}) \/ Moved(p, {"jobs", "locks"}, {"locks", "charges"})
            => Moved(p, {"new", "jobs", "locks"}, {"jobs", "locks", "charges"})
        BY DEF Moved
      <3> QED
        BY <1>2, <3>1, <3>2, <3>3, <3>4, <3>5, <3>6, <3>7, <3>8, <3>9, ProcSteps
    <2>3. ASSUME NEW c \in Call, Runs(c)', call[c].pc \in Marked PROVE c \in open'
      <3>1. call[c].by = p /\ p \in Living'
        BY <2>0, <2>1, <2>3 DEF Runs, Living
      <3>2. proc[p].pc \in Has
        BY <3>1 DEF Books, Callers
      <3>3. ~ReadOrphans(p) /\ ~DropOpen(p) /\ ~(\E d \in Call : GiveBack(p, d)) /\ ~Crash(p)
        <4>1. Crash(p) => proc'[p].pc = "dead"
          BY CrashIsDead
        <4>2. ReadOrphans(p) \/ DropOpen(p) \/ (\E d \in Call : GiveBack(p, d)) => proc[p].pc \notin Has
          BY RefundSteps DEF Has
        <4> QED
          BY <3>1, <3>2, <4>1, <4>2 DEF Living, Alive, Starting
      <3>4. Moved(p, {"serves", "leaving", "left"}, {"leaving", "left", "dead"})
        BY <1>2, <3>2, <3>3, ProcSteps DEF Moved, Has
      <3>5. p \in Living /\ open' = open
        BY <3>4 DEF Moved, Living, Alive, money
      <3> QED
        BY <2>0, <2>3, <3>1, <3>5 DEF Listed, Runs
    <2>4. \A q \in Proc : q # p => proc'[q].pc \notin Alive
      BY <2>1 DEF Living
    <2> QED
      BY <2>0, <2>2, <2>3, <2>4 DEF Listed, Alive, Starting
  <1> QED
    BY <1>1, <1>2

LEMMA CallListed == ASSUME TypeOK, TriesLeft, Books, Alone, Listed, NEW c \in Call, CallStep(c) PROVE Listed'
  <1>0. /\ Runs(c) /\ proc' = proc /\ call'[c].by = call[c].by
        /\ \A d \in Call : d # c => call'[d] = call[d] /\ (d \in open' <=> d \in open)
    BY CallSteps
  <1>t. open \in SUBSET Call /\ open' \in SUBSET Call
    BY TypesNext DEF TypeOK, Next
  <1>1. \A p \in Proc : proc[p].pc \notin Starting
    BY <1>0, NoneStarts
  <1>2. ASSUME NEW p \in Proc, proc[p].pc \in {"serves", "leaving", "left"}, NEW d \in open' PROVE call'[d].by = p
    <2>1. CASE d # c
      BY <1>0, <1>t, <1>2, <2>1 DEF Listed
    <2>2. CASE d = c
      BY <1>0, <1>2, <2>2 DEF Alone, Runs, Living, Alive
    <2> QED
      BY <2>1, <2>2
  <1>3. ASSUME NEW d \in Call, Runs(d)', call'[d].pc \in Marked PROVE d \in open'
    <2>1. CASE d # c
      BY <1>0, <1>3, <2>1 DEF Listed, Runs, Living
    <2>2. CASE d = c
      <3>1. call[c].pc \in Marked => c \in open
        BY <1>0 DEF Listed
      <3> QED
        BY <1>3, <2>2, <3>1, CallSteps DEF Steps, Marked
    <2> QED
      BY <2>1, <2>2
  <1> QED
    BY <1>0, <1>1, <1>2, <1>3 DEF Listed, Starting

LEMMA ListedNext == TypeOK /\ TriesLeft /\ Books /\ Solo /\ ListedAlone /\ [Next]_vars => ListedAlone'
  <1> SUFFICES ASSUME TypeOK, TriesLeft, Books, Solo, ListedAlone, [Next]_vars, second' = 0 PROVE Listed'
    BY DEF ListedAlone
  <1>0. Alone /\ Listed /\ \A p \in Proc : Start(p) => Living = {}
    BY SecondStays DEF Solo, ListedAlone
  <1>1. ASSUME NEW c \in Call, NEW p \in Proc, Begin(c, p) PROVE Listed'
    <2>1. open \in SUBSET Call /\ c \notin open
      BY <1>1, BeginFacts DEF TypeOK, Books, KeptTakes, Marked
    <2>2. \A d \in Call : Runs(d)' /\ call'[d].pc \in Marked => Runs(d) /\ call[d].pc \in Marked
      BY <1>1, BeginFacts DEF Runs, Living, Marked
    <2>3. \A d \in open : call'[d] = call[d]
      BY <1>1, <2>1, BeginFacts
    <2>4. proc' = proc /\ open' = open
      BY <1>1, BeginFacts DEF money
    <2> QED
      BY <1>0, <2>2, <2>3, <2>4 DEF Listed
  <1>2. CASE Tick \/ UNCHANGED vars
    BY <1>0, <1>2 DEF Tick, vars, life, money, Listed, Runs, Living
  <1> QED
    BY <1>0, <1>1, <1>2, ProcListed, CallListed DEF Next, ProcStep

------------------------------------------------------------------------------
(* The ledger is what is owed *)

\* A process that is gone stays as it was, and a call that its process left stays where it stood.
LEMMA GoneStays ==
    ASSUME TypeOK, Books, [Next]_vars
    PROVE  /\ \A p \in Proc : proc[p].pc = "dead" => proc'[p] = proc[p]
           /\ \A c \in Call : call[c].pc \in InCall /\ ~Runs(c) => call'[c] = call[c] /\ ~Runs(c)'
  <1>1. ASSUME NEW p \in Proc, proc[p].pc = "dead" PROVE proc'[p] = proc[p]
    <2>1. ASSUME NEW q \in Proc, ProcStep(q) PROVE proc'[p] = proc[p]
      <3>1. Crash(q) \/ ReadOrphans(q) \/ DropOpen(q) \/ (\E c \in Call : GiveBack(q, c)) => Others(q) /\ proc[q].pc # "dead"
        BY RefundSteps DEF Alive, Starting
      <3> QED
        BY <1>1, <2>1, <3>1, ProcSteps DEF Moved, Others
    <2>2. (\E c \in Call : CallStep(c) \/ \E q \in Proc : Begin(c, q)) \/ Tick \/ UNCHANGED vars => proc' = proc
      BY CallSteps, BeginFacts DEF Tick, vars, life
    <2> QED
      BY <2>1, <2>2 DEF Next, ProcStep
  <1>2. ASSUME NEW c \in Call, call[c].pc \in InCall, ~Runs(c) PROVE call'[c] = call[c] /\ ~Runs(c)'
    <2>1. proc[call[c].by].pc = "dead" /\ call[c].by \in Proc
      BY <1>2 DEF Books, Callers, Runs, Living, Has, Alive
    <2>2. call'[c] = call[c]
      <3>1. ASSUME NEW q \in Proc, ProcStep(q) PROVE call' = call
        BY <3>1, ProcSteps, RefundSteps DEF Moved
      <3>2. ASSUME NEW d \in Call, CallStep(d) PROVE call'[c] = call[c]
        BY <1>2, <3>2, CallSteps
      <3>3. ASSUME NEW d \in Call, NEW q \in Proc, Begin(d, q) PROVE call'[c] = call[c]
        BY <1>2, <3>3, BeginFacts DEF InCall
      <3>4. Tick \/ UNCHANGED vars => call' = call
        BY DEF Tick, vars
      <3> QED
        BY <3>1, <3>2, <3>3, <3>4 DEF Next, ProcStep
    <2> QED
      BY <1>1, <2>1, <2>2 DEF Runs, Living, Alive, Starting
  <1> QED
    BY <1>1, <1>2

LEMMA BetweenStays == ASSUME TypeOK, Books, [Next]_vars, Between PROVE Between'
  BY GoneStays DEF Between, InCall

\* While a call is under way nothing is being given back.
LEMMA NothingGiven ==
    ASSUME TypeOK, Books, Alone, ~Between, NEW c \in Call, Runs(c)
    PROVE  \A p \in Proc : proc[p].at = None
  BY NoneStarts DEF Books, GivesOne, Between, Starting

LEMMA OwedTypes == TypeOK => Owed \in [Call -> Int]
  BY TypeParts DEF Owed, CallsOK, Calls, Cost

\* A step in which what is owed of one call moves as much as the ledger.
LEMMA OwedMoves ==
    ASSUME TypeOK, TypeOK', IsTotal(spent, Owed), NEW c \in Call,
           \A d \in Call : d # c => Owed'[d] = Owed[d], spent' = spent + (Owed'[c] - Owed[c])
    PROVE  IsTotal(spent', Owed')
  <1>0. (TypeOK => Owed \in [Call -> Int])'
    BY OwedTypes, PTL
  <1>1. Owed \in [Call -> Int] /\ Owed' \in [Call -> Int] /\ spent \in Int
    BY <1>0, OwedTypes DEF TypeOK
  <1> QED
    BY <1>1, TotalMoves

LEMMA ProcExact ==
    ASSUME TypeOK, TypeOK', Books, Alone, Listed, ~Between, IsTotal(spent, Owed), NEW p \in Proc, ProcStep(p)
    PROVE  IsTotal(spent', Owed')
  <1>t. open \in SUBSET Call /\ None \notin Call /\ spent \in Int
    BY ServerAssumption DEF TypeOK
  <1>0. ASSUME call' = call, spent' = spent, open' = open, \A q \in Proc : proc'[q].at = proc[q].at
        PROVE  IsTotal(spent', Owed')
    <2>1. Owed' = Owed
      BY <1>0 DEF Owed, Charged, GivenBack
    <2> QED
      BY <1>0, <2>1
  <1>1. ASSUME NEW from, NEW to, Moved(p, from, to) PROVE IsTotal(spent', Owed')
    BY <1>0, <1>1 DEF Moved, Others, money
  <1>2. CASE UNCHANGED <<proc, call, money>>
    BY <1>0, <1>2 DEF money
  <1>3. CASE ReadOrphans(p)
    <2>1. /\ proc[p].pc = "charges" /\ Others(p) /\ UNCHANGED <<call, money>>
          /\ proc'[p] = [pc |-> "give", read |-> {c \in open : call[c].by # p}, at |-> None]
      BY <1>3, RefundSteps
    <2>2. proc[p].at = None
      BY <2>1 DEF Books, GivesOne
    <2> QED
      BY <1>0, <2>1, <2>2 DEF Others, money
  <1>4. ASSUME NEW c \in Call, GiveBack(p, c) PROVE IsTotal(spent', Owed')
    <2>1. /\ proc[p].pc = "give" /\ c \in proc[p].read /\ Others(p) /\ UNCHANGED <<call, open>>
          /\ proc'[p] = [pc |-> "drop", read |-> proc[p].read \ {c}, at |-> c] /\ spent' = spent - Cost
      BY <1>4, RefundSteps
    <2>2. \A q \in Proc : proc[q].at = None
      <3> SUFFICES ASSUME NEW q \in Proc, proc[q].at # None PROVE FALSE
        OBVIOUS
      <3>1. proc[q].pc = "drop" /\ q # p
        BY <2>1 DEF Books, GivesOne, Between
      <3> QED
        BY <2>1, <3>1 DEF Alone, Living, Alive, Starting
    <2>3. c \in open /\ call[c].pc \in Marked /\ ~Runs(c)
      <3>1. ~Runs(c)
        BY <2>1, NoneStarts DEF Starting
      <3> QED
        BY <2>1, <3>1 DEF Listed, Books, KeptTakes
    <2>4. call[c].pc \notin {"mark", "unmark"}
      BY <2>3 DEF Between
    <2>5. \A d \in Call : GivenBack(d)' <=> GivenBack(d) \/ d = c
      BY <1>t, <2>1, <2>2 DEF GivenBack, Others
    <2>6. \A d \in Call : d # c => Owed'[d] = Owed[d]
      BY <2>1, <2>5 DEF Owed, Charged
    <2>7. Charged(c) /\ ~Charged(c)'
      BY <1>t, <2>1, <2>2, <2>3, <2>4, <2>5 DEF Charged, GivenBack
    <2>8. call[c].kept \in Int
      BY TypeParts DEF CallsOK, Calls
    <2>9. Owed[c] = call[c].kept + Cost /\ Owed'[c] = call[c].kept + 0
      BY <2>1, <2>7 DEF Owed
    <2>10. spent' = spent + (Owed'[c] - Owed[c])
      BY <1>t, <2>1, <2>8, <2>9 DEF Cost
    <2> QED
      BY <2>6, <2>10, OwedMoves
  <1>5. CASE DropOpen(p)
    <2>1. /\ proc[p].pc = "drop" /\ Others(p) /\ UNCHANGED <<call, spent>>
          /\ proc'[p] = [pc |-> "give", read |-> proc[p].read, at |-> None] /\ open' = open \ {proc[p].at}
      BY <1>5, RefundSteps
    <2>2. \A d \in Call : Charged(d)' <=> Charged(d)
      <3>1. \A d \in Call : d # proc[p].at => (GivenBack(d)' <=> GivenBack(d))
        BY <1>t, <2>1 DEF GivenBack, Others
      <3> QED
        BY <2>1, <3>1 DEF Charged, GivenBack
    <2>3. Owed' = Owed
      BY <2>1, <2>2 DEF Owed
    <2> QED
      BY <2>1, <2>3
  <1>6. CASE Crash(p)
    <2>1. Others(p) /\ UNCHANGED <<call, money>> /\ proc'[p] = [pc |-> "dead", read |-> {}, at |-> proc[p].at]
      BY <1>6, RefundSteps
    <2> QED
      BY <1>0, <2>1 DEF Others, money
  <1> QED
    BY <1>1, <1>2, <1>3, <1>4, <1>5, <1>6, ProcSteps

LEMMA CallExact ==
    ASSUME TypeOK, TypeOK', Books, Alone, Listed, ~Between, IsTotal(spent, Owed), NEW c \in Call, CallStep(c)
    PROVE  IsTotal(spent', Owed')
  <1>0. /\ Runs(c) /\ proc' = proc
        /\ \A d \in Call : d # c => call'[d] = call[d] /\ (d \in open' <=> d \in open)
    BY CallSteps
  <1>t. spent \in Int /\ None \notin Call /\ call[c].kept \in Int /\ call'[c].kept \in Int
    BY TypeParts, ServerAssumption DEF TypeOK
  <1>1. \A p \in Proc : proc[p].at = None /\ proc'[p].at = None
    BY <1>0, NothingGiven
  <1>2. \A d \in Call : (GivenBack(d) <=> call[d].pc = "unmark") /\ (GivenBack(d)' <=> call'[d].pc = "unmark")
    BY <1>t, <1>1 DEF GivenBack
  <1>3. \A d \in Call : d # c => Owed'[d] = Owed[d]
    BY <1>0, <1>2 DEF Owed, Charged
  <1>4. /\ Owed[c] = call[c].kept + (IF Charged(c) THEN 2 ELSE 0)
        /\ Owed'[c] = call'[c].kept + (IF Charged(c)' THEN 2 ELSE 0)
    BY DEF Owed, Cost
  <1>5. /\ Charged(c) <=> call[c].pc = "mark" \/ (c \in open /\ call[c].pc # "unmark")
        /\ Charged(c)' <=> call'[c].pc = "mark" \/ (c \in open' /\ call'[c].pc # "unmark")
    BY <1>2 DEF Charged
  <1>6. /\ c \in open => call[c].pc \in Marked
        /\ call[c].pc \in Marked => c \in open
        /\ call[c].pc \notin {"trueup", "end", "over"} => call[c].kept = 0
        /\ call[c].pc = "trueup" => call[c].kept = 2
    BY <1>0 DEF Books, KeptTakes, Listed, Cost
  <1>7. spent' = spent + (Owed'[c] - Owed[c])
    BY <1>t, <1>4, <1>5, <1>6, CallSteps DEF Steps, Marked, Cost
  <1> QED
    BY <1>3, <1>7, OwedMoves

LEMMA ExactNext == LedgerInv /\ [Next]_vars => Exact'
  <1> SUFFICES ASSUME LedgerInv, [Next]_vars, second' = 0, ~Between' PROVE IsTotal(spent', Owed')
    BY DEF Exact
  <1>0. TypeOK /\ TypeOK' /\ Books /\ Alone /\ Listed /\ ~Between /\ IsTotal(spent, Owed)
    BY SecondStays, BetweenStays, TypesNext DEF LedgerInv, Solo, ListedAlone, Exact
  <1>1. ASSUME NEW c \in Call, NEW p \in Proc, Begin(c, p) PROVE IsTotal(spent', Owed')
    <2>1. /\ call[c].pc = "new" /\ call'[c].pc = "charge" /\ call'[c].kept = call[c].kept
          /\ \A d \in Call : d # c => call'[d] = call[d]
          /\ proc' = proc /\ open' = open /\ spent' = spent
      BY <1>0, <1>1, BeginFacts DEF money
    <2>2. c \notin open
      BY <1>0, <2>1 DEF Books, KeptTakes, Marked
    <2>3. \A d \in Call : call'[d].kept = call[d].kept /\ (Charged(d)' <=> Charged(d))
      BY <2>1, <2>2 DEF Charged, GivenBack
    <2>4. Owed' = Owed
      BY <2>3 DEF Owed
    <2> QED
      BY <1>0, <2>1, <2>4
  <1>2. CASE Tick \/ UNCHANGED vars
    <2>1. UNCHANGED <<proc, call, money>>
      BY <1>2 DEF Tick, vars, life
    <2>2. Owed' = Owed /\ spent' = spent
      BY <2>1 DEF Owed, Charged, GivenBack, money
    <2> QED
      BY <1>0, <2>2
  <1> QED
    BY <1>0, <1>1, <1>2, ProcExact, CallExact DEF Next, ProcStep

\* Wherever crashes, retries, starts, refunds and true-ups fall, once the server is up and no call is
\* under way the ledger is what the takes that were kept cost (VoiceBudget.charge, held, refund_orphans
\* of budget.py), but in the two windows that LedgerIsExact names.
THEOREM LedgerHolds == Spec => []LedgerIsExact
  <1>1. Init => LedgerInv
    <2> SUFFICES ASSUME Init PROVE Books /\ Solo /\ ListedAlone /\ Exact /\ TriesLeft
      BY InitTypes DEF LedgerInv
    <2>1. Books /\ TriesLeft
      BY ServerAssumption DEF Init, Books, Callers, KeptTakes, GivesOne, ReadsOthers, TriesLeft, InCall
    <2>2. Solo /\ ListedAlone
      BY DEF Init, Solo, Alone, ListedAlone, Listed, Living, Alive, Starting, Runs, InCall
    <2>3. \A c \in Call : Owed[c] = 0
      BY DEF Init, Owed, Charged
    <2> QED
      BY <2>1, <2>2, <2>3, TotalOfNone DEF Init, Exact
  <1>2. LedgerInv /\ [Next]_vars => LedgerInv'
    BY TypesNext, BooksNext, SoloNext, ListedNext, ExactNext DEF LedgerInv
  <1>3. LedgerInv => LedgerIsExact
    <2> SUFFICES ASSUME LedgerInv, Quiet, second = 0, ~Between
                 PROVE  spent = MapThenSumSet(LAMBDA c : call[c].kept, Call)
      BY DEF LedgerIsExact
    <2>1. PICK p \in Proc : proc[p].pc = "serves"
      BY DEF Quiet
    <2>2. ASSUME NEW c \in Call PROVE c \notin open
      <3> SUFFICES ASSUME c \in open PROVE FALSE
        OBVIOUS
      <3>1. call[c].by = p /\ call[c].pc \in InCall
        BY <2>1 DEF LedgerInv, ListedAlone, Listed, Books, KeptTakes, Marked, InCall
      <3> QED
        BY <2>1, <3>1 DEF Quiet, Runs, Living, Alive
    <2>3. \A c \in Call : call[c].pc # "mark"
      BY DEF Quiet, Between
    <2>4. ASSUME NEW c \in Call PROVE Owed[c] = call[c].kept
      <3>1. call[c].kept \in Int /\ ~Charged(c)
        BY <2>2, <2>3, TypeParts DEF LedgerInv, Charged, CallsOK, Calls
      <3> QED
        BY <3>1 DEF Owed
    <2> QED
      BY <2>4, LedgerTotal DEF LedgerInv, Exact
  <1> QED
    BY <1>1, <1>2, <1>3, PTL DEF Spec
==============================================================================
