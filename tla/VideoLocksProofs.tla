--------------------------- MODULE VideoLocksProofs ---------------------------
(***************************************************************************)
(* Proofs about VideoLocks for any videos, ids, people and leases: the     *)
(* type invariant, one worker per video, that the lock table implements    *)
(* OneEdit, and what no step does to a lock that is held or to a question. *)
(*                                                                         *)
(* The second part is about AddLanding, what a change made by hand does    *)
(* under such a lock, for any changes, previews and Stops: its types, and  *)
(* that what lands has its render, but for a Stop that put its edit set    *)
(* back meanwhile.  The two are specifications of their own; no theorem is *)
(* about both.                                                             *)
(***************************************************************************)
EXTENDS VideoLocks, AddLanding, TLAPS

Row == Lock \cup {Ready}

\* What the operators on a row return is a row, and a lease that starts is above zero.
LEMMA LeaseOfPositive == \A kind \in Kinds : LeaseOf(kind) \in Nat \ {0}
  BY LeaseAssumption DEF LeaseOf, Kinds

LEMMA TakenIsLock ==
    ASSUME NEW h \in Holder, NEW p \in Starter
    PROVE  Taken(h, p) \in Lock /\ Taken(h, p).left > 0 /\ Taken(h, p).holder = h /\ Taken(h, p).by = p
  <1>1. h.kind \in Kinds
    BY DEF Holder
  <1> QED
    BY <1>1, LeaseOfPositive DEF Taken, Lock

LEMMA HandedIsRow ==
    ASSUME NEW r \in Row, NEW old \in Holder, NEW new \in Holder
    PROVE  /\ Handed(r, old, new) \in Row
           /\ Held(r, old) => /\ Held(Handed(r, old, new), new)
                              /\ Handed(r, old, new).left > 0
                              /\ Handed(r, old, new).by = r.by
           /\ ~Held(r, old) => Handed(r, old, new) = r
  <1>1. new.kind \in Kinds
    BY DEF Holder
  <1>2. CASE Held(r, old)
    <2>1. r \in Lock
      BY <1>2 DEF Held, Row
    <2>2. Handed(r, old, new) = [holder |-> new, by |-> r.by, left |-> LeaseOf(new.kind)]
      BY <1>2, <2>1 DEF Handed, Lock
    <2>3. Handed(r, old, new) \in Lock
      BY <1>1, <2>1, <2>2, LeaseOfPositive DEF Lock
    <2> QED
      BY <1>1, <1>2, <2>2, <2>3, LeaseOfPositive, LeaseAssumption DEF Held, Row
  <1>3. CASE ~Held(r, old)
    BY <1>3 DEF Handed
  <1> QED
    BY <1>2, <1>3

LEMMA RenewedIsRow ==
    ASSUME NEW r \in Row, NEW h \in Holder
    PROVE  /\ Renewed(r, h) \in Row
           /\ Held(r, h) => Renewed(r, h) = [holder |-> r.holder, by |-> r.by, left |-> Lease]
           /\ ~Held(r, h) => Renewed(r, h) = r
  BY LeaseAssumption DEF Renewed, Row, Lock, Held

LEMMA ReleasedIsRow ==
    ASSUME NEW r \in Row, NEW h \in Holder
    PROVE  Released(r, h) \in Row
  BY DEF Released, Row

LEMMA SweptIsRow ==
    ASSUME NEW r \in Row
    PROVE  Swept(r) \in Row /\ (r # Ready /\ r.left > 0 => Swept(r) = r)
  BY DEF Swept, Row

LEMMA KeptIsRow ==
    ASSUME NEW r \in Row
    PROVE  Kept(r) \in Row
  BY DEF Kept, Row

LEMMA ByIsHolder == \A kind \in Kinds, w \in Work : By(kind, w) \in Holder /\ By(kind, w).kind = kind /\ By(kind, w).id = w
  BY DEF By, Holder
------------------------------------------------------------------------------
\* A server that is down runs no thread.
DownIsIdle == ~up => \A v \in Video : working[v] = {}

IInv == TypeOK /\ WorkIsCovered /\ DownIsIdle

\* A video's row and its workers are all a thread's step touches.
RowStep(v) ==
    \E r \in Row, S \in SUBSET Holder :
        /\ row' = [row EXCEPT ![v] = r]
        /\ working' = [working EXCEPT ![v] = S]
        /\ \A h \in S : h.kind # "gate" /\ Held(r, h) /\ r.left > 0

LEMMA RowStepIntro ==
    ASSUME NEW v \in Video, NEW r \in Row, NEW S \in SUBSET Holder,
           row' = [row EXCEPT ![v] = r], working' = [working EXCEPT ![v] = S],
           \A h \in S : h.kind # "gate" /\ Held(r, h) /\ r.left > 0
    PROVE  RowStep(v)
  BY DEF RowStep

\* What a thread's step may use about its video.
LEMMA VideoFacts ==
    ASSUME IInv, NEW v \in Video
    PROVE  /\ row[v] \in Row
           /\ working[v] \in SUBSET Holder
           /\ row = [row EXCEPT ![v] = row[v]]
           /\ working = [working EXCEPT ![v] = working[v]]
           /\ \A h \in working[v] : h.kind # "gate" /\ Held(row[v], h) /\ row[v].left > 0
  BY DEF IInv, TypeOK, WorkIsCovered, Row

\* A lock its holder hands on, to what is then the only worker of the video.
LEMMA HandCovers ==
    ASSUME IInv, NEW v \in Video, NEW old \in Holder, NEW new \in Holder,
           new.kind # "gate", Held(row[v], old),
           SetRow(v, Handed(row[v], old, new)), SetWorking(v, {new})
    PROVE  RowStep(v)
  <1>1. row[v] \in Row
    BY VideoFacts
  <1>2. Handed(row[v], old, new) \in Row /\ Held(Handed(row[v], old, new), new) /\ Handed(row[v], old, new).left > 0
    BY <1>1, HandedIsRow
  <1> DEFINE r == Handed(row[v], old, new)
  <1>3. row' = [row EXCEPT ![v] = r] /\ working' = [working EXCEPT ![v] = {new}]
    BY DEF SetRow, SetWorking
  <1>4. {new} \in SUBSET Holder /\ \A h \in {new} : h.kind # "gate" /\ Held(r, h) /\ r.left > 0
    BY <1>2
  <1>5. r \in Row
    BY <1>2
  <1> HIDE DEF r
  <1> QED
    BY <1>3, <1>4, <1>5, RowStepIntro

\* A step that leaves no worker on its video.
LEMMA EmptyCovers ==
    ASSUME NEW v \in Video, NEW r \in Row, SetRow(v, r), SetWorking(v, {})
    PROVE  RowStep(v)
  <1>1. {} \in SUBSET Holder
    OBVIOUS
  <1>2. row' = [row EXCEPT ![v] = r] /\ working' = [working EXCEPT ![v] = {}]
    BY DEF SetRow, SetWorking
  <1> QED
    BY <1>1, <1>2 DEF RowStep

\* Every thread's step takes a video whose workers are covered to one whose workers are covered.
LEMMA ThreadStepCovers ==
    ASSUME IInv, NEW v \in Video, ThreadStep(v)
    PROVE  RowStep(v)
  <1>c. \A h \in working[v] : h.kind # "gate" /\ Held(row[v], h) /\ row[v].left > 0
    BY VideoFacts
  <1>k. \A w \in Work : \A kind \in {"req", "turn", "job", "gate", "pause"} :
            By(kind, w) \in Holder /\ By(kind, w).kind = kind /\ By(kind, w).id = w
    BY ByIsHolder DEF Kinds
  <1>1. ASSUME NEW w \in Work, NEW kind \in {"turn", "job"}, NEW new \in Work, PassOn(v, w, kind, new)
        PROVE  RowStep(v)
    <2>1. By("req", w) \in working[v] /\ Held(row[v], By("req", w))
      BY <1>1, <1>c DEF PassOn
    <2>2. Replace(working[v], By("req", w), By(kind, new)) = {By(kind, new)}
      BY <2>1, <1>c DEF Replace, Held
    <2> QED
      BY <1>1, <1>k, <2>1, <2>2, HandCovers DEF PassOn
  <1>2. ASSUME NEW w \in Work, Hold(v, w) PROVE RowStep(v)
    <2>1. By("turn", w) \in working[v] /\ Held(row[v], By("turn", w))
      BY <1>2 DEF Hold
    <2>2. Replace(working[v], By("turn", w), By("pause", w)) = {By("pause", w)}
      BY <2>1, <1>c DEF Replace, Held
    <2> QED
      BY <1>2, <1>k, <2>1, <2>2, HandCovers DEF Hold
  <1>3. ASSUME NEW w \in Work, CarryOn(v, w) PROVE RowStep(v)
    <2>1. By("pause", w) \in working[v] /\ Held(row[v], By("pause", w))
      BY <1>3, <1>c DEF CarryOn
    <2>2. Replace(working[v], By("pause", w), By("turn", w)) = {By("turn", w)}
      BY <2>1, <1>c DEF Replace, Held
    <2> QED
      BY <1>3, <1>k, <2>1, <2>2, HandCovers DEF CarryOn
  <1>4. ASSUME NEW w \in Work, AskForGo(v, w) PROVE RowStep(v)
    <2>1. Handed(row[v], By("turn", w), By("gate", w)) \in Row
      BY <1>k, VideoFacts, HandedIsRow
    <2>2. working[v] \ {By("turn", w)} = {}
      BY <1>4, <1>c DEF AskForGo, Held
    <2> QED
      BY <1>4, <2>1, <2>2, EmptyCovers DEF AskForGo
  <1>5. ASSUME NEW w \in Work, ResumeLeft(v, w) PROVE RowStep(v)
    <2>1. Held(row[v], By("pause", w))
      BY <1>5 DEF ResumeLeft, Held
    <2>2. working[v] \cup {By("turn", w)} = {By("turn", w)}
      BY <1>5, <1>c DEF ResumeLeft, Alive, Held
    <2> QED
      BY <1>5, <1>k, <2>1, <2>2, HandCovers DEF ResumeLeft
  <1>6. ASSUME NEW h \in Holder, LetGo(v, h) PROVE RowStep(v)
    <2>1. Released(row[v], h) \in Row
      BY VideoFacts, ReleasedIsRow
    <2>2. working[v] \ {h} = {}
      BY <1>6, <1>c DEF LetGo, Held
    <2> QED
      BY <1>6, <2>1, <2>2, EmptyCovers DEF LetGo
  <1>7. ASSUME NEW h \in Holder, Die(v, h) PROVE RowStep(v)
    <2>1. working[v] \ {h} = {}
      BY <1>7, <1>c DEF Die, Held
    <2>2. row' = row /\ row = [row EXCEPT ![v] = row[v]] /\ row[v] \in Row
      BY <1>7, VideoFacts DEF Die
    <2> QED
      BY <1>7, <2>1, <2>2, EmptyCovers DEF Die, SetRow
  <1>8. ASSUME NEW h \in Holder, RenewOne(v, h) PROVE RowStep(v)
    <2> DEFINE r == IF h \in working[v] THEN Renewed(row[v], h) ELSE row[v]
    <2>1. row[v] \in Row /\ r \in Row
      BY VideoFacts, RenewedIsRow
    <2>2. ASSUME NEW g \in working[v] PROVE g.kind # "gate" /\ Held(r, g) /\ r.left > 0
      <3>1. row[v] # Ready /\ row[v] \in Lock
        BY <1>c, <2>1, <2>2 DEF Held, Row
      <3>2. CASE Held(row[v], h)
        <4>1. Renewed(row[v], h) = [holder |-> row[v].holder, by |-> row[v].by, left |-> Lease]
          BY <3>2, <2>1, RenewedIsRow
        <4>2. Renewed(row[v], h) \in Lock
          BY <4>1, <3>1, LeaseAssumption DEF Lock
        <4>3. Renewed(row[v], h) # Ready /\ Renewed(row[v], h).holder = row[v].holder /\ Renewed(row[v], h).left > 0
          BY <4>1, <4>2, LeaseAssumption
        <4> QED
          BY <1>c, <2>2, <4>3 DEF Held
      <3>3. CASE ~Held(row[v], h)
        BY <3>3, <1>c, <2>1, <2>2, RenewedIsRow
      <3> QED
        BY <3>2, <3>3
    <2>3. row' = [row EXCEPT ![v] = r] /\ working' = [working EXCEPT ![v] = working[v]]
      BY <1>8, VideoFacts DEF RenewOne, SetRow
    <2>4. working[v] \in SUBSET Holder
      BY VideoFacts
    <2> HIDE DEF r
    <2> QED
      BY <2>1, <2>2, <2>3, <2>4, RowStepIntro
  <1>9. ASSUME NEW w \in Work, NEW p \in Starter, NEW overGate \in BOOLEAN, Take(v, w, p, overGate)
        PROVE  RowStep(v)
    <2> DEFINE nh == By("req", w)
               r == Taken(nh, p)
    <2>1. nh \in Holder /\ nh.kind = "req" /\ nh.id = w
      BY <1>k
    <2>2. ASSUME NEW h \in working[v] PROVE FALSE
      <3>1. h.kind # "gate" /\ Held(row[v], h) /\ row[v].left > 0
        BY <1>c, <2>2
      <3>2. h.id # w
        BY <1>9, <2>2 DEF Take, Unused
      <3>3. MayTake(row[v], nh, p, overGate)
        BY <1>9 DEF Take
      <3> QED
        BY <2>1, <3>1, <3>2, <3>3 DEF MayTake, InForce, OverGate, IsGate, Held
    <2>3. r \in Lock /\ r.left > 0 /\ r.holder = nh
      BY <2>1, TakenIsLock
    <2>4. r \in Row /\ Held(r, nh)
      BY <2>3, LeaseAssumption DEF Held, Row
    <2>5. row' = [row EXCEPT ![v] = r] /\ working' = [working EXCEPT ![v] = {nh}]
      BY <1>9, <2>2 DEF Take, SetRow, SetWorking
    <2>6. {nh} \in SUBSET Holder /\ \A h \in {nh} : h.kind # "gate" /\ Held(r, h) /\ r.left > 0
      BY <2>1, <2>3, <2>4
    <2> HIDE DEF nh, r
    <2> QED
      BY <2>4, <2>5, <2>6, RowStepIntro
  <1>10. ASSUME DropWaiting(v) PROVE RowStep(v)
    <2>1. working[v] = {}
      BY <1>10, <1>c DEF DropWaiting, IsGate, IsPaused, Alive, Held
    <2>2. Released(row[v], row[v].holder) \in Row
      BY VideoFacts DEF Released, Row
    <2>3. SetWorking(v, {})
      BY <1>10, <2>1, VideoFacts DEF DropWaiting, SetWorking
    <2> QED
      BY <1>10, <2>2, <2>3, EmptyCovers DEF DropWaiting
  <1> QED
    BY <1>1, <1>2, <1>3, <1>4, <1>5, <1>6, <1>7, <1>8, <1>9, <1>10 DEF ThreadStep
------------------------------------------------------------------------------
LEMMA RowStepKeeps ==
    ASSUME IInv, NEW v \in Video, RowStep(v)
    PROVE  /\ row' \in [Video -> Row] /\ working' \in [Video -> SUBSET Holder]
           /\ WorkIsCovered'
  <1>1. PICK r \in Row, S \in SUBSET Holder :
            /\ row' = [row EXCEPT ![v] = r]
            /\ working' = [working EXCEPT ![v] = S]
            /\ \A h \in S : h.kind # "gate" /\ Held(r, h) /\ r.left > 0
    BY DEF RowStep
  <1>2. row \in [Video -> Row] /\ working \in [Video -> SUBSET Holder]
    BY DEF IInv, TypeOK, Row
  <1>3. ASSUME NEW u \in Video, NEW h \in working'[u]
        PROVE  h.kind # "gate" /\ Held(row'[u], h) /\ row'[u].left > 0
    BY <1>1, <1>2, <1>3 DEF IInv, WorkIsCovered
  <1> QED
    BY <1>1, <1>2, <1>3 DEF WorkIsCovered

LEMMA ThreadStepUp ==
    ASSUME IInv, NEW v \in Video, ThreadStep(v)
    PROVE  up' = up /\ up /\ scan' \in SUBSET (Video \X Holder)
  <1>1. scan \in SUBSET (Video \X Holder)
    BY DEF IInv, TypeOK
  <1> QED
    BY <1>1 DEF ThreadStep, PassOn, Hold, CarryOn, AskForGo, ResumeLeft, LetGo, Die, RenewOne, Take, DropWaiting

LEMMA InitIInv == Init => IInv
  BY DEF Init, IInv, TypeOK, WorkIsCovered, DownIsIdle

\* IInv is kept by every step of a server whose renewals keep up.
LEMMA NextIInv ==
    ASSUME RenewalsKeepUp, IInv, [Next]_vars
    PROVE  IInv'
  <1>1. ASSUME NEW v \in Video, ThreadStep(v) PROVE IInv'
    <2>1. RowStep(v) /\ up' = up /\ up /\ scan' \in SUBSET (Video \X Holder)
      BY <1>1, ThreadStepCovers, ThreadStepUp
    <2> QED
      BY <2>1, RowStepKeeps DEF IInv, TypeOK, DownIsIdle, Row
  <1>2. CASE RenewScan
    <2>1. scan' \in SUBSET (Video \X Holder)
      <3>1. \A v \in Video : row[v] # Ready => row[v].holder \in Holder
        BY DEF IInv, TypeOK, Lock
      <3> QED
        BY <1>2, <3>1 DEF RenewScan, InForce
    <2> QED
      BY <1>2, <2>1 DEF RenewScan, IInv, TypeOK, WorkIsCovered, DownIsIdle
  <1>3. CASE Sweep
    <2>1. \A v \in Video : row'[v] = Swept(row[v]) /\ row[v] \in Row /\ row'[v] \in Row
      BY <1>3, SweptIsRow DEF Sweep, IInv, TypeOK, Row
    <2>2. row' \in [Video -> Row]
      BY <1>3, <2>1 DEF Sweep
    <2>3. WorkIsCovered'
      BY <1>3, <2>1, SweptIsRow DEF Sweep, IInv, WorkIsCovered, Held
    <2> QED
      BY <1>3, <2>2, <2>3 DEF Sweep, IInv, TypeOK, DownIsIdle, Row
  <1>4. CASE Crash
    BY <1>4 DEF Crash, IInv, TypeOK, WorkIsCovered, DownIsIdle
  <1>5. CASE Restart
    <2>1. row' \in [Video -> Row]
      BY <1>5, KeptIsRow DEF Restart, IInv, TypeOK, Row
    <2> QED
      BY <1>5, <2>1 DEF Restart, IInv, TypeOK, WorkIsCovered, DownIsIdle, Row
  <1>6. CASE Tick
    <2>1. ASSUME NEW v \in Video
          PROVE  /\ row'[v] \in Row
                 /\ \A h \in working[v] : Held(row'[v], h) /\ row'[v].left > 0
      <3>1. row[v] \in Row
        BY VideoFacts
      <3>2. CASE InForce(row[v])
        <4>1. row[v] \in Lock /\ row[v].left \in Nat /\ row[v].left > 0
          BY <3>1, <3>2 DEF InForce, Row, Lock
        <4>2. row'[v] = [holder |-> row[v].holder, by |-> row[v].by, left |-> row[v].left - 1]
          BY <1>6, <3>2, <4>1 DEF Tick, Lock
        <4>3. row'[v] \in Lock
          BY <4>1, <4>2 DEF Lock
        <4>4. ASSUME NEW h \in working[v] PROVE Held(row'[v], h) /\ row'[v].left > 0
          <5>1. row[v].holder = h /\ Alive(v)
            BY <4>4 DEF IInv, WorkIsCovered, Held, Alive
          <5>2. row[v].left > 1
            BY <1>6, <5>1 DEF Tick
          <5> QED
            BY <4>1, <4>2, <4>3, <5>1, <5>2, LeaseAssumption DEF Held
        <4> QED
          BY <4>3, <4>4 DEF Row
      <3>3. CASE ~InForce(row[v])
        BY <1>6, <3>1, <3>3 DEF Tick, InForce, IInv, WorkIsCovered, Held
      <3> QED
        BY <3>2, <3>3
    <2>2. row' \in [Video -> Row]
      BY <1>6, <2>1 DEF Tick
    <2>3. WorkIsCovered'
      BY <1>6, <2>1 DEF Tick, IInv, WorkIsCovered
    <2> QED
      BY <1>6, <2>2, <2>3 DEF Tick, IInv, TypeOK, DownIsIdle, Row
  <1>7. CASE UNCHANGED vars
    BY <1>7 DEF vars, IInv, TypeOK, WorkIsCovered, DownIsIdle
  <1> QED
    BY <1>1, <1>2, <1>3, <1>4, <1>5, <1>6, <1>7 DEF Next

\* A thread that may change a video is the one its row names, under a lease in force.
THEOREM WorkersAreCovered == RenewalsKeepUp => (Spec => []WorkIsCovered)
  <1> SUFFICES ASSUME RenewalsKeepUp PROVE Spec => []WorkIsCovered
    OBVIOUS
  <1>1. IInv /\ [Next]_vars => IInv'
    BY NextIInv
  <1>2. IInv => WorkIsCovered
    BY DEF IInv
  <1> QED
    BY InitIInv, <1>1, <1>2, PTL DEF Spec

\* Never two threads that may change the same video.
THEOREM OneWorkerAtATime == RenewalsKeepUp => (Spec => []OneWorker)
  <1> SUFFICES ASSUME RenewalsKeepUp PROVE Spec => []OneWorker
    OBVIOUS
  <1>1. IInv /\ [Next]_vars => IInv'
    BY NextIInv
  <1>2. IInv => OneWorker
    BY DEF IInv, WorkIsCovered, OneWorker, Held
  <1> QED
    BY InitIInv, <1>1, <1>2, PTL DEF Spec
------------------------------------------------------------------------------
(* Whatever leases do: with a server that stalls, a lease may run out under its holder.  Nobody is *)
(* covered then, but the types hold, and so does what a step may never do to a row.                *)

StallInv == TypeOK /\ DownIsIdle /\ \A v \in Video : \A h \in working[v] : h.kind # "gate"

\* What a step does to the row and the workers of one video: it is typed, a lock in force of a living
\* thread stays or loses that thread, and a question in force waits for its person.
Rightly(r, S, more, T) ==
    /\ more \in Row /\ T \in SUBSET Holder /\ \A h \in T : h.kind # "gate"
    /\ r # Ready /\ r.holder \in S /\ InForce(r) => (more # Ready /\ more.holder = r.holder) \/ r.holder \notin T
    /\ IsGate(r) /\ InForce(r) /\ more # Ready =>
          /\ r.by # Nobody => more.by = r.by
          /\ IsGate(more) => more.left >= r.left - 1

\* A row that nothing happens to; nor is its holder's thread, or any, needed for that.
LEMMA RightlyStays ==
    ASSUME NEW r \in Row, NEW S \in SUBSET Holder, NEW T \in SUBSET Holder, \A h \in T : h.kind # "gate"
    PROVE  Rightly(r, S, r, T)
  BY DEF Rightly, Row, Lock, IsGate

\* A row that its holder hands on, or that somebody tries to hand on who is not its holder.
LEMMA RightlyHanded ==
    ASSUME NEW r \in Row, NEW S \in SUBSET Holder, NEW T \in SUBSET Holder, \A h \in T : h.kind # "gate",
           NEW old \in Holder, NEW new \in Holder, old.kind # "gate", old \in S => old \notin T
    PROVE  Rightly(r, S, Handed(r, old, new), T)
  <1>1. CASE Held(r, old)
    BY <1>1, HandedIsRow DEF Rightly, Held, IsGate
  <1>2. CASE ~Held(r, old)
    BY <1>2, HandedIsRow, RightlyStays
  <1> QED
    BY <1>1, <1>2

\* A row that is let go of by its holder.
LEMMA RightlyReleased ==
    ASSUME NEW r \in Row, NEW S \in SUBSET Holder, NEW T \in SUBSET Holder, \A h \in T : h.kind # "gate",
           NEW h \in Holder, h \in S => h \notin T
    PROVE  Rightly(r, S, Released(r, h), T)
  <1>1. CASE Held(r, h)
    BY <1>1 DEF Rightly, Released, Held, Row
  <1>2. CASE ~Held(r, h)
    BY <1>2, RightlyStays DEF Released
  <1> QED
    BY <1>1, <1>2

StallStep(v) ==
    \E r \in Row, T \in SUBSET Holder :
        /\ row' = [row EXCEPT ![v] = r] /\ working' = [working EXCEPT ![v] = T]
        /\ Rightly(row[v], working[v], r, T)

LEMMA StallIntro ==
    ASSUME NEW v \in Video, NEW r \in Row, NEW T \in SUBSET Holder, SetRow(v, r), SetWorking(v, T),
           Rightly(row[v], working[v], r, T)
    PROVE  StallStep(v)
  BY DEF StallStep, SetRow, SetWorking

\* A holder hands its row to another one, which works in its place (or nobody does).
LEMMA StallHands ==
    ASSUME StallInv, NEW v \in Video, NEW old \in Holder, NEW new \in Holder, NEW T \in SUBSET Holder,
           \A h \in T : h \in working[v] \/ (h = new /\ new.kind # "gate"),
           old.kind # "gate", old \in working[v] => old \notin T,
           SetRow(v, Handed(row[v], old, new)), SetWorking(v, T)
    PROVE  StallStep(v)
  <1>1. row[v] \in Row /\ working[v] \in SUBSET Holder /\ \A h \in T : h.kind # "gate"
    BY DEF StallInv, TypeOK, Row
  <1>2. Handed(row[v], old, new) \in Row
    BY <1>1, HandedIsRow
  <1>3. Rightly(row[v], working[v], Handed(row[v], old, new), T)
    BY <1>1, RightlyHanded
  <1> QED
    BY <1>2, <1>3, StallIntro

\* A holder is done with the video, and lets go of its row or leaves it behind.
LEMMA StallEnds ==
    ASSUME StallInv, NEW v \in Video, NEW h \in Holder, NEW r \in {row[v], Released(row[v], h)},
           NEW T \in SUBSET working[v], h \in working[v] => h \notin T, SetRow(v, r), SetWorking(v, T)
    PROVE  StallStep(v)
  <1>1. row[v] \in Row /\ working[v] \in SUBSET Holder /\ T \in SUBSET Holder /\ \A g \in T : g.kind # "gate"
    BY DEF StallInv, TypeOK, Row
  <1>2. r \in Row
    BY <1>1, ReleasedIsRow
  <1>3. Rightly(row[v], working[v], r, T)
    BY <1>1, RightlyStays, RightlyReleased
  <1> QED
    BY <1>1, <1>2, <1>3, StallIntro

LEMMA ThreadStepStalls ==
    ASSUME StallInv, NEW v \in Video, ThreadStep(v)
    PROVE  StallStep(v)
  <1>t. /\ row[v] \in Row /\ working[v] \in SUBSET Holder /\ \A h \in working[v] : h.kind # "gate"
        /\ row = [row EXCEPT ![v] = row[v]] /\ working = [working EXCEPT ![v] = working[v]]
    BY DEF StallInv, TypeOK, Row
  <1>k. \A w \in Work : \A kind \in {"req", "turn", "job", "gate", "pause"} :
            By(kind, w) \in Holder /\ By(kind, w).kind = kind /\ By(kind, w).id = w
    BY ByIsHolder DEF Kinds
  <1>s. SetWorking(v, working[v]) <=> working' = working
    BY <1>t DEF SetWorking
  <1>1. ASSUME NEW w \in Work, NEW kind \in {"turn", "job"}, NEW new \in Work, PassOn(v, w, kind, new)
        PROVE  StallStep(v)
    <2> DEFINE T == Replace(working[v], By("req", w), By(kind, new))
    <2>1. By("req", w) \in Holder /\ By("req", w).kind = "req" /\ By(kind, new) \in Holder /\ By(kind, new).kind = kind
      BY <1>k
    <2>2. T \in SUBSET Holder /\ By("req", w) \notin T /\ \A h \in T : h \in working[v] \/ h = By(kind, new)
      BY <1>t, <2>1 DEF Replace
    <2>3. SetRow(v, Handed(row[v], By("req", w), By(kind, new))) /\ SetWorking(v, T)
      BY <1>1 DEF PassOn
    <2> HIDE DEF T
    <2> QED
      BY <2>1, <2>2, <2>3, StallHands
  <1>2. ASSUME NEW w \in Work, Hold(v, w) PROVE StallStep(v)
    <2> DEFINE T == Replace(working[v], By("turn", w), By("pause", w))
    <2>1. By("turn", w) \in Holder /\ By("turn", w).kind = "turn" /\ By("pause", w) \in Holder /\ By("pause", w).kind = "pause"
      BY <1>k
    <2>2. T \in SUBSET Holder /\ By("turn", w) \notin T /\ \A h \in T : h \in working[v] \/ h = By("pause", w)
      BY <1>t, <2>1 DEF Replace
    <2>3. SetRow(v, Handed(row[v], By("turn", w), By("pause", w))) /\ SetWorking(v, T)
      BY <1>2 DEF Hold
    <2> HIDE DEF T
    <2> QED
      BY <2>1, <2>2, <2>3, StallHands
  <1>3. ASSUME NEW w \in Work, CarryOn(v, w) PROVE StallStep(v)
    <2> DEFINE T == Replace(working[v], By("pause", w), By("turn", w))
    <2>1. By("turn", w) \in Holder /\ By("turn", w).kind = "turn" /\ By("pause", w) \in Holder /\ By("pause", w).kind = "pause"
      BY <1>k
    <2>2. T \in SUBSET Holder /\ By("pause", w) \notin T /\ \A h \in T : h \in working[v] \/ h = By("turn", w)
      BY <1>t, <2>1 DEF Replace
    <2>3. SetRow(v, Handed(row[v], By("pause", w), By("turn", w))) /\ SetWorking(v, T)
      BY <1>3 DEF CarryOn
    <2> HIDE DEF T
    <2> QED
      BY <2>1, <2>2, <2>3, StallHands
  <1>4. ASSUME NEW w \in Work, AskForGo(v, w) PROVE StallStep(v)
    <2> DEFINE T == working[v] \ {By("turn", w)}
    <2>1. By("turn", w) \in Holder /\ By("turn", w).kind = "turn" /\ By("gate", w) \in Holder
      BY <1>k
    <2>2. T \in SUBSET Holder /\ By("turn", w) \notin T /\ \A h \in T : h \in working[v]
      BY <1>t
    <2>3. SetRow(v, Handed(row[v], By("turn", w), By("gate", w))) /\ SetWorking(v, T)
      BY <1>4 DEF AskForGo
    <2> HIDE DEF T
    <2> QED
      BY <2>1, <2>2, <2>3, StallHands
  <1>5. ASSUME NEW w \in Work, ResumeLeft(v, w) PROVE StallStep(v)
    <2> DEFINE T == working[v] \cup {By("turn", w)}
    <2>1. By("turn", w) \in Holder /\ By("turn", w).kind = "turn" /\ By("pause", w) \in Holder /\ By("pause", w).kind = "pause"
      BY <1>k
    <2>2. T \in SUBSET Holder /\ \A h \in T : h \in working[v] \/ h = By("turn", w)
      BY <1>t, <2>1
    <2>3. SetRow(v, Handed(row[v], By("pause", w), By("turn", w))) /\ SetWorking(v, T)
      BY <1>5 DEF ResumeLeft
    <2>4. By("pause", w) \notin working[v]
      BY <1>5 DEF ResumeLeft, Alive
    <2> HIDE DEF T
    <2> QED
      BY <2>1, <2>2, <2>3, <2>4, StallHands
  <1>6. ASSUME NEW h \in Holder, LetGo(v, h) PROVE StallStep(v)
    <2>1. SetRow(v, Released(row[v], h)) /\ SetWorking(v, working[v] \ {h})
      BY <1>6 DEF LetGo
    <2> QED
      BY <2>1, StallEnds
  <1>7. ASSUME NEW h \in Holder, Die(v, h) PROVE StallStep(v)
    <2>1. SetRow(v, row[v]) /\ SetWorking(v, working[v] \ {h})
      BY <1>t, <1>7 DEF Die, SetRow
    <2> QED
      BY <2>1, StallEnds
  <1>8. ASSUME NEW h \in Holder, RenewOne(v, h) PROVE StallStep(v)
    <2> DEFINE r == IF h \in working[v] THEN Renewed(row[v], h) ELSE row[v]
    <2>1. SetRow(v, r) /\ SetWorking(v, working[v])
      BY <1>s, <1>8 DEF RenewOne
    <2>2. r \in Row /\ Rightly(row[v], working[v], r, working[v])
      <3>1. CASE h \in working[v] /\ Held(row[v], h)
        <4>1. Renewed(row[v], h) = [holder |-> row[v].holder, by |-> row[v].by, left |-> Lease] /\ Renewed(row[v], h) \in Row
          BY <1>t, <3>1, RenewedIsRow
        <4>2. ~IsGate(row[v])
          BY <1>t, <3>1 DEF IsGate, Held
        <4>3. Renewed(row[v], h) # Ready
          BY <1>t, <3>1, <4>1, LeaseAssumption DEF Row, Lock, Held
        <4> QED
          BY <1>t, <3>1, <4>1, <4>2, <4>3 DEF Rightly
      <3>2. CASE ~(h \in working[v] /\ Held(row[v], h))
        <4>1. r = row[v]
          BY <1>t, <3>2, RenewedIsRow
        <4> QED
          BY <1>t, <4>1, RightlyStays
      <3> QED
        BY <3>1, <3>2
    <2> HIDE DEF r
    <2> QED
      BY <1>t, <2>1, <2>2, StallIntro
  <1>9. ASSUME NEW w \in Work, NEW p \in Starter, NEW overGate \in BOOLEAN, Take(v, w, p, overGate)
        PROVE  StallStep(v)
    <2> DEFINE nh == By("req", w)
               r == Taken(nh, p)
               T == working[v] \cup {nh}
    <2>1. nh \in Holder /\ nh.kind = "req" /\ nh.id = w
      BY <1>k
    <2>2. r \in Lock /\ r.left > 0 /\ r.holder = nh /\ r.by = p
      BY <2>1, TakenIsLock
    <2>3. MayTake(row[v], nh, p, overGate) /\ (row[v] # Ready => row[v].holder.id # w) /\ SetRow(v, r) /\ SetWorking(v, T)
      BY <1>9 DEF Take, Unused
    <2>4. T \in SUBSET Holder /\ \A h \in T : h.kind # "gate"
      BY <1>t, <2>1
    <2> HIDE DEF nh, r, T
    <2>5. InForce(row[v]) => IsGate(row[v]) /\ row[v].by \in {Nobody, p}
      BY <2>1, <2>3 DEF MayTake, OverGate, Held
    <2>6. ~(row[v] # Ready /\ row[v].holder \in working[v] /\ InForce(row[v]))
      BY <1>t, <2>5 DEF IsGate
    <2>7. Rightly(row[v], working[v], r, T)
      BY <2>1, <2>2, <2>4, <2>5, <2>6 DEF Rightly, IsGate, Row
    <2> QED
      BY <2>2, <2>3, <2>4, <2>7, StallIntro DEF Row
  <1>10. ASSUME DropWaiting(v) PROVE StallStep(v)
    <2>1. row[v] # Ready /\ row[v].holder \in Holder /\ row[v].holder \notin working[v]
      BY <1>t, <1>10 DEF DropWaiting, IsGate, IsPaused, Alive, Row, Lock
    <2>2. SetRow(v, Released(row[v], row[v].holder)) /\ SetWorking(v, working[v])
      BY <1>s, <1>10 DEF DropWaiting
    <2> QED
      BY <2>1, <2>2, StallEnds
  <1> QED
    BY <1>1, <1>2, <1>3, <1>4, <1>5, <1>6, <1>7, <1>8, <1>9, <1>10 DEF ThreadStep

\* A step of the loops, of time, and the server's end and start, on each video.
AllRightly == \A v \in Video : Rightly(row[v], working[v], row'[v], working'[v])

LEMMA StepStalls ==
    ASSUME StallInv, [Next]_vars
    PROVE  StallInv' /\ (AllRightly \/ (~up /\ up' /\ row' = [v \in Video |-> Kept(row[v])]))
  <1>t. /\ row \in [Video -> Row] /\ working \in [Video -> SUBSET Holder] /\ scan \in SUBSET (Video \X Holder) /\ up \in BOOLEAN
        /\ \A v \in Video : row[v] \in Row /\ working[v] \in SUBSET Holder /\ \A h \in working[v] : h.kind # "gate"
    BY DEF StallInv, TypeOK, Row
  <1>a. ASSUME row' \in [Video -> Row], working' \in [Video -> SUBSET Holder], scan' \in SUBSET (Video \X Holder), up' \in BOOLEAN,
               ~up' => \A v \in Video : working'[v] = {}, AllRightly
        PROVE  StallInv'
    BY <1>a DEF StallInv, TypeOK, DownIsIdle, AllRightly, Rightly, Row
  <1>1. ASSUME NEW v \in Video, ThreadStep(v) PROVE StallInv' /\ AllRightly
    <2>1. PICK r \in Row, T \in SUBSET Holder :
              /\ row' = [row EXCEPT ![v] = r] /\ working' = [working EXCEPT ![v] = T] /\ Rightly(row[v], working[v], r, T)
      BY <1>1, ThreadStepStalls DEF StallStep
    <2>2. up' = up /\ up /\ scan' \in SUBSET (Video \X Holder)
      BY <1>t, <1>1 DEF ThreadStep, PassOn, Hold, CarryOn, AskForGo, ResumeLeft, LetGo, Die, RenewOne, Take, DropWaiting
    <2>3. ASSUME NEW u \in Video PROVE Rightly(row[u], working[u], row'[u], working'[u])
      <3>1. CASE u = v
        BY <1>t, <2>1, <3>1
      <3>2. CASE u # v
        BY <1>t, <2>1, <3>2, RightlyStays
      <3> QED
        BY <3>1, <3>2
    <2>4. row' \in [Video -> Row] /\ working' \in [Video -> SUBSET Holder]
      BY <1>t, <2>1
    <2> QED
      BY <1>a, <2>2, <2>3, <2>4 DEF AllRightly
  <1>2. CASE RenewScan \/ UNCHANGED vars
    <2>1. row' = row /\ working' = working /\ up' = up
      BY <1>2 DEF RenewScan, vars
    <2>2. scan' \in SUBSET (Video \X Holder)
      <3>1. \A v \in Video : row[v] # Ready => row[v].holder \in Holder
        BY <1>t DEF Row, Lock
      <3> QED
        BY <1>t, <1>2, <3>1 DEF RenewScan, InForce, vars
    <2>3. AllRightly
      BY <1>t, <2>1, RightlyStays DEF AllRightly
    <2>4. ~up' => \A v \in Video : working'[v] = {}
      BY <2>1 DEF StallInv, DownIsIdle
    <2> QED
      BY <1>a, <1>t, <2>1, <2>2, <2>3, <2>4
  <1>3. CASE Sweep
    <2>1. \A v \in Video : row'[v] = Swept(row[v]) /\ row'[v] \in Row
      BY <1>t, <1>3, SweptIsRow DEF Sweep
    <2>2. ASSUME NEW v \in Video PROVE Rightly(row[v], working[v], row'[v], working'[v])
      <3>1. CASE InForce(row[v])
        <4>1. row'[v] = row[v]
          BY <1>t, <2>1, <3>1, SweptIsRow DEF InForce
        <4> QED
          BY <1>t, <1>3, <4>1, RightlyStays DEF Sweep
      <3>2. CASE ~InForce(row[v])
        BY <1>t, <1>3, <2>1, <3>2 DEF Rightly, Sweep
      <3> QED
        BY <3>1, <3>2
    <2>3. row' \in [Video -> Row]
      BY <1>3, <2>1 DEF Sweep
    <2> QED
      BY <1>a, <1>t, <1>3, <2>2, <2>3 DEF Sweep, AllRightly, StallInv, DownIsIdle
  <1>4. CASE Crash
    <2>1. ASSUME NEW v \in Video PROVE Rightly(row[v], working[v], row'[v], working'[v])
      <3>1. row'[v] = row[v] /\ working'[v] = {}
        BY <1>4 DEF Crash
      <3> QED
        BY <1>t, <3>1, RightlyStays
    <2> QED
      BY <1>a, <1>t, <1>4, <2>1 DEF Crash, AllRightly
  <1>5. CASE Restart
    <2>1. row' \in [Video -> Row]
      BY <1>t, <1>5, KeptIsRow DEF Restart
    <2> QED
      BY <1>5, <2>1 DEF Restart, StallInv, TypeOK, DownIsIdle, Row
  <1>6. CASE Tick
    <2>1. ASSUME NEW v \in Video PROVE row'[v] \in Row /\ Rightly(row[v], working[v], row'[v], working'[v])
      <3>1. CASE InForce(row[v])
        <4>1. row[v] \in Lock /\ row[v].left \in Nat /\ row[v].left > 0
          BY <1>t, <3>1 DEF InForce, Row, Lock
        <4>2. row'[v] = [holder |-> row[v].holder, by |-> row[v].by, left |-> row[v].left - 1]
          BY <1>6, <3>1, <4>1 DEF Tick, Lock
        <4>3. row'[v] \in Lock /\ row'[v] # Ready /\ row'[v].left = row[v].left - 1
          BY <4>1, <4>2, LeaseAssumption DEF Lock
        <4> QED
          BY <1>t, <1>6, <4>1, <4>2, <4>3 DEF Rightly, Tick, Row
      <3>2. CASE ~InForce(row[v])
        <4>1. row'[v] = row[v]
          BY <1>6, <3>2 DEF Tick
        <4> QED
          BY <1>t, <1>6, <4>1, RightlyStays DEF Tick
      <3> QED
        BY <3>1, <3>2
    <2>2. row' \in [Video -> Row]
      BY <1>6, <2>1 DEF Tick
    <2> QED
      BY <1>a, <1>t, <1>6, <2>1, <2>2 DEF Tick, AllRightly, StallInv, DownIsIdle
  <1> QED
    BY <1>1, <1>2, <1>3, <1>4, <1>5, <1>6 DEF Next, Restart

LEMMA StallInvAlways == Spec => []StallInv
  <1>1. Init => StallInv
    BY DEF Init, StallInv, TypeOK, DownIsIdle
  <1>2. StallInv /\ [Next]_vars => StallInv'
    BY StepStalls
  <1> QED
    BY <1>1, <1>2, PTL DEF Spec

\* Every row is a lock or Ready, with a lease that never runs below zero, also when leases run out
\* under their holders.
THEOREM TypeCorrect == Spec => []TypeOK
  <1>1. StallInv => TypeOK
    BY DEF StallInv
  <1> QED
    BY StallInvAlways, <1>1, PTL

\* A lock in force is never taken from a living thread but in a step that ends that thread's part in
\* the video: release, hand, renewal and sweep of jobs/locks.py act on their own row only.
THEOREM HoldersLetGo == Spec => OnlyItsHolderLetsGo
  <1>1. ASSUME StallInv, [Next]_vars
        PROVE  \A v \in Video : Alive(v) /\ InForce(row[v]) /\ up'
                 => \/ row'[v] # Ready /\ row'[v].holder = row[v].holder
                    \/ row[v].holder \notin working'[v]
    <2>1. CASE AllRightly
      BY <2>1 DEF AllRightly, Rightly, Alive
    <2>2. CASE ~up
      BY <1>1, <2>2 DEF StallInv, DownIsIdle, Alive
    <2> QED
      BY <1>1, <2>1, <2>2, StepStalls
  <1> QED
    BY StallInvAlways, <1>1, PTL DEF Spec, OnlyItsHolderLetsGo

\* A question waits for its own person, and a restart keeps questions and pauses and nothing else:
\* `over` in _take_lock, renew_live's look at the kind, and clear_leftovers.
THEOREM QuestionsWait == Spec => WaitsForItsPerson
  <1>1. ASSUME StallInv, [Next]_vars
        PROVE  \A v \in Video :
                 /\ IsGate(row[v]) /\ InForce(row[v]) /\ row'[v] # Ready
                    => /\ row[v].by # Nobody => row'[v].by = row[v].by
                       /\ IsGate(row'[v]) => row'[v].left >= row[v].left - 1
                 /\ ~up /\ up'
                    => row'[v] = IF IsGate(row[v]) \/ IsPaused(row[v]) THEN row[v] ELSE Ready
    <2>1. ASSUME NEW v \in Video, IsGate(row[v]), InForce(row[v]), row'[v] # Ready
          PROVE  /\ row[v].by # Nobody => row'[v].by = row[v].by
                 /\ IsGate(row'[v]) => row'[v].left >= row[v].left - 1
      <3>1. CASE AllRightly
        BY <2>1, <3>1 DEF AllRightly, Rightly
      <3>2. CASE row' = [u \in Video |-> Kept(row[u])]
        <4>1. row'[v] = row[v]
          BY <2>1, <3>2 DEF Kept
        <4>2. row[v].left \in Nat
          BY <1>1, <2>1 DEF StallInv, TypeOK, Lock, InForce
        <4> QED
          BY <4>1, <4>2
      <3> QED
        BY <1>1, <3>1, <3>2, StepStalls
    <2>2. ASSUME NEW v \in Video, ~up, up'
          PROVE  row'[v] = IF IsGate(row[v]) \/ IsPaused(row[v]) THEN row[v] ELSE Ready
      <3>1. Restart
        BY <1>1, <2>2 DEF Next, vars, ThreadStep, PassOn, Hold, CarryOn, AskForGo, ResumeLeft, LetGo, Die, RenewOne, Take, DropWaiting,
                          RenewScan, Sweep, Crash, Tick
      <3> QED
        BY <3>1 DEF Restart, Kept
    <2> QED
      BY <2>1, <2>2
  <1> QED
    BY StallInvAlways, <1>1, PTL DEF Spec, WaitsForItsPerson
------------------------------------------------------------------------------
(* The lock table implements OneEdit. *)

\* A row in force shows its phase, its id and its person.
LEMMA ViewOf ==
    ASSUME NEW r \in Row
    PROVE  /\ InForce(r) => /\ View(r) = [phase |-> PhaseOf(r.holder.kind), id |-> r.holder.id, by |-> r.by]
                            /\ r.holder.id \in Work /\ r.by \in Starter
                            /\ View(r).phase = PhaseOf(r.holder.kind)
                            /\ View(r).id = r.holder.id
                            /\ View(r).by = r.by
           /\ ~InForce(r) => View(r) = Ready
  BY DEF View, InForce, Row, Lock, Holder

\* A view is no view of a free video.
LEMMA ViewNotReady == ASSUME NEW r \in Row, InForce(r) PROVE View(r) # Ready
  <1>1. View(r) \in Edit!Doing
    BY ViewOf DEF Edit!Doing, Edit!Starter, Starter, PhaseOf
  <1> QED
    BY <1>1, ReadyAssumption

\* What a step on one video's row does to the view.
LEMMA ViewStep ==
    ASSUME TypeOK, NEW v \in Video, NEW r, SetRow(v, r)
    PROVE  doing' = [doing EXCEPT ![v] = View(r)] /\ doing[v] = View(row[v])
  <1>1. row \in [Video -> Row] /\ row' = [row EXCEPT ![v] = r]
    BY DEF TypeOK, SetRow, Row
  <1> QED
    BY <1>1 DEF doing

\* A video whose row comes to read as free.
LEMMA FreeStep ==
    ASSUME TypeOK, NEW v \in Video, NEW r, SetRow(v, r), View(r) = Ready
    PROVE  Edit!Next
  <1>1. doing' = [u \in Video |-> IF u \in {v} THEN Ready ELSE doing[u]]
    BY ViewStep DEF doing
  <1>2. {v} \in SUBSET Video
    OBVIOUS
  <1> QED
    BY <1>1, <1>2 DEF Edit!Next, Edit!End

\* A lock in force that its holder hands on shifts from the phase of the one to that of the other.
LEMMA HandView ==
    ASSUME IInv, NEW v \in Video, NEW old \in Holder, NEW new \in Holder,
           Held(row[v], old), InForce(row[v]), SetRow(v, Handed(row[v], old, new))
    PROVE  /\ doing[v] # Ready /\ doing[v].phase = PhaseOf(old.kind) /\ doing[v].id = old.id
           /\ doing' = [doing EXCEPT ![v] = [phase |-> PhaseOf(new.kind), id |-> new.id, by |-> doing[v].by]]
  <1> DEFINE r == Handed(row[v], old, new)
  <1>1. row[v] \in Row /\ TypeOK
    BY VideoFacts DEF IInv
  <1>2. r \in Row /\ Held(r, new) /\ r.left > 0 /\ r.by = row[v].by
    BY <1>1, HandedIsRow
  <1>3. InForce(r) /\ r.holder = new /\ row[v].holder = old
    BY <1>2 DEF InForce, Held
  <1>4. doing' = [doing EXCEPT ![v] = View(r)] /\ doing[v] = View(row[v])
    BY <1>1, ViewStep
  <1> HIDE DEF r
  <1>5. View(r) = [phase |-> PhaseOf(new.kind), id |-> new.id, by |-> row[v].by]
    BY <1>2, <1>3, ViewOf
  <1>6. View(row[v]).phase = PhaseOf(old.kind) /\ View(row[v]).id = old.id /\ View(row[v]).by = row[v].by
    BY <1>1, <1>3, ViewOf
  <1>7. View(row[v]) # Ready
    BY <1>1, ViewNotReady
  <1> QED
    BY <1>4, <1>5, <1>6, <1>7

\* Every thread's step is a step of OneEdit or leaves what the videos are doing alone.
LEMMA ThreadStepEdits ==
    ASSUME IInv, NEW v \in Video, ThreadStep(v)
    PROVE  [Edit!Next]_doing
  <1>c. \A h \in working[v] : h.kind # "gate" /\ Held(row[v], h) /\ InForce(row[v])
    BY VideoFacts DEF InForce, Held
  <1>k. \A w \in Work : \A kind \in {"req", "turn", "job", "gate", "pause"} :
            By(kind, w) \in Holder /\ By(kind, w).kind = kind /\ By(kind, w).id = w
    BY ByIsHolder DEF Kinds
  <1>t. TypeOK /\ row[v] \in Row
    BY VideoFacts DEF IInv
  <1>s. \A from, to : Edit!Shift(v, from, to)
            /\ <<from, to>> \in {<<"working", "paused">>, <<"working", "waiting">>, <<"paused", "working">>}
            => Edit!Next
    BY DEF Edit!Next, Edit!Change
  <1>1. ASSUME NEW w \in Work, NEW kind \in {"turn", "job"}, NEW new \in Work, PassOn(v, w, kind, new)
        PROVE  Edit!Next
    <2>1. Held(row[v], By("req", w)) /\ InForce(row[v]) /\ SetRow(v, Handed(row[v], By("req", w), By(kind, new)))
      BY <1>1, <1>c DEF PassOn
    <2>2. /\ doing[v] # Ready /\ doing[v].phase = PhaseOf("req")
          /\ doing' = [doing EXCEPT ![v] = [phase |-> PhaseOf(kind), id |-> new, by |-> doing[v].by]]
      BY <1>k, <2>1, HandView
    <2>3. PhaseOf("req") = "working" /\ PhaseOf(kind) = "working"
      BY DEF PhaseOf
    <2>4. Edit!GoOn(v, new)
      BY <2>2, <2>3 DEF Edit!GoOn
    <2> QED
      BY <2>4 DEF Edit!Next, Edit!Change
  <1>2. ASSUME NEW w \in Work, Hold(v, w) PROVE Edit!Next
    <2>1. Held(row[v], By("turn", w)) /\ InForce(row[v]) /\ SetRow(v, Handed(row[v], By("turn", w), By("pause", w)))
      BY <1>2, <1>c DEF Hold
    <2>2. /\ doing[v] # Ready /\ doing[v].phase = PhaseOf("turn") /\ doing[v].id = w
          /\ doing' = [doing EXCEPT ![v] = [phase |-> PhaseOf("pause"), id |-> w, by |-> doing[v].by]]
      BY <1>k, <2>1, HandView
    <2>3. PhaseOf("turn") = "working" /\ PhaseOf("pause") = "paused"
      BY DEF PhaseOf
    <2>4. Edit!Shift(v, "working", "paused")
      BY <2>2, <2>3 DEF Edit!Shift
    <2> QED
      BY <2>4, <1>s
  <1>3. ASSUME NEW w \in Work, CarryOn(v, w) PROVE Edit!Next
    <2>1. Held(row[v], By("pause", w)) /\ InForce(row[v]) /\ SetRow(v, Handed(row[v], By("pause", w), By("turn", w)))
      BY <1>3, <1>c DEF CarryOn
    <2>2. /\ doing[v] # Ready /\ doing[v].phase = PhaseOf("pause") /\ doing[v].id = w
          /\ doing' = [doing EXCEPT ![v] = [phase |-> PhaseOf("turn"), id |-> w, by |-> doing[v].by]]
      BY <1>k, <2>1, HandView
    <2>3. PhaseOf("turn") = "working" /\ PhaseOf("pause") = "paused"
      BY DEF PhaseOf
    <2>4. Edit!Shift(v, "paused", "working")
      BY <2>2, <2>3 DEF Edit!Shift
    <2> QED
      BY <2>4, <1>s
  <1>4. ASSUME NEW w \in Work, AskForGo(v, w) PROVE Edit!Next
    <2>1. Held(row[v], By("turn", w)) /\ InForce(row[v]) /\ SetRow(v, Handed(row[v], By("turn", w), By("gate", w)))
      BY <1>4, <1>c DEF AskForGo
    <2>2. /\ doing[v] # Ready /\ doing[v].phase = PhaseOf("turn") /\ doing[v].id = w
          /\ doing' = [doing EXCEPT ![v] = [phase |-> PhaseOf("gate"), id |-> w, by |-> doing[v].by]]
      BY <1>k, <2>1, HandView
    <2>3. PhaseOf("turn") = "working" /\ PhaseOf("gate") = "waiting"
      BY DEF PhaseOf
    <2>4. Edit!Shift(v, "working", "waiting")
      BY <2>2, <2>3 DEF Edit!Shift
    <2> QED
      BY <2>4, <1>s
  <1>5. ASSUME NEW w \in Work, ResumeLeft(v, w) PROVE Edit!Next
    <2> DEFINE r == Handed(row[v], By("pause", w), By("turn", w))
    <2>1. Held(row[v], By("pause", w)) /\ SetRow(v, r)
      BY <1>5 DEF ResumeLeft, Held
    <2>2. PhaseOf("turn") = "working" /\ PhaseOf("pause") = "paused"
      BY DEF PhaseOf
    <2>3. CASE InForce(row[v])
      <3>1. /\ doing[v] # Ready /\ doing[v].phase = PhaseOf("pause") /\ doing[v].id = w
            /\ doing' = [doing EXCEPT ![v] = [phase |-> PhaseOf("turn"), id |-> w, by |-> doing[v].by]]
        BY <1>k, <2>1, <2>3, HandView
      <3>2. Edit!Shift(v, "paused", "working")
        BY <3>1, <2>2 DEF Edit!Shift
      <3> QED
        BY <3>2, <1>s
    <2>4. CASE ~InForce(row[v])
      <3>1. r \in Row /\ Held(r, By("turn", w)) /\ r.left > 0
        BY <1>k, <1>t, <2>1, HandedIsRow
      <3> HIDE DEF r
      <3>2. InForce(r) /\ r.holder.kind = "turn" /\ r.holder.id = w
        BY <1>k, <3>1 DEF InForce, Held
      <3>3. View(r) = [phase |-> "working", id |-> w, by |-> r.by] /\ r.by \in Starter
        BY <2>2, <3>1, <3>2, ViewOf
      <3>4. doing[v] = Ready /\ doing' = [doing EXCEPT ![v] = View(r)]
        BY <1>t, <2>1, <2>4, ViewStep, ViewOf
      <3>5. Edit!Start(v, w, r.by) /\ r.by \in Edit!Starter
        BY <3>3, <3>4 DEF Edit!Start, Edit!Starter, Starter
      <3> QED
        BY <3>5 DEF Edit!Next, Edit!Change
    <2> QED
      BY <2>3, <2>4
  <1>6. ASSUME NEW h \in Holder, LetGo(v, h) PROVE Edit!Next
    <2>1. Released(row[v], h) = Ready /\ SetRow(v, Released(row[v], h))
      BY <1>6, <1>c DEF LetGo, Released
    <2> QED
      BY <1>t, <2>1, FreeStep DEF View, InForce
  <1>7. ASSUME NEW h \in Holder, Die(v, h) PROVE doing' = doing
    BY <1>7 DEF Die, doing
  <1>8. ASSUME NEW h \in Holder, RenewOne(v, h) PROVE doing' = doing
    <2> DEFINE r == IF h \in working[v] THEN Renewed(row[v], h) ELSE row[v]
    <2>1. View(r) = View(row[v])
      <3>1. CASE h \in working[v]
        <4>1. Held(row[v], h) /\ InForce(row[v])
          BY <3>1, <1>c
        <4>2. r = [holder |-> row[v].holder, by |-> row[v].by, left |-> Lease] /\ r \in Row
          BY <1>t, <3>1, <4>1, RenewedIsRow
        <4>3. row[v] \in Lock
          BY <1>t, <4>1 DEF Held, Row
        <4>4. r \in Lock /\ r.left > 0 /\ r.holder = row[v].holder /\ r.by = row[v].by
          BY <4>2, <4>3, LeaseAssumption DEF Lock
        <4>5. InForce(r)
          BY <4>4, LeaseAssumption DEF InForce
        <4> HIDE DEF r
        <4> QED
          BY <4>1, <4>4, <4>5 DEF View
      <3>2. CASE h \notin working[v]
        BY <3>2
      <3> QED
        BY <3>1, <3>2
    <2>2. SetRow(v, r)
      BY <1>8 DEF RenewOne
    <2> HIDE DEF r
    <2>3. doing' = [doing EXCEPT ![v] = doing[v]]
      BY <1>t, <2>1, <2>2, ViewStep
    <2> QED
      BY <2>3 DEF doing
  <1>9. ASSUME NEW w \in Work, NEW p \in Starter, NEW overGate \in BOOLEAN, Take(v, w, p, overGate)
        PROVE  Edit!Next
    <2> DEFINE h == By("req", w)
               r == Taken(h, p)
    <2>1. h \in Holder /\ h.kind = "req" /\ h.id = w
      BY <1>k
    <2>2. r \in Lock /\ r.left > 0 /\ r.holder = h /\ r.by = p
      BY <2>1, TakenIsLock
    <2>3. SetRow(v, r) /\ MayTake(row[v], h, p, overGate)
      BY <1>9 DEF Take
    <2>4. row[v] # Ready => row[v].holder.id # w
      BY <1>9 DEF Take, Unused
    <2> HIDE DEF h, r
    <2>5. InForce(r) /\ r \in Row
      BY <2>2, LeaseAssumption DEF InForce, Row
    <2>6. View(r) = [phase |-> "working", id |-> w, by |-> p]
      BY <2>1, <2>2, <2>5, ViewOf DEF PhaseOf
    <2>7. doing[v] = View(row[v]) /\ doing' = [doing EXCEPT ![v] = View(r)]
      BY <1>t, <2>3, ViewStep
    <2>8. CASE ~InForce(row[v])
      <3>1. Edit!Start(v, w, p) /\ p \in Edit!Starter
        BY <1>t, <2>6, <2>7, <2>8, ViewOf DEF Edit!Start, Edit!Starter, Starter
      <3> QED
        BY <3>1 DEF Edit!Next, Edit!Change
    <2>9. CASE InForce(row[v])
      <3>1. IsGate(row[v]) /\ row[v].by \in {Nobody, p}
        BY <2>1, <2>3, <2>4, <2>9 DEF MayTake, Held, OverGate
      <3>2. View(row[v]).phase = "waiting" /\ View(row[v]).by = row[v].by /\ View(row[v]) # Ready
        BY <1>t, <2>9, <3>1, ViewOf, ViewNotReady DEF IsGate, PhaseOf
      <3>3. Edit!Answer(v, w, p) /\ p \in Edit!Starter
        BY <2>6, <2>7, <3>1, <3>2 DEF Edit!Answer, Edit!Starter, Starter
      <3> QED
        BY <3>3 DEF Edit!Next, Edit!Change
    <2> QED
      BY <2>8, <2>9
  <1>10. ASSUME DropWaiting(v) PROVE Edit!Next
    <2>1. Released(row[v], row[v].holder) = Ready /\ SetRow(v, Released(row[v], row[v].holder))
      BY <1>10 DEF DropWaiting, Released, Held, IsGate, IsPaused
    <2> QED
      BY <1>t, <2>1, FreeStep DEF View, InForce
  <1> QED
    BY <1>1, <1>2, <1>3, <1>4, <1>5, <1>6, <1>7, <1>8, <1>9, <1>10 DEF ThreadStep

\* A step that only lets some rows read as free.
LEMMA SomeFree ==
    ASSUME \A v \in Video : View(row'[v]) \in {View(row[v]), Ready}
    PROVE  Edit!Next
  <1> DEFINE S == {v \in Video : View(row'[v]) = Ready}
  <1>1. doing' = [v \in Video |-> IF v \in S THEN Ready ELSE doing[v]]
    BY DEF doing
  <1>2. S \in SUBSET Video
    OBVIOUS
  <1> HIDE DEF S
  <1> QED
    BY <1>1, <1>2 DEF Edit!Next, Edit!End

\* The lock table implements OneEdit for any videos, ids, people and leases.
THEOREM ImplementsOneEdit == RenewalsKeepUp => (Spec => EditSpec)
  <1> SUFFICES ASSUME RenewalsKeepUp PROVE Spec => EditSpec
    OBVIOUS
  <1>1. Init => Edit!Init
    BY DEF Init, Edit!Init, doing, View, InForce
  <1>2. IInv /\ [Next]_vars => IInv'
    BY NextIInv
  <1>3. ASSUME IInv, [Next]_vars PROVE [Edit!Next]_doing
    <2>r. \A v \in Video : row[v] \in Row
      BY VideoFacts, <1>3
    <2>1. ASSUME NEW v \in Video, ThreadStep(v) PROVE [Edit!Next]_doing
      BY <1>3, <2>1, ThreadStepEdits
    <2>2. CASE RenewScan
      BY <2>2 DEF RenewScan, doing
    <2>3. CASE Sweep
      BY <2>3, SomeFree DEF Sweep, Swept, View, InForce
    <2>4. CASE Crash
      BY <2>4 DEF Crash, doing
    <2>5. CASE Restart
      BY <2>5, SomeFree DEF Restart, Kept, View, InForce
    <2>6. CASE Tick
      <3>1. ASSUME NEW v \in Video PROVE View(row'[v]) \in {View(row[v]), Ready}
        <4>1. CASE InForce(row[v])
          <5>1. row[v] \in Lock
            BY <2>r, <4>1 DEF InForce, Row
          <5>2. row'[v] = [holder |-> row[v].holder, by |-> row[v].by, left |-> row[v].left - 1]
            BY <2>6, <4>1, <5>1 DEF Tick, Lock
          <5> QED
            BY <4>1, <5>2 DEF View, InForce
        <4>2. CASE ~InForce(row[v])
          BY <2>6, <4>2 DEF Tick
        <4> QED
          BY <4>1, <4>2
      <3> QED
        BY <3>1, SomeFree
    <2>7. CASE UNCHANGED vars
      BY <2>7 DEF vars, doing
    <2> QED
      BY <1>3, <2>1, <2>2, <2>3, <2>4, <2>5, <2>6, <2>7 DEF Next
  <1> QED
    BY InitIInv, <1>1, <1>2, <1>3, PTL DEF Spec, EditSpec, Edit!Spec
------------------------------------------------------------------------------
(* AddLanding: the lock of a request and of a job. *)

Asking == {"took", "changed", "landing", "handing"}

\* A server that is down has nothing under way.
Quiet == ~serving => Stopping = {} /\ \A c \in Change : req[c].pc \in {"new", "over"}

\* A request that is at work has the lock as a request; only another change than an Add hands it to a
\* job that was on its way, and that is a preview's.
Requests ==
    \A c \in Change :
        /\ req[c].pc \in Asking => Holds(lock, "req", c)
        /\ req[c].pc = "changed" => c \in Add
        /\ req[c].pc \in {"landing", "handing"} => c \notin Add
        /\ req[c].pc = "handing" => req[c].to \in Preview

\* The job of a change is under way exactly while it has the lock, which can be stopped if it is an Add's.
Holders ==
    /\ \A c \in Change : job[c].status \in Active <=> Holds(lock, "job", c)
    /\ lock # Free => (lock.stoppable <=> lock.id \in Add)
    /\ lock # Free /\ lock.kind = "req" => lock.id \in Change

\* A Stop goes on to put back and to end only what it read, and that was the job of an Add.
Routes ==
    \A s \in Stopper :
        /\ stop[s].lock # Free => stop[s].lock.kind = "job" /\ stop[s].lock.id \in Add
        /\ stop[s].pc \in {"restore", "end"} => stop[s].lock # Free

\* The types of TypeOK, by name.
ReqPlaces == {"new", "took", "changed", "landing", "handing", "ending", "over"}
ReqType == [Change -> [pc : ReqPlaces, to : Job \cup {Free}]]

JobType == [Job -> [status : {"none"} \cup Active \cup Over, of : SUBSET Change, hash : BOOLEAN]]

\* Who has the lock, whether or not Stops are prompt.
LockInv == LandingTypeOK /\ Quiet /\ Requests /\ Holders /\ Routes

\* The changes and the previews are the jobs, and apart.
LEMMA Names == 
    /\ Add \subseteq Change /\ Change \subseteq Job /\ Preview \subseteq Job
    /\ Change \cap Preview = {} /\ Job = Change \cup Preview
  BY LandingAssumption DEF Job

LEMMA ReqTyped ==
    ASSUME LandingTypeOK, NEW c \in Change, NEW pc \in ReqPlaces, NEW to \in Job
    PROVE  [req EXCEPT ![c].pc = pc] \in ReqType /\ [req EXCEPT ![c] = [pc |-> pc, to |-> to]] \in ReqType
  BY DEF LandingTypeOK, ReqType, ReqPlaces

LEMMA InitLocks == LandingInit => LockInv
  BY Names, LandingAssumption DEF LandingInit, LockInv, LandingTypeOK, Quiet, Requests, Holders, Routes, Stopping, NoWork, NoStop, Active, Over, Asking, Holds

LEMMA TakeLocks == ASSUME LockInv, NEW c \in Change, TakeLock(c) PROVE LockInv'
  <1>1. lock' \in LockRow /\ lock' # Free /\ lock'.kind = "req" /\ lock'.id = c /\ lock'.stoppable = (c \in Add)
    <2>1. lock' = [kind |-> "req", id |-> c, shot |-> NoShot, stoppable |-> c \in Add]
      BY DEF TakeLock
    <2>2. c \in Job /\ NoShot \in Shot /\ (c \in Add) \in BOOLEAN
      BY Names DEF Shot, NoShot
    <2>3. lock' \in LockRow
      BY <2>1, <2>2 DEF LockRow
    <2> QED
      BY <2>1, <2>3, FreeAssumption
  <1> USE Names DEF TakeLock, LockInv, At, Req, May, video, route, machine
  <1>2. LandingTypeOK'
    BY <1>1 DEF LandingTypeOK
  <1>3. Requests'
    BY <1>1 DEF Requests, LandingTypeOK, Holds, Asking
  <1>4. Holders'
    BY <1>1 DEF Holders, LandingTypeOK, Holds
  <1>5. Quiet' /\ Routes'
    BY DEF Quiet, Routes, Stopping
  <1> QED
    BY <1>2, <1>3, <1>4, <1>5

LEMMA ApproveLocks == ASSUME LockInv, NEW c \in Change, Approve(c) PROVE LockInv'
  <1>1. lock # Free /\ lock \in LockRow /\ lock.kind = "req" /\ lock.id = c
    BY DEF Approve, At, LockInv, Requests, Holds, LandingTypeOK, Asking
  <1>2. lock' \in LockRow /\ lock' # Free /\ lock'.kind = "req" /\ lock'.id = c /\ lock'.stoppable = lock.stoppable
    BY <1>1, FreeAssumption DEF Approve, LockInv, LandingTypeOK, LockRow, Shot
  <1> USE Names DEF Approve, PutIn, LockInv, At, Req, May, video, route, machine
  <1>3. LandingTypeOK'
    <2>1. rows' \in SUBSET Change /\ edits' \in SUBSET rows' /\ meant' \in SUBSET Change
      BY DEF LandingTypeOK
    <2>2. UNCHANGED <<job, worker, made, stop, stops, serving, crashes>>
      OBVIOUS
    <2>3. req' \in ReqType
      BY ReqTyped DEF ReqPlaces
    <2> QED
      BY <1>2, <2>1, <2>2, <2>3 DEF LandingTypeOK, ReqType, ReqPlaces
  <1>4. Requests'
    BY <1>1, <1>2 DEF Requests, LandingTypeOK, Holds, Asking
  <1>5. Holders'
    BY <1>1, <1>2 DEF Holders, LandingTypeOK, Holds
  <1>6. Quiet' /\ Routes'
    BY DEF Quiet, Routes, Stopping
  <1> QED
    BY <1>3, <1>4, <1>5, <1>6

\* What making a job does, for an Add and for another change.
LEMMA MakeJobLocks ==
    ASSUME LockInv, NEW c \in Change, NEW hash \in BOOLEAN, At(c, "changed") \/ At(c, "landing"), MakeJob(c, hash),
           UNCHANGED <<video, made, route, machine>>
    PROVE  LockInv'
  <1>1. lock # Free /\ lock \in LockRow /\ lock.kind = "req" /\ lock.id = c
    BY DEF At, LockInv, Requests, Holds, LandingTypeOK, Asking
  <1>2. lock' \in LockRow /\ lock' # Free /\ lock'.kind = "job" /\ lock'.id = c /\ lock'.stoppable = lock.stoppable
    BY <1>1, FreeAssumption DEF MakeJob, LockRow, Shot
  <1> USE Names DEF LockInv, MakeJob, At, May, video, route, machine
  <1>3. LandingTypeOK'
    BY <1>2 DEF LandingTypeOK, Active
  <1>4. Requests'
    BY <1>1, <1>2 DEF Requests, LandingTypeOK, Holds, Asking
  <1>5. Holders'
    BY <1>1, <1>2 DEF Holders, LandingTypeOK, Holds, Active
  <1>6. Quiet' /\ Routes'
    BY DEF Quiet, Routes, Stopping
  <1> QED
    BY <1>3, <1>4, <1>5, <1>6

LEMMA AlterLocks == ASSUME LockInv, NEW c \in Change, Alter(c) PROVE LockInv'
  <1> USE Names DEF Alter, PutIn, TakeOut, LockInv, At, Req, May, video, route, machine
  <1>1. LandingTypeOK'
    <2>1. rows' \in SUBSET Change /\ edits' \in SUBSET rows' /\ meant' \in SUBSET Change
      BY DEF LandingTypeOK
    <2>2. UNCHANGED <<lock, job, worker, made, stop, stops, serving, crashes>>
      OBVIOUS
    <2>3. req' \in ReqType
      BY ReqTyped DEF ReqPlaces
    <2> QED
      BY <2>1, <2>2, <2>3 DEF LandingTypeOK, ReqType, ReqPlaces
  <1>2. Requests'
    BY DEF Requests, LandingTypeOK, Holds, Asking
  <1>3. Holders' /\ Quiet' /\ Routes'
    BY DEF Quiet, Routes, Stopping, Holders, Holds
  <1> QED
    BY <1>1, <1>2, <1>3

\* The render a change finds on its way is a preview's: a change's own would have the lock.
LEMMA LandLocks == ASSUME LockInv, NEW c \in Change, Land(c) PROVE LockInv'
  <1> DEFINE onItsWay == {j \in Job : job[j].status \in Active /\ job[j].hash /\ job[j].of = edits}
  <1>1. At(c, "landing") /\ UNCHANGED <<video, made, route, machine>>
    BY DEF Land
  <1>2. CASE MakeJob(c, TRUE)
    BY <1>1, <1>2, MakeJobLocks
  <1>3. CASE /\ UNCHANGED <<lock, job, worker>>
             /\ Req(c, "ending") \/ \E j \in onItsWay : req' = [req EXCEPT ![c] = [pc |-> "handing", to |-> j]]
    <2>1. onItsWay \subseteq Preview
      BY <1>1, Names DEF At, LockInv, Requests, Asking, Holders, Holds
    <2> HIDE DEF onItsWay
    <2> USE Names, <1>1, <1>3, <2>1 DEF LockInv, At, Req, May, video, route, machine
    <2>2. LandingTypeOK'
      <3>1. UNCHANGED <<lock, edits, rows, meant, job, worker, made, stop, stops, serving, crashes>>
        OBVIOUS
      <3>2. ASSUME NEW j \in onItsWay, req' = [req EXCEPT ![c] = [pc |-> "handing", to |-> j]]
            PROVE  req' \in ReqType
        BY <3>2, ReqTyped DEF ReqPlaces
      <3>3. req' \in ReqType
        BY <3>2, ReqTyped DEF ReqPlaces
      <3> QED
        BY <3>1, <3>3 DEF LandingTypeOK, ReqType, ReqPlaces
    <2>3. Requests'
      BY DEF Requests, LandingTypeOK, Holds, Asking
    <2>4. Holders' /\ Quiet' /\ Routes'
      BY DEF Quiet, Routes, Stopping, Holders, Holds
    <2> QED
      BY <2>2, <2>3, <2>4
  <1> QED
    BY <1>2, <1>3 DEF Land

LEMMA HandOverLocks == ASSUME LockInv, NEW c \in Change, HandOver(c) PROVE LockInv'
  <1>1. lock # Free /\ lock \in LockRow /\ lock.kind = "req" /\ lock.id = c /\ c \notin Add /\ req[c].to \in Preview
    BY DEF HandOver, At, LockInv, Requests, Holds, LandingTypeOK, Asking
  <1>2. lock' \in LockRow /\ lock' # Free /\ lock'.kind = "job" /\ lock'.id = req[c].to /\ lock'.stoppable = lock.stoppable
    BY <1>1, FreeAssumption, Names DEF HandOver, LockRow, Shot
  <1> USE Names DEF HandOver, LockInv, At, Req, May, video, route, machine
  <1>3. LandingTypeOK'
    <2>1. UNCHANGED <<edits, rows, meant, job, worker, made, stop, stops, serving, crashes>>
      OBVIOUS
    <2>2. req' \in ReqType
      BY ReqTyped DEF ReqPlaces
    <2> QED
      BY <1>2, <2>1, <2>2 DEF LandingTypeOK, ReqType, ReqPlaces
  <1>4. Requests'
    BY <1>1, <1>2 DEF Requests, LandingTypeOK, Holds, Asking
  <1>5. Holders'
    BY <1>1, <1>2 DEF Holders, LandingTypeOK, Holds
  <1>6. Quiet' /\ Routes'
    BY DEF Quiet, Routes, Stopping
  <1> QED
    BY <1>3, <1>4, <1>5, <1>6

LEMMA EndRequestLocks == ASSUME LockInv, NEW c \in Change, EndRequest(c) PROVE LockInv'
  <1> USE Names DEF EndRequest, LockInv, At, Req, May, video, route, machine
  <1>1. lock' = lock \/ (lock' = Free /\ Holds(lock, "req", c))
        \/ (lock' = Free /\ Holds(lock, "job", req[c].to) /\ job[req[c].to].status \in Over)
    BY DEF LockWithout
  <1>2. LandingTypeOK'
    BY <1>1 DEF LandingTypeOK
  <1>3. Requests'
    BY <1>1 DEF Requests, LandingTypeOK, Holds, Asking
  <1>4. Holders'
    BY <1>1 DEF Holders, LandingTypeOK, Holds, Active, Over
  <1>5. Quiet' /\ Routes'
    BY DEF Quiet, Routes, Stopping, LandingTypeOK
  <1> QED
    BY <1>2, <1>3, <1>4, <1>5

\* A job that ends and lets go of its lock.
LEMMA EndingLocks ==
    ASSUME LockInv, NEW j \in Job, NEW st \in Over, job' = Ended(job, j, st),
           lock' = EndsLock(j) \/ (lock' = LockWithout("job", j) /\ j \in Change), UNCHANGED <<req, serving>>
    PROVE  /\ lock' = lock \/ (lock' = Free /\ Holds(lock, "job", j))
           /\ job' \in JobType
           /\ Requests' /\ Holders'
  <1>1. lock' = lock \/ (lock' = Free /\ Holds(lock, "job", j))
    BY DEF EndsLock, LockWithout
  <1>2. job' \in JobType
    BY DEF Ended, LockInv, LandingTypeOK, JobType
  <1>3. Requests'
    BY <1>1 DEF Requests, Holds, LockInv, Asking
  <1>4. \A k \in Job : job'[k].status = IF k = j /\ job[k].status \in Active THEN st ELSE job[k].status
    BY DEF Ended, LockInv, LandingTypeOK
  <1>5. job[j].status \in Active /\ j \in Change => lock' = Free
    BY DEF EndsLock, LockWithout, LockInv, Holders
  <1>6. job[j].status \notin Active /\ j \in Change => lock' = lock
    BY DEF EndsLock, LockWithout, LockInv, Holders
  <1>7. \A c \in Change : job'[c].status \in Active <=> Holds(lock', "job", c)
    BY <1>1, <1>4, <1>5, <1>6, Names DEF LockInv, Holders, Holds, Active, Over
  <1>8. Holders'
    BY <1>1, <1>7 DEF LockInv, Holders, Holds
  <1> QED
    BY <1>1, <1>2, <1>3, <1>8

\* The steps of a request that leave the stops and the machine alone.
LEMMA RequestLocks == ASSUME LockInv, NEW c \in Change, TakeLock(c) \/ RequestStep(c) PROVE LockInv'
  <1>1. ASSUME Ship(c) PROVE LockInv'
    BY <1>1, MakeJobLocks DEF Ship
  <1> QED
    BY <1>1, TakeLocks, ApproveLocks, AlterLocks, LandLocks, HandOverLocks, EndRequestLocks DEF RequestStep

LEMMA AskPreviewLocks == ASSUME LockInv, NEW p \in Preview, AskPreview(p) PROVE LockInv'
  <1> USE Names DEF AskPreview, LockInv, WorkGoes, May, video, route, machine
  <1>1. LandingTypeOK'
    BY DEF LandingTypeOK, JobType, Active
  <1>2. \A c \in Change : job'[c] = job[c]
    BY DEF LandingTypeOK, JobType
  <1>3. Requests' /\ Holders' /\ Quiet' /\ Routes'
    BY <1>2 DEF Requests, Holders, Quiet, Routes, Stopping, Holds
  <1> QED
    BY <1>1, <1>3

WorkType == [Job -> [pc : {"none", "due", "waits", "rendering", "made", "lands", "ends"}, of : SUBSET Change]]

LEMMA RunningTyped == ASSUME LandingTypeOK, NEW j \in Job PROVE [job EXCEPT ![j].status = "running"] \in JobType
  <1> DEFINE S == {"none"} \cup Active \cup Over
  <1>1. job \in [Job -> [status : S, of : SUBSET Change, hash : BOOLEAN]] /\ "running" \in S
    BY DEF LandingTypeOK, JobType, Active
  <1> HIDE DEF S
  <1>2. [job EXCEPT ![j].status = "running"] \in [Job -> [status : S, of : SUBSET Change, hash : BOOLEAN]]
    BY <1>1
  <1> QED
    BY <1>2 DEF S, JobType

\* A step of a worker that ends no job.
LEMMA WorkOnLocks ==
    ASSUME LockInv, worker' \in WorkType, made' \in SUBSET SUBSET Change, UNCHANGED <<lock, video, req, route, machine>>,
           job' = job \/ \E j \in Job : job[j].status = "queued" /\ job' = [job EXCEPT ![j].status = "running"]
    PROVE  LockInv'
  <1> USE DEF LockInv, video, route, machine
  <1>1. job' \in JobType
    <2>1. ASSUME NEW j \in Job, job' = [job EXCEPT ![j].status = "running"]
          PROVE  job' \in JobType
      BY <2>1, RunningTyped
    <2>2. CASE job' = job
      BY <2>2 DEF LandingTypeOK, JobType
    <2> QED
      BY <2>1, <2>2
  <1>2. LandingTypeOK'
    BY <1>1 DEF LandingTypeOK, JobType, WorkType
  <1>3. \A c \in Change : job'[c].status \in Active <=> job[c].status \in Active
    BY Names DEF LandingTypeOK, JobType, Active
  <1>4. Holders'
    BY <1>3 DEF Holders, Holds
  <1>5. Requests' /\ Quiet' /\ Routes'
    BY DEF Requests, Quiet, Routes, Stopping, Holds
  <1> QED
    BY <1>2, <1>4, <1>5

\* A step of a worker in which its job ends.
LEMMA WorkEndLocks ==
    ASSUME LockInv, NEW j \in Job, NEW st \in Over, job' = Ended(job, j, st), lock' = EndsLock(j),
           worker' = [worker EXCEPT ![j] = NoWork], UNCHANGED <<video, req, made, route, machine>>
    PROVE  LockInv'
  <1> USE DEF LockInv, video, route, machine
  <1>1. /\ lock' \in LockRow \cup {Free} /\ Requests' /\ Holders'
        /\ job' \in JobType
    BY EndingLocks DEF LandingTypeOK, JobType
  <1>2. worker' \in WorkType
    BY DEF LandingTypeOK, JobType, WorkType, NoWork
  <1>3. LandingTypeOK'
    BY <1>1, <1>2 DEF LandingTypeOK, JobType, WorkType
  <1>4. Quiet' /\ Routes'
    BY DEF Quiet, Routes, Stopping
  <1> QED
    BY <1>1, <1>3, <1>4

LEMMA WorkerLocks == ASSUME LockInv, NEW j \in Job, WorkerStep(j) PROVE LockInv'
  <1>1. \A pc \in {"none", "due", "waits", "rendering", "made", "lands", "ends"}, of \in SUBSET Change :
          /\ [worker EXCEPT ![j].pc = pc] \in WorkType
          /\ [worker EXCEPT ![j] = [pc |-> pc, of |-> of]] \in WorkType
    BY DEF LockInv, LandingTypeOK, WorkType
  <1>2. edits \in SUBSET Change /\ made \in SUBSET SUBSET Change /\ worker \in WorkType
    BY DEF LockInv, LandingTypeOK, WorkType
  <1>3. NoWork = [pc |-> "none", of |-> {}] /\ [worker EXCEPT ![j] = NoWork] \in WorkType
    BY <1>1 DEF NoWork
  <1>4. "done" \in Over /\ "failed" \in Over
    BY DEF Over
  <1>5. ASSUME WorkReads(j) PROVE LockInv'
    <2>1. worker' \in WorkType
      BY <1>1, <1>2, <1>3, <1>5 DEF WorkReads
    <2> QED
      BY <1>2, <1>5, <2>1, WorkOnLocks DEF WorkReads
  <1>6. ASSUME WorkStarts(j) PROVE LockInv'
    <2>1. CASE worker[j].of \in made
      BY <1>4, <1>6, <2>1, WorkEndLocks DEF WorkStarts
    <2>2. CASE worker[j].of \notin made
      <3>1. worker' \in WorkType
        BY <1>1, <1>6, <2>2 DEF WorkStarts, WorkGoes
      <3> QED
        BY <1>2, <1>6, <2>2, <3>1, WorkOnLocks DEF WorkStarts
    <2> QED
      BY <2>1, <2>2
  <1>7. ASSUME WorkRenders(j) PROVE LockInv'
    <2>1. CASE WorkGoes(j, "made") /\ UNCHANGED <<lock, job>>
      <3>1. worker' \in WorkType
        BY <1>1, <2>1 DEF WorkGoes
      <3> QED
        BY <1>2, <1>7, <2>1, <3>1, WorkOnLocks DEF WorkRenders
    <2>2. CASE job' = Ended(job, j, "failed") /\ lock' = EndsLock(j) /\ worker' = [worker EXCEPT ![j] = NoWork]
      BY <1>4, <1>7, <2>2, WorkEndLocks DEF WorkRenders
    <2> QED
      BY <1>7, <2>1, <2>2 DEF WorkRenders
  <1>8. ASSUME WorkLooks(j) PROVE LockInv'
    <2>1. worker' = [worker EXCEPT ![j] = NoWork] \/ worker' = [worker EXCEPT ![j].pc = "lands"]
      BY <1>2, <1>8 DEF WorkLooks, WorkType
    <2> QED
      BY <1>1, <1>2, <1>3, <1>8, <2>1, WorkOnLocks DEF WorkLooks
  <1>9. ASSUME WorkLands(j) PROVE LockInv'
    <2>1. worker' \in WorkType
      BY <1>1, <1>9 DEF WorkLands, WorkGoes
    <2>2. worker[j].of \in SUBSET Change
      BY <1>2 DEF WorkType
    <2>3. made' \in SUBSET SUBSET Change
      BY <1>2, <1>9, <2>2 DEF WorkLands
    <2> QED
      BY <1>9, <2>1, <2>3, WorkOnLocks DEF WorkLands
  <1>10. ASSUME WorkEnds(j) PROVE LockInv'
    BY <1>4, <1>10, WorkEndLocks DEF WorkEnds
  <1> QED
    BY <1>5, <1>6, <1>7, <1>8, <1>9, <1>10 DEF WorkerStep

ClickType == [Stopper -> [pc : {"idle", "list", "cancel", "restore", "end"}, lock : LockRow \cup {Free}, queued : SUBSET Job]]

\* A step of a Stop, as far as the locks go.
LEMMA StopOnLocks ==
    ASSUME LockInv, serving, stop' \in ClickType, stops' \in 0..MaxStops, UNCHANGED <<req, worker, made, machine>>,
           \/ UNCHANGED <<lock, job>>
           \/ \E j \in Job : /\ job' = Ended(job, j, "cancelled")
                             /\ lock' = EndsLock(j) \/ (lock' = LockWithout("job", j) /\ j \in Change),
           rows' \in SUBSET Change, edits' \in SUBSET rows', meant' \in SUBSET Change, Routes'
    PROVE  LockInv'
  <1> USE DEF LockInv, machine
  <1>1. /\ lock' \in LockRow \cup {Free} /\ Requests' /\ Holders'
        /\ job' \in JobType
    <2>1. CASE UNCHANGED <<lock, job>>
      BY <2>1 DEF LandingTypeOK, JobType, Requests, Holders, Holds
    <2>2. CASE \E j \in Job : /\ job' = Ended(job, j, "cancelled")
                              /\ lock' = EndsLock(j) \/ (lock' = LockWithout("job", j) /\ j \in Change)
      <3>1. PICK j \in Job : /\ job' = Ended(job, j, "cancelled")
                             /\ lock' = EndsLock(j) \/ (lock' = LockWithout("job", j) /\ j \in Change)
        BY <2>2
      <3>2. "cancelled" \in Over
        BY DEF Over
      <3> QED
        BY <3>1, <3>2, EndingLocks DEF LandingTypeOK, JobType
    <2> QED
      BY <2>1, <2>2
  <1>2. LandingTypeOK'
    BY <1>1 DEF LandingTypeOK, JobType, ClickType
  <1>3. Quiet'
    BY DEF Quiet
  <1> QED
    BY <1>1, <1>2, <1>3

LEMMA CancelMeant == ASSUME LockInv, NEW j, Cancel(j) PROVE meant' \in SUBSET Change
  BY DEF Cancel, LockInv, LandingTypeOK

LEMMA StopLocks == ASSUME LockInv, NEW s \in Stopper, StopReads(s) \/ StopStep(s) PROVE LockInv'
  <1>1. /\ stop \in ClickType /\ stops \in 0..MaxStops /\ rows \in SUBSET Change /\ edits \in SUBSET rows
        /\ meant \in SUBSET Change /\ Routes /\ MaxStops \in Nat /\ lock \in LockRow \cup {Free}
    BY LandingAssumption DEF LockInv, LandingTypeOK, ClickType
  <1>2. NoStop \in [pc : {"idle", "list", "cancel", "restore", "end"}, lock : LockRow \cup {Free}, queued : SUBSET Job]
    BY DEF NoStop
  <1>3. ASSUME StopReads(s) PROVE LockInv'
    <2>1. stop' \in ClickType /\ stops' \in 0..MaxStops
      BY <1>1, <1>3 DEF StopReads, ClickType
    <2>2. lock # Free => lock.kind = "job" /\ lock.id \in Add
      BY <1>1, <1>3 DEF StopReads, LockInv, Holders, LockRow
    <2>3. Routes'
      BY <1>1, <1>3, <2>2 DEF StopReads, Routes, ClickType
    <2> QED
      BY <1>1, <1>3, <2>1, <2>3, StopOnLocks DEF StopReads, StopMay, video
  <1>4. ASSUME StopLists(s) PROVE LockInv'
    <2>1. stop' \in ClickType /\ Routes'
      BY <1>1, <1>4 DEF StopLists, ClickType, Routes
    <2> QED
      BY <1>1, <1>4, <2>1, StopOnLocks DEF StopLists, StopMay, video
  <1>5. ASSUME StopCancels(s) PROVE LockInv'
    <2>1. CASE \E j \in stop[s].queued : /\ Cancel(j) /\ lock' = EndsLock(j)
                                         /\ stop' = [stop EXCEPT ![s].queued = @ \ {j}]
      <3>1. PICK j \in stop[s].queued : /\ Cancel(j) /\ lock' = EndsLock(j)
                                        /\ stop' = [stop EXCEPT ![s].queued = @ \ {j}]
        BY <2>1
      <3>2. j \in Job
        BY <1>1, <3>1 DEF ClickType
      <3>3. stop' \in ClickType /\ Routes'
        BY <1>1, <3>1 DEF ClickType, Routes
      <3> QED
        BY <1>1, <1>5, <3>1, <3>2, <3>3, StopOnLocks, CancelMeant DEF StopCancels, StopMay, Cancel
    <2>2. CASE /\ stop' = [stop EXCEPT ![s] = IF @.lock = Free THEN NoStop ELSE [@ EXCEPT !.pc = "restore"]]
               /\ UNCHANGED <<job, lock, meant>>
      <3>1. stop' \in ClickType /\ Routes'
        <4>1. CASE stop[s].lock = Free
          <5>1. stop' = [stop EXCEPT ![s] = NoStop]
            BY <1>1, <2>2, <4>1 DEF ClickType
          <5> QED
            BY <1>1, <1>2, <5>1 DEF ClickType, Routes, NoStop
        <4>2. CASE stop[s].lock # Free
          <5>1. stop' = [stop EXCEPT ![s].pc = "restore"]
            BY <1>1, <2>2, <4>2 DEF ClickType
          <5> QED
            BY <1>1, <4>2, <5>1 DEF ClickType, Routes
        <4> QED
          BY <4>1, <4>2
      <3> QED
        BY <1>1, <1>5, <2>2, <3>1, StopOnLocks DEF StopCancels, StopMay
    <2> QED
      BY <1>5, <2>1, <2>2 DEF StopCancels
  <1>6. ASSUME StopRestores(s) PROVE LockInv'
    <2>1. stop' \in ClickType /\ Routes'
      BY <1>1, <1>6 DEF StopRestores, ClickType, Routes
    <2>2. rows' \in SUBSET Change /\ edits' \in SUBSET rows'
      BY <1>1, <1>6 DEF StopRestores
    <2> QED
      BY <1>1, <1>6, <2>1, <2>2, StopOnLocks DEF StopRestores, StopMay
  <1>7. ASSUME StopEnds(s) PROVE LockInv'
    <2>1. stop[s].lock.id \in Change /\ stop[s].lock.id \in Job
      BY <1>1, <1>7, Names DEF StopEnds, Routes
    <2>2. stop' \in ClickType /\ Routes'
      BY <1>1, <1>2, <1>7 DEF StopEnds, ClickType, Routes, NoStop
    <2> QED
      BY <1>1, <1>7, <2>1, <2>2, StopOnLocks, CancelMeant DEF StopEnds, StopMay, Cancel
  <1> QED
    BY <1>3, <1>4, <1>5, <1>6, <1>7 DEF StopStep

LEMMA CrashLocks == ASSUME LockInv, ServerDies PROVE LockInv'
  <1> USE DEF ServerDies, LockInv, May, video
  <1>1. req' \in ReqType
    BY DEF LandingTypeOK, ReqType, ReqPlaces
  <1>2. worker' \in WorkType
    BY DEF WorkType, NoWork
  <1>3. stop' \in ClickType
    BY DEF ClickType, NoStop
  <1>4. crashes' \in 0..MaxCrashes
    BY LandingAssumption DEF LandingTypeOK
  <1>5. LandingTypeOK'
    BY <1>1, <1>2, <1>3, <1>4 DEF LandingTypeOK, ReqType, ReqPlaces, WorkType, ClickType
  <1>6. Requests' /\ Holders'
    BY DEF LandingTypeOK, Requests, Holders, Holds, Asking
  <1>7. Quiet' /\ Routes'
    BY DEF LandingTypeOK, Quiet, Routes, Stopping, NoStop
  <1> QED
    BY <1>5, <1>6, <1>7

LEMMA RestartLocks == ASSUME LockInv, ServerReturns PROVE LockInv'
  <1> USE DEF ServerReturns, LockInv, video, route
  <1>1. job' \in JobType
    BY DEF LandingTypeOK, JobType, Active, Over
  <1>2. LandingTypeOK'
    BY <1>1 DEF LandingTypeOK, JobType
  <1>3. Requests'
    BY DEF Requests, Quiet, Asking
  <1>4. \A c \in Change : job'[c].status \notin Active
    BY Names DEF LandingTypeOK, Active
  <1>5. Holders'
    BY <1>4 DEF Holders, Holds
  <1>6. Quiet' /\ Routes'
    BY DEF Quiet, Routes
  <1> QED
    BY <1>2, <1>3, <1>5, <1>6

LEMMA StepLocks == ASSUME LockInv, [LandingNext]_landingVars PROVE LockInv'
  <1>1. CASE UNCHANGED landingVars
    BY <1>1 DEF landingVars, video, route, machine, LockInv, LandingTypeOK, Quiet, Requests, Holders, Routes, Stopping, Holds
  <1>2. CASE LandingNext
    BY <1>2, RequestLocks, AskPreviewLocks, WorkerLocks, StopLocks, CrashLocks, RestartLocks DEF LandingNext
  <1> QED
    BY <1>1, <1>2

LEMMA LocksHold == LandingSpec => []LockInv
  BY InitLocks, StepLocks, PTL DEF LandingSpec

\* The types of a landing, whatever the steps of its requests, workers and Stops fall between.
THEOREM LandingTypeCorrect == LandingSpec => []LandingTypeOK
  BY LocksHold, PTL DEF LockInv

------------------------------------------------------------------------------
(* Its render. *)

\* A worker at the end of its render has made it; the one whose job has the lock for a change renders
\* what is in the video, unless a Stop put a snapshot back under it.
Rendering == {"waits", "rendering", "made", "lands", "ends"}

\* A history of the renders under way, and no state of the program: those for which a Stop put a
\* snapshot back since they read what is in the video.
VARIABLE stale
PutsBack == \E s \in Stopper : stop[s].pc = "restore" /\ stop'[s].pc = "end"
GoesStale == stale' = {j \in Job : worker'[j].pc \in Rendering /\ (j \in stale \/ PutsBack)}
History == stale = {} /\ [][GoesStale]_<<landingVars, stale>>

RenderInv ==
    /\ \A j \in Job : worker[j].pc = "ends" => worker[j].of \in made
    /\ \A c \in Change : Holds(lock, "job", c) /\ worker[c].pc \in Rendering /\ c \notin stale => worker[c].of = edits

\* A step in which no Stop puts a snapshot back takes no render out of those gone stale but one that ends.
LEMMA StaysStale ==
    ASSUME GoesStale, NEW j \in Job, worker'[j].pc \in Rendering, j \notin stale'
    PROVE  j \notin stale /\ ~PutsBack
  BY DEF GoesStale

LEMMA InitRenders == LandingInit => RenderInv
  BY Names DEF LandingInit, RenderInv, NoWork, Rendering, Holds

LEMMA RequestRenders ==
    ASSUME LockInv, RenderInv, GoesStale, NEW c \in Change, TakeLock(c) \/ RequestStep(c)
    PROVE  RenderInv'
  <1>1. UNCHANGED made
    BY DEF TakeLock, RequestStep, Approve, Ship, Alter, Land, HandOver, EndRequest
  <1>2. req[c].pc \in Asking => lock # Free /\ lock \in LockRow /\ lock.kind = "req" /\ lock.id = c
    BY DEF LockInv, LandingTypeOK, Requests, Holds
  \* A change that gets the lock has a worker that has not read yet.
  <1>3. ASSUME MakeJob(c, TRUE) \/ MakeJob(c, FALSE), lock \in LockRow
        PROVE  lock'.id = lock.id /\ worker'[c].pc = "due" /\ \A j \in Job : j # c => worker'[j] = worker[j]
    BY <1>3, Names DEF MakeJob, LockInv, LandingTypeOK, LockRow
  <1>4. CASE Ship(c) \/ (Land(c) /\ (MakeJob(c, TRUE) \/ MakeJob(c, FALSE)))
    <2>1. lock.id = c /\ lock \in LockRow /\ (MakeJob(c, TRUE) \/ MakeJob(c, FALSE))
      BY <1>2, <1>4 DEF Ship, Land, At, Asking
    <2>2. lock'.id = c /\ worker'[c].pc = "due" /\ \A j \in Job : j # c => worker'[j] = worker[j]
      BY <1>3, <2>1
    <2> QED
      BY <1>1, <2>2, Names DEF RenderInv, Holds, Rendering
  <1>5. CASE TakeLock(c) \/ Approve(c) \/ Alter(c)
    <2>1. worker' = worker
      BY <1>5 DEF TakeLock, Approve, Alter
    <2>2. lock'.kind = "req"
      BY <1>2, <1>5 DEF TakeLock, Approve, Alter, At, Asking, LockRow
    <2> QED
      BY <1>1, <2>1, <2>2 DEF RenderInv, Holds
  <1>6. CASE HandOver(c)
    <2>1. lock'.id = req[c].to /\ UNCHANGED <<worker, edits>>
      BY <1>2, <1>6 DEF HandOver, At, Asking, LockRow, video
    <2>2. lock'.id \notin Change
      BY <1>6, <2>1, Names DEF HandOver, At, LockInv, Requests
    <2> QED
      BY <1>1, <2>1, <2>2 DEF RenderInv, Holds
  <1>7. CASE (Land(c) /\ ~MakeJob(c, TRUE)) \/ EndRequest(c)
    <2>1. (lock' = lock \/ lock' = Free) /\ UNCHANGED <<worker, edits>>
      BY <1>7 DEF Land, EndRequest, LockWithout, video
    <2> QED
      BY <1>1, <2>1, StaysStale, Names DEF RenderInv, Holds
  <1> QED
    BY <1>4, <1>5, <1>6, <1>7 DEF RequestStep

LEMMA WorkerRenders ==
    ASSUME LockInv, RenderInv, GoesStale, NEW j \in Job, WorkerStep(j)
    PROVE  RenderInv'
  <1>1. (lock' = lock \/ lock' = Free) /\ edits' = edits /\ worker \in WorkType
    BY DEF WorkerStep, WorkReads, WorkStarts, WorkRenders, WorkLooks, WorkLands, WorkEnds, EndsLock, LockWithout, video,
           LockInv, LandingTypeOK, WorkType
  <1>2. \A k \in Job : k # j => worker'[k] = worker[k]
    BY <1>1 DEF WorkerStep, WorkReads, WorkStarts, WorkRenders, WorkLooks, WorkLands, WorkEnds, WorkGoes, WorkType
  <1>3. made \subseteq made'
    BY DEF WorkerStep, WorkReads, WorkStarts, WorkRenders, WorkLooks, WorkLands, WorkEnds
  <1>4. \/ worker'[j].pc \notin Rendering
        \/ worker'[j].of = edits /\ worker'[j].pc # "ends"
        \/ worker'[j].of = worker[j].of /\ worker[j].pc \in Rendering /\ worker'[j].pc # "ends"
        \/ worker'[j].of = worker[j].of /\ worker[j].pc \in Rendering /\ worker[j].of \in made'
    <2>1. CASE WorkReads(j)
      BY <1>1, <2>1 DEF WorkReads, WorkType, NoWork, Rendering
    <2>2. CASE WorkStarts(j)
      BY <1>1, <2>2 DEF WorkStarts, WorkGoes, WorkType, NoWork, Rendering
    <2>3. CASE WorkRenders(j)
      BY <1>1, <2>3 DEF WorkRenders, WorkGoes, WorkType, NoWork, Rendering
    <2>4. CASE WorkLooks(j)
      BY <1>1, <2>4 DEF WorkLooks, WorkType, NoWork, Rendering
    <2>5. CASE WorkLands(j)
      BY <1>1, <2>5 DEF WorkLands, WorkGoes, WorkType, NoWork, Rendering
    <2>6. CASE WorkEnds(j)
      BY <1>1, <2>6 DEF WorkEnds, WorkType, NoWork, Rendering
    <2> QED
      BY <2>1, <2>2, <2>3, <2>4, <2>5, <2>6 DEF WorkerStep
  <1>5. (\A k \in Job : worker[k].pc = "ends" => worker[k].of \in made)'
    BY <1>2, <1>3, <1>4 DEF RenderInv, Rendering
  <1>6. ASSUME NEW c \in Change, Holds(lock', "job", c), worker'[c].pc \in Rendering, c \notin stale'
        PROVE  worker'[c].of = edits'
    <2>1. Holds(lock, "job", c) /\ c \notin stale
      BY <1>1, <1>6, StaysStale, Names DEF Holds
    <2> QED
      BY <1>1, <1>2, <1>4, <1>6, <2>1, Names DEF RenderInv
  <1> QED
    BY <1>5, <1>6 DEF RenderInv

\* A Stop that puts a snapshot back makes every render under way stale; its other steps leave the video.
LEMMA StopRenders ==
    ASSUME LockInv, RenderInv, GoesStale, NEW s \in Stopper, StopReads(s) \/ StopStep(s)
    PROVE  RenderInv'
  <1>1. UNCHANGED <<worker, made>> /\ (lock' = lock \/ lock' = Free)
    BY DEF StopReads, StopStep, StopLists, StopCancels, StopRestores, StopEnds, EndsLock, LockWithout
  <1>2. CASE StopRestores(s)
    <2>1. PutsBack
      BY <1>2 DEF StopRestores, PutsBack, LockInv, LandingTypeOK
    <2> QED
      BY <1>1, <2>1, StaysStale, Names DEF RenderInv
  <1>3. CASE StopReads(s) \/ StopLists(s) \/ StopCancels(s) \/ StopEnds(s)
    <2>1. edits' = edits
      BY <1>3 DEF StopReads, StopLists, StopCancels, StopEnds, video
    <2> QED
      BY <1>1, <2>1, StaysStale, Names DEF RenderInv, Holds
  <1> QED
    BY <1>2, <1>3 DEF StopStep

\* Steps that leave the edit set and the renders alone.
LEMMA OtherRenders ==
    ASSUME LockInv, RenderInv, GoesStale, UNCHANGED <<edits, made>>, lock' = lock \/ lock' = Free,
           \A j \in Job : worker'[j] = worker[j] \/ worker'[j].pc \in {"none", "due"}
    PROVE  RenderInv'
  <1>1. \A j \in Job : worker'[j].pc \in Rendering => worker'[j] = worker[j] /\ (j \notin stale' => j \notin stale)
    BY StaysStale DEF Rendering
  <1> QED
    BY <1>1, Names DEF RenderInv, Rendering, Holds

LEMMA CrashRenders == ASSUME RenderInv, ServerDies PROVE RenderInv'
  BY Names DEF ServerDies, NoWork, RenderInv, Rendering

LEMMA StepRenders ==
    ASSUME LockInv, RenderInv, [LandingNext]_landingVars, [GoesStale]_<<landingVars, stale>>
    PROVE  RenderInv'
  <1>1. CASE UNCHANGED landingVars
    <2>1. UNCHANGED <<lock, worker, made, edits>>
      BY <1>1 DEF landingVars, video
    <2>2. \A j \in Job : worker'[j].pc \in Rendering /\ j \notin stale' => j \notin stale
      BY StaysStale
    <2> QED
      BY <2>1, <2>2, Names DEF RenderInv, Holds
  <1>2. ASSUME GoesStale, NEW p \in Preview, AskPreview(p) PROVE RenderInv'
    <2>1. \A j \in Job : worker'[j] = worker[j] \/ worker'[j].pc \in {"none", "due"}
      BY <1>2 DEF AskPreview, WorkGoes, LockInv, LandingTypeOK
    <2> QED
      BY <1>2, <2>1, OtherRenders DEF AskPreview, video
  <1>3. ASSUME GoesStale, ServerReturns PROVE RenderInv'
    BY <1>3, OtherRenders DEF ServerReturns, video
  <1>4. CASE LandingNext /\ GoesStale
    BY <1>2, <1>3, <1>4, RequestRenders, WorkerRenders, StopRenders, CrashRenders DEF LandingNext
  <1> QED
    BY <1>1, <1>4

\* The step of LandsWithItsRender.
LandsStep ==
    lock # Free /\ lock.kind = "job" /\ lock.id \in Change /\ lock' = Free /\ job'[lock.id].status = "done" => edits \in made'

\* The lock goes with a job that is done only in the two steps in which a worker finds its render made.
LEMMA StepLands ==
    ASSUME LockInv, RenderInv, [LandingNext]_landingVars, lock # Free, lock.id \notin stale
    PROVE  LandsStep
  <1> SUFFICES ASSUME lock # Free, lock.kind = "job", lock.id \in Change, lock' = Free, job'[lock.id].status = "done"
               PROVE  edits \in made'
    BY DEF LandsStep
  <1> DEFINE c == lock.id
  <1>1. job[c].status \in Active /\ Holds(lock, "job", c) /\ c \in Job
    BY Names DEF LockInv, Holders, Holds
  <1>2. job[c].status # "done"
    BY <1>1 DEF Active
  <1>3. ASSUME NEW j \in Job, NEW st \in Over, job' = Ended(job, j, st) PROVE j = c /\ st = "done"
    BY <1>1, <1>2, <1>3 DEF Ended, LockInv, LandingTypeOK
  <1>4. ASSUME NEW d \in Change, TakeLock(d) \/ RequestStep(d) PROVE FALSE
    <2>1. CASE \E hash \in BOOLEAN : MakeJob(d, hash)
      <3>1. job'[c] = job[c] \/ job'[c].status = "queued"
        BY <2>1 DEF MakeJob, LockInv, LandingTypeOK
      <3> QED
        BY <1>2, <3>1
    <2>2. CASE job' = job
      BY <1>2, <2>2
    <2> QED
      BY <1>4, <2>1, <2>2 DEF TakeLock, RequestStep, Approve, Ship, Alter, Land, HandOver, EndRequest
  <1>5. ASSUME NEW p \in Preview, AskPreview(p) PROVE FALSE
    BY <1>5 DEF AskPreview
  <1>6. ASSUME NEW j \in Job, WorkerStep(j) PROVE edits \in made'
    <2>2. CASE WorkStarts(j) /\ worker[j].of \in made
      <3>1. j = c
        BY <1>3, <2>2 DEF WorkStarts, Over
      <3>2. worker[c].of = edits
        BY <1>1, <2>2, <3>1 DEF WorkStarts, RenderInv, Rendering
      <3> QED
        BY <2>2, <3>1, <3>2 DEF WorkStarts
    <2>3. CASE WorkEnds(j)
      <3>1. j = c
        BY <1>3, <2>3 DEF WorkEnds, Over
      <3>2. worker[c].of = edits /\ worker[c].of \in made
        BY <1>1, <2>3, <3>1 DEF WorkEnds, RenderInv, Rendering
      <3> QED
        BY <2>3, <3>2 DEF WorkEnds
    <2>4. CASE job' = Ended(job, j, "failed")
      BY <1>3, <2>4 DEF Over
    <2>5. CASE lock' = lock
      BY <2>5
    <2> QED
      BY <1>6, <2>2, <2>3, <2>4, <2>5 DEF WorkerStep, WorkReads, WorkStarts, WorkRenders, WorkLooks, WorkLands
  <1>7. ASSUME NEW s \in Stopper, StopReads(s) \/ StopStep(s) PROVE FALSE
    <2>1. CASE StopCancels(s) \/ StopEnds(s)
      <3>1. stop[s].queued \subseteq Job /\ (stop[s].pc = "end" => stop[s].lock.id \in Job)
        BY Names DEF LockInv, LandingTypeOK, Routes
      <3>2. lock' = lock \/ \E j \in Job : job' = Ended(job, j, "cancelled")
        BY <2>1, <3>1 DEF StopCancels, StopEnds, Cancel
      <3> QED
        BY <1>3, <3>2 DEF Over
    <2>2. CASE lock' = lock
      BY <2>2
    <2> QED
      BY <1>7, <2>1, <2>2 DEF StopReads, StopStep, StopLists, StopRestores
  <1>8. ASSUME ServerDies PROVE FALSE
    BY <1>8 DEF ServerDies
  <1>9. ASSUME ServerReturns PROVE FALSE
    BY <1>1, <1>2, <1>9 DEF ServerReturns, LockInv, LandingTypeOK
  <1>10. ASSUME UNCHANGED landingVars PROVE FALSE
    BY <1>10 DEF landingVars
  <1> QED
    BY <1>4, <1>5, <1>6, <1>7, <1>8, <1>9, <1>10 DEF LandingNext

\* However the steps of Adds, changes, renders, previews, Stops and crashes fall, a change whose own job ends
\* done leaves the video Ready with the render of what is in it ("the Add is Working until its render lands",
\* _ship), though the edits are read before the render waits: the one thing that takes that from it is a Stop
\* that puts its snapshot back (_restore_snapshot) between that read and the end of the render.
THEOREM LandsRendered ==
    LandingSpec /\ History => [][lock # Free /\ lock.id \notin stale => LandsStep]_<<landingVars, stale>>
  <1>1. LockInv /\ RenderInv /\ [LandingNext]_landingVars /\ [GoesStale]_<<landingVars, stale>> => RenderInv'
    BY StepRenders
  <1>2. LandingInit => RenderInv
    BY InitRenders
  <1>3. LockInv /\ RenderInv /\ [LandingNext]_landingVars
          => [lock # Free /\ lock.id \notin stale => LandsStep]_<<landingVars, stale>>
    BY StepLands
  <1> QED
    BY <1>1, <1>2, <1>3, LocksHold, PTL DEF LandingSpec, History
==============================================================================
