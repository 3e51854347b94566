----------------------------- MODULE UpNextProofs -----------------------------
(***************************************************************************)
(* Proofs about UpNext for any changes, threads and bounds, whatever       *)
(* threads interleave: the type invariant, one started card, that a change *)
(* gets the video once at most, and what a paused queue may still start.   *)
(***************************************************************************)
EXTENDS UpNext, FiniteSetTheorems, FunctionTheorems, SequenceTheorems, TLAPS

\* A line of the queue whose changes are S.
IsLine(l, S) == l \in Seq(Item) /\ Len(l) <= MAX /\ ToSet(l) = S /\ IsInjective(l)

\* What joins the line is last in it.
LEMMA AppendLine ==
    ASSUME NEW l, NEW S, IsLine(l, S), NEW i \in Item \ S, Len(l) < MAX
    PROVE  IsLine(Append(l, i), S \cup {i})
  <1> DEFINE m == Append(l, i)
  <1>1. l \in Seq(Item) /\ Len(l) \in Nat /\ DOMAIN l = 1..Len(l) /\ \A j \in 1..Len(l) : l[j] \in S
    BY LenProperties DEF IsLine, ToSet
  <1>2. m \in Seq(Item) /\ Len(m) = Len(l) + 1 /\ m[Len(l) + 1] = i /\ \A j \in 1..Len(l) : m[j] = l[j]
    BY <1>1, AppendProperties
  <1>3. DOMAIN m = 1..(Len(l) + 1)
    BY <1>2, LenProperties
  <1> HIDE DEF m
  <1>4. ToSet(m) = S \cup {i}
    <2>1. ToSet(m) \subseteq S \cup {i}
      BY <1>1, <1>2, <1>3 DEF ToSet
    <2>2. ASSUME NEW x \in S PROVE x \in ToSet(m)
      <3>1. PICK j \in 1..Len(l) : l[j] = x
        BY <1>1 DEF IsLine, ToSet
      <3>2. j \in DOMAIN m /\ m[j] = x
        BY <1>1, <1>2, <1>3, <3>1
      <3> QED
        BY <3>2 DEF ToSet
    <2>3. i \in ToSet(m)
      BY <1>1, <1>2, <1>3 DEF ToSet
    <2> QED
      BY <2>1, <2>2, <2>3
  <1>5. IsInjective(m)
    BY <1>1, <1>2, <1>3 DEF IsLine, IsInjective
  <1>6. MAX \in Nat
    BY QueueAssumption
  <1> QED
    BY <1>1, <1>2, <1>4, <1>5, <1>6 DEF IsLine, m

\* What leaves the line from any place leaves the rest in its order.
LEMMA RemoveLine ==
    ASSUME NEW l, NEW S, IsLine(l, S), NEW k \in DOMAIN l
    PROVE  IsLine(RemoveAt(l, k), S \ {l[k]})
  <1> DEFINE n == Len(l)
             a == SubSeq(l, 1, k - 1)
             b == SubSeq(l, k + 1, n)
             m == RemoveAt(l, k)
  <1>1. l \in Seq(Item) /\ n \in Nat /\ DOMAIN l = 1..n /\ k \in 1..n /\ \A j \in 1..n : l[j] \in Item
    BY LenProperties, ElementOfSeq DEF IsLine
  <1>2. a \in Seq(Item) /\ Len(a) = k - 1 /\ \A j \in 1..(k - 1) : a[j] = l[j]
    <2>1. \A j \in 1..(k - 1) : l[j] \in Item
      BY <1>1
    <2>2. 1 \in Int /\ k - 1 \in Int
      BY <1>1
    <2> HIDE DEF n
    <2>3. /\ SubSeq(l, 1, k - 1) \in Seq(Item)
          /\ Len(SubSeq(l, 1, k - 1)) = IF 1 <= k - 1 THEN k - 1 - 1 + 1 ELSE 0
          /\ \A j \in 1 .. k - 1 - 1 + 1 : SubSeq(l, 1, k - 1)[j] = l[1 + j - 1]
      BY <2>1, <2>2, SubSeqProperties
    <2> QED
      BY <1>1, <2>3
  <1>3. b \in Seq(Item) /\ Len(b) = n - k /\ \A j \in 1..(n - k) : b[j] = l[k + j]
    <2>1. \A j \in (k + 1)..n : l[j] \in Item
      BY <1>1
    <2>2. n \in Int /\ k + 1 \in Int
      BY <1>1
    <2> HIDE DEF n
    <2>3. /\ SubSeq(l, k + 1, n) \in Seq(Item)
          /\ Len(SubSeq(l, k + 1, n)) = IF k + 1 <= n THEN n - (k + 1) + 1 ELSE 0
          /\ \A j \in 1 .. n - (k + 1) + 1 : SubSeq(l, k + 1, n)[j] = l[k + 1 + j - 1]
      BY <2>1, <2>2, SubSeqProperties
    <2> QED
      BY <1>1, <2>3
  <1>4. m = a \o b
    BY DEF RemoveAt
  <1> HIDE DEF a, b, n, m
  <1>5. /\ m \in Seq(Item) /\ Len(m) = n - 1
        /\ \A j \in 1..(n - 1) : m[j] = IF j < k THEN l[j] ELSE l[j + 1]
    <2>1. /\ a \o b \in Seq(Item) /\ Len(a \o b) = Len(a) + Len(b)
          /\ \A j \in 1..(Len(a) + Len(b)) : (a \o b)[j] = IF j <= Len(a) THEN a[j] ELSE b[j - Len(a)]
      BY <1>2, <1>3, ConcatProperties
    <2>2. Len(a) + Len(b) = n - 1 /\ k \in Nat /\ n \in Nat
      BY <1>1, <1>2, <1>3
    <2>3. ASSUME NEW j \in 1..(n - 1), j < k PROVE m[j] = l[j]
      BY <1>2, <1>4, <2>1, <2>2, <2>3
    <2>4. ASSUME NEW j \in 1..(n - 1), ~(j < k) PROVE m[j] = l[j + 1]
      <3>1. m[j] = b[j - (k - 1)]
        BY <1>2, <1>4, <2>1, <2>2, <2>4
      <3>2. j - (k - 1) \in 1..(n - k) /\ k + (j - (k - 1)) = j + 1
        BY <2>2, <2>4
      <3> QED
        BY <1>3, <3>1, <3>2
    <2> QED
      BY <1>4, <2>1, <2>2, <2>3, <2>4
  <1>6. DOMAIN m = 1..(n - 1)
    BY <1>5, LenProperties
  <1>7. \A i, j \in 1..n : l[i] = l[j] => i = j
    BY <1>1 DEF IsLine, IsInjective
  <1>8. ToSet(m) = S \ {l[k]}
    <2>1. ASSUME NEW j \in 1..(n - 1) PROVE m[j] \in S \ {l[k]}
      <3>1. PICK i \in 1..n : i # k /\ m[j] = l[i]
        <4>1. CASE j < k
          BY <1>1, <1>5, <4>1
        <4>2. CASE ~(j < k)
          BY <1>1, <1>5, <4>2
        <4> QED
          BY <4>1, <4>2
      <3> QED
        BY <1>1, <1>7, <3>1 DEF IsLine, ToSet
    <2>2. ASSUME NEW x \in S \ {l[k]} PROVE \E j \in 1..(n - 1) : m[j] = x
      <3>1. PICK i \in 1..n : l[i] = x
        BY <1>1 DEF IsLine, ToSet
      <3>2. CASE i < k
        BY <1>1, <1>5, <3>1, <3>2
      <3>3. CASE i > k
        <4>1. i - 1 \in 1..(n - 1) /\ ~(i - 1 < k) /\ (i - 1) + 1 = i
          BY <1>1, <3>3
        <4> QED
          BY <1>5, <3>1, <4>1
      <3> QED
        BY <1>1, <3>1, <3>2, <3>3
    <2> QED
      BY <1>6, <2>1, <2>2 DEF ToSet
  <1>9. IsInjective(m)
    <2> SUFFICES ASSUME NEW i \in 1..(n - 1), NEW j \in 1..(n - 1), m[i] = m[j] PROVE i = j
      BY <1>6 DEF IsInjective
    <2>1. i + 1 \in 1..n /\ j + 1 \in 1..n /\ i \in 1..n /\ j \in 1..n
      BY <1>1
    <2> QED
      BY <1>1, <1>5, <1>7, <2>1
  <1>10. MAX \in Nat
    BY QueueAssumption
  <1> QED
    BY <1>1, <1>5, <1>8, <1>9, <1>10 DEF IsLine, m, n

\* The first of the line leaves it.
LEMMA TailLine ==
    ASSUME NEW l, NEW S, IsLine(l, S), l # <<>>
    PROVE  Head(l) \in S /\ IsLine(Tail(l), S \ {Head(l)})
  <1>1. l \in Seq(Item) /\ Len(l) \in Nat \ {0} /\ DOMAIN l = 1..Len(l) /\ Head(l) = l[1]
    BY LenProperties, EmptySeq DEF IsLine
  <1>2. 1 \in DOMAIN l
    BY <1>1
  <1>3. RemoveAt(l, 1) = Tail(l)
    <2>1. SubSeq(l, 1, 0) = <<>> /\ SubSeq(l, 2, Len(l)) = Tail(l)
      BY <1>1, SubSeqEmpty, TailIsSubSeq
    <2>2. Tail(l) \in Seq(Item)
      BY <1>1, HeadTailProperties
    <2>3. RemoveAt(l, 1) = <<>> \o Tail(l)
      BY <2>1 DEF RemoveAt
    <2> QED
      BY <2>2, <2>3, ConcatEmptySeq
  <1>4. l[1] \in S
    BY <1>2 DEF IsLine, ToSet
  <1>5. IsLine(RemoveAt(l, 1), S \ {l[1]})
    BY <1>2, RemoveLine
  <1> QED
    BY <1>1, <1>3, <1>4, <1>5

\* A line that names the same changes in as many places names each once.
LEMMA ReorderLine ==
    ASSUME NEW l, NEW S, IsLine(l, S), NEW m \in [DOMAIN l -> ToSet(l)], ToSet(m) = ToSet(l)
    PROVE  IsLine(m, S)
  <1>1. l \in Seq(Item) /\ Len(l) \in Nat /\ DOMAIN l = 1..Len(l) /\ l \in [DOMAIN l -> S] /\ S = ToSet(l)
    BY LenProperties DEF IsLine, ToSet
  <1>2. \A j \in DOMAIN l : l[j] \in Item
    BY <1>1, ElementOfSeq
  <1>3. S \subseteq Item
    BY <1>1, <1>2 DEF ToSet
  <1>4. m \in [1..Len(l) -> Item] /\ m \in Seq(Item) /\ Len(m) = Len(l)
    <2>1. m \in [1..Len(l) -> Item]
      BY <1>1, <1>3
    <2> QED
      BY <1>1, <2>1
  <1>5. l \in Surjection(DOMAIN l, S) /\ m \in Surjection(DOMAIN l, S) /\ l \in Injection(DOMAIN l, S)
    BY <1>1 DEF Surjection, Injection, IsInjective, IsLine, ToSet
  <1>6. IsFiniteSet(DOMAIN l)
    <2>0. 1 \in Int /\ Len(l) \in Int
      BY <1>1
    <2>1. IsFiniteSet(1..Len(l))
      BY <2>0, FS_Interval, Zenon
    <2> QED
      BY <1>1, <2>1
  <1>7. Cardinality(DOMAIN l) = Cardinality(S)
    BY <1>5, <1>6, FS_Surjection
  <1>8. m \in Injection(DOMAIN l, S)
    BY <1>5, <1>6, <1>7, FS_SurjSameCardinalityImpliesInj
  <1>9. IsInjective(m)
    BY <1>8 DEF Injection
  <1> QED
    BY <1>1, <1>4, <1>9 DEF IsLine
------------------------------------------------------------------------------
(* Types *)

Queued == {i \in Item : status[i] = "queued"}
Texts == {"new", "queued", "removed"} \cup Started \cup Ended
Tells == [pc : {"idle", "told", "finish", "next"}, outcome : Outcomes, run : Item \cup {None}]
Starts == [pc : {"idle", "claim", "door"}, item : Item \cup {None}]
Holds == [by : Item \cup Direct \cup {None}, at : {"free", "starting", "working", "gate", "paused"}]
Fates == {"none", "on", "asks", "refused", "lost"} \cup Outcomes

LineOK == IsLine(line, Queued)
CardsOK == status \in [Item -> Texts] /\ work \in [Item -> Fates]
ThreadsOK == tell \in [Slot -> Tells] /\ start \in [Slot -> Starts]
RestOK ==
    /\ paused \in BOOLEAN /\ question \in BOOLEAN /\ lock \in Holds /\ due \in 0..2 /\ adding \in BOOLEAN
    /\ clicks \in 0..MaxClicks /\ up \in BOOLEAN /\ crashes \in 0..MaxCrashes

LEMMA TypeParts == TypeOK <=> LineOK /\ CardsOK /\ ThreadsOK /\ RestOK
  BY DEF TypeOK, LineOK, CardsOK, ThreadsOK, RestOK, IsLine, Queued, Texts, Tells, Starts, Holds, Fates

\* What is running, if anything, is a change.
LEMMA TheRunningType == TheRunning \in Item \cup {None} /\ (Running # {} => TheRunning \in Running)
  BY DEF TheRunning, Running

LEMMA LetGoTypes ==
    ASSUME ThreadsOK, NEW o \in Outcomes, LetGo(o)
    PROVE  lock' = Free /\ tell' \in [Slot -> Tells]
  <1>1. PICK s \in Slot : tell' = [tell EXCEPT ![s] = [pc |-> "told", outcome |-> o, run |-> None]]
    BY DEF LetGo
  <1>2. [pc |-> "told", outcome |-> o, run |-> None] \in Tells
    BY DEF Tells
  <1> QED
    BY <1>1, <1>2 DEF LetGo, ThreadsOK

LEMMA BecomesTypes ==
    ASSUME CardsOK, NEW how \in Fates, Becomes(how)
    PROVE  work' \in [Item -> Fates]
  BY DEF Becomes, CardsOK

LEMMA QuietTypes == QuietTell \in Tells /\ QuietStart \in Starts
  BY DEF QuietTell, QuietStart, Tells, Starts, Outcomes

LEMMA InitTypes == Init => TypeOK
  <1> SUFFICES ASSUME Init PROVE LineOK /\ CardsOK /\ ThreadsOK /\ RestOK
    BY TypeParts
  <1>1. LineOK
    <2>1. line = <<>> /\ Queued = {}
      BY DEF Init, Queued
    <2>2. IsLine(<<>>, {})
      <3>1. <<>> \in Seq(Item) /\ Len(<<>>) = 0 /\ DOMAIN <<>> = {}
        BY EmptySeq
      <3> QED
        BY <3>1, QueueAssumption DEF IsLine, ToSet, IsInjective
    <2> QED
      BY <2>1, <2>2 DEF LineOK
  <1>2. CardsOK
    BY DEF Init, CardsOK, Texts, Fates
  <1>3. ThreadsOK
    BY QuietTypes DEF Init, ThreadsOK
  <1>4. RestOK
    <2>1. due \in 0..2 /\ clicks \in 0..MaxClicks /\ crashes \in 0..MaxCrashes
      BY QueueAssumption DEF Init
    <2>2. lock \in Holds
      BY DEF Init, Holds, Free
    <2> QED
      BY <2>1, <2>2, Zenon DEF Init, RestOK
  <1> QED
    BY <1>1, <1>2, <1>3, <1>4

\* A step that leaves what is queued, and its line, as they are.
LEMMA SameLine ==
    ASSUME LineOK, line' = line, \A i \in Item : status'[i] = "queued" <=> status[i] = "queued"
    PROVE  LineOK'
  BY DEF LineOK, Queued

LEMMA UserTypes == TypeOK /\ UserStep => TypeOK'
  <1> SUFFICES ASSUME TypeOK, UserStep PROVE LineOK' /\ CardsOK' /\ ThreadsOK' /\ RestOK'
    BY TypeParts DEF TypeOK, IsLine, LineOK, CardsOK, ThreadsOK, RestOK, Queued, Texts, Tells, Starts, Holds, Fates
  <1>t. LineOK /\ CardsOK /\ ThreadsOK /\ RestOK
    BY TypeParts
  <1>1. ASSUME NEW i \in Item, Add(i) PROVE LineOK' /\ CardsOK' /\ ThreadsOK' /\ RestOK'
    <2>1. i \in Item \ Queued /\ Queued' = Queued \cup {i}
      BY <1>1, <1>t DEF Add, Queued, CardsOK
    <2>2. LineOK'
      BY <1>1, <1>t, <2>1, AppendLine DEF Add, LineOK
    <2> QED
      BY <1>1, <1>t, <2>2 DEF Add, CardsOK, ThreadsOK, RestOK, Texts, bounds
  <1>2. ASSUME NEW i \in Item, RemoveQueued(i) PROVE LineOK' /\ CardsOK' /\ ThreadsOK' /\ RestOK'
    <2>1. Queued' = Queued \ {i}
      BY <1>2, <1>t DEF RemoveQueued, Queued, CardsOK
    <2>2. LineOK'
      BY <1>2, <1>t, <2>1, RemoveLine DEF RemoveQueued, LineOK
    <2> QED
      BY <1>2, <1>t, <2>2 DEF RemoveQueued, CardsOK, ThreadsOK, RestOK, Texts, bounds, threads
  <1>3. CASE Reorder
    <2>1. LineOK'
      BY <1>3, <1>t, ReorderLine DEF Reorder, LineOK, Queued
    <2> QED
      BY <1>3, <1>t, <2>1 DEF Reorder, CardsOK, ThreadsOK, RestOK, bounds, threads
  <1>4. CASE Clear
    <2>1. LineOK'
      <3>1. line' = <<>> /\ Queued' = {}
        BY <1>4, <1>t DEF Clear, Queued, CardsOK
      <3>2. <<>> \in Seq(Item) /\ Len(<<>>) = 0 /\ DOMAIN <<>> = {}
        BY EmptySeq
      <3> QED
        BY <3>1, <3>2, QueueAssumption DEF LineOK, IsLine, ToSet, IsInjective
    <2> QED
      BY <1>4, <1>t, <2>1 DEF Clear, CardsOK, ThreadsOK, RestOK, Texts, bounds, threads
  <1>5. CASE RunNext
    <2>1. LineOK'
      BY <1>5, <1>t, SameLine DEF RunNext
    <2>2. due' \in 0..2
      BY <1>5, <1>t DEF RunNext, RestOK, MoreDue
    <2> QED
      BY <1>5, <1>t, <2>1, <2>2 DEF RunNext, CardsOK, ThreadsOK, RestOK, bounds
  <1>6. ASSUME NEW who \in Direct, Click(who) PROVE LineOK' /\ CardsOK' /\ ThreadsOK' /\ RestOK'
    <2>1. LineOK'
      BY <1>6, <1>t, SameLine DEF Click, queue
    <2> QED
      BY <1>6, <1>t, <2>1, QueueAssumption DEF Click, queue, CardsOK, ThreadsOK, RestOK, threads, Holds, Fates
  <1>7. CASE StopGate
    <2>1. LineOK'
      BY <1>7, <1>t, SameLine DEF StopGate, queue
    <2>2. lock' = Free /\ tell' \in [Slot -> Tells] /\ work' \in [Item -> Fates]
      BY <1>7, <1>t, LetGoTypes, BecomesTypes DEF StopGate, Outcomes, Fates
    <2> QED
      BY <1>7, <1>t, <2>1, <2>2 DEF StopGate, queue, CardsOK, ThreadsOK, RestOK, bounds, Holds, Free
  <1>8. CASE HoldTurn
    <2>1. LineOK'
      BY <1>8, <1>t, SameLine DEF HoldTurn, CardsOK
    <2> QED
      BY <1>8, <1>t, <2>1 DEF HoldTurn, CardsOK, ThreadsOK, RestOK, Texts, Started, Holds, bounds, threads
  <1>9. CASE CarryOn
    <2>1. LineOK'
      BY <1>9, <1>t, SameLine DEF CarryOn, CardsOK
    <2> QED
      BY <1>9, <1>t, <2>1 DEF CarryOn, CardsOK, ThreadsOK, RestOK, Texts, Started, Holds, bounds, threads
  <1> QED
    BY <1>1, <1>2, <1>3, <1>4, <1>5, <1>6, <1>7, <1>8, <1>9 DEF UserStep

LEMMA WorkTypes == TypeOK /\ WorkStep => TypeOK'
  <1> SUFFICES ASSUME TypeOK, WorkStep PROVE LineOK' /\ CardsOK' /\ ThreadsOK' /\ RestOK'
    BY TypeParts DEF TypeOK, IsLine, LineOK, CardsOK, ThreadsOK, RestOK, Queued, Texts, Tells, Starts, Holds, Fates
  <1>t. LineOK /\ CardsOK /\ ThreadsOK /\ RestOK
    BY TypeParts
  <1>l. LineOK'
    BY <1>t, SameLine DEF WorkStep, Begin, Refuse, End, Ask, AskForGo, queue
  <1>1. CASE Begin
    BY <1>1, <1>t, <1>l DEF Begin, CardsOK, ThreadsOK, RestOK, Holds, queue, threads, bounds
  <1>2. CASE Refuse
    <2>1. lock' = Free /\ tell' \in [Slot -> Tells] /\ work' \in [Item -> Fates]
      BY <1>2, <1>t, LetGoTypes, BecomesTypes DEF Refuse, Outcomes, Fates
    <2> QED
      BY <1>2, <1>t, <1>l, <2>1 DEF Refuse, CardsOK, ThreadsOK, RestOK, Holds, Free, queue, bounds
  <1>3. ASSUME NEW o \in Outcomes, End(o) PROVE LineOK' /\ CardsOK' /\ ThreadsOK' /\ RestOK'
    <2>1. lock' = Free /\ tell' \in [Slot -> Tells] /\ work' \in [Item -> Fates]
      BY <1>3, <1>t, LetGoTypes, BecomesTypes DEF End, Fates
    <2> QED
      BY <1>3, <1>t, <1>l, <2>1 DEF End, CardsOK, ThreadsOK, RestOK, Holds, Free, queue, bounds
  <1>4. CASE Ask
    <2>1. lock' = Free /\ tell' \in [Slot -> Tells] /\ work' \in [Item -> Fates]
      BY <1>4, <1>t, LetGoTypes, BecomesTypes DEF Ask, Outcomes, Fates
    <2> QED
      BY <1>4, <1>t, <1>l, <2>1 DEF Ask, CardsOK, ThreadsOK, RestOK, Holds, Free, queue, bounds
  <1>5. CASE AskForGo
    <2>1. work' \in [Item -> Fates]
      BY <1>5, <1>t, BecomesTypes DEF AskForGo, Fates
    <2> QED
      BY <1>5, <1>t, <1>l, <2>1 DEF AskForGo, CardsOK, ThreadsOK, RestOK, Holds, queue, threads, bounds
  <1> QED
    BY <1>1, <1>2, <1>3, <1>4, <1>5 DEF WorkStep
\* One thread steps on; the others stand where they stood.
LEMMA ThreadTypes == ASSUME TypeOK, NEW s \in Slot, ThreadStep(s) PROVE TypeOK'
  <1> SUFFICES LineOK' /\ CardsOK' /\ ThreadsOK' /\ RestOK'
    BY TypeParts DEF TypeOK, IsLine, LineOK, CardsOK, ThreadsOK, RestOK, Queued, Texts, Tells, Starts, Holds, Fates
  <1>t. LineOK /\ CardsOK /\ ThreadsOK /\ RestOK
    BY TypeParts
  <1>s. tell[s] \in Tells /\ start[s] \in Starts
    BY <1>t DEF ThreadsOK
  <1>m. MoreDue \in 0..2
    BY <1>t DEF RestOK, MoreDue
  <1>1. CASE TellRead(s)
    <2>1. LineOK'
      BY <1>1, <1>t, SameLine DEF TellRead, queue
    <2>2. [tell[s] EXCEPT !.pc = "finish", !.run = TheRunning] \in Tells
      BY <1>s, TheRunningType DEF Tells
    <2>3. tell' \in [Slot -> Tells]
      BY <1>1, <1>t, <2>2, QuietTypes DEF TellRead, Tell, ThreadsOK
    <2> QED
      BY <1>1, <1>t, <2>1, <2>3 DEF TellRead, CardsOK, ThreadsOK, RestOK, queue, bounds
  <1>2. CASE TellFinish(s)
    <2>1. tell[s].outcome \in Outcomes /\ [tell[s] EXCEPT !.pc = "next"] \in Tells
      BY <1>s DEF Tells
    <2>2. LineOK'
      <3>1. \A i \in Item : status'[i] = "queued" <=> status[i] = "queued"
        BY <1>2, <1>t, <2>1 DEF TellFinish, Started, Outcomes
      <3> QED
        BY <1>2, <1>t, <3>1, SameLine DEF TellFinish
    <2>3. status' \in [Item -> Texts]
      BY <1>2, <1>t, <2>1 DEF TellFinish, CardsOK, Texts, Outcomes, Ended
    <2>4. tell' \in [Slot -> Tells]
      BY <1>2, <1>t, <2>1 DEF TellFinish, Tell, ThreadsOK
    <2> QED
      BY <1>2, <1>t, <2>2, <2>3, <2>4 DEF TellFinish, CardsOK, ThreadsOK, RestOK, bounds
  <1>3. CASE TellNext(s)
    <2>1. LineOK'
      BY <1>3, <1>t, SameLine DEF TellNext
    <2>2. tell' \in [Slot -> Tells]
      BY <1>3, <1>t, QuietTypes DEF TellNext, Tell, ThreadsOK
    <2>3. due' \in 0..2 /\ paused' \in BOOLEAN
      BY <1>3, <1>t, <1>m DEF TellNext, RestOK
    <2> QED
      BY <1>3, <1>t, <2>1, <2>2, <2>3 DEF TellNext, CardsOK, ThreadsOK, RestOK, bounds
  <1>4. CASE StartLook(s)
    <2>1. LineOK'
      BY <1>4, <1>t, SameLine DEF StartLook, queue
    <2>2. [pc |-> "claim", item |-> None] \in Starts
      BY DEF Starts
    <2>3. start' \in [Slot -> Starts]
      BY <1>4, <1>t, <2>2, QuietTypes DEF StartLook, Start, ThreadsOK
    <2>4. due' \in 0..2
      BY <1>4, <1>t DEF StartLook, RestOK
    <2> QED
      BY <1>4, <1>t, <2>1, <2>3, <2>4 DEF StartLook, queue, CardsOK, ThreadsOK, RestOK, bounds
  <1>5. CASE StartClaim(s)
    <2>1. CASE Running # {} \/ line = <<>>
      <3>1. LineOK'
        BY <1>5, <2>1, <1>t, SameLine DEF StartClaim
      <3>2. start' \in [Slot -> Starts]
        BY <1>5, <2>1, <1>t, QuietTypes DEF StartClaim, Start, ThreadsOK
      <3> QED
        BY <1>5, <2>1, <1>t, <3>1, <3>2 DEF StartClaim, CardsOK, ThreadsOK, RestOK, bounds
    <2>2. CASE ~(Running # {} \/ line = <<>>)
      <3>1. Head(line) \in Queued /\ IsLine(Tail(line), Queued \ {Head(line)})
        BY <1>t, <2>2, TailLine DEF LineOK
      <3>2. Head(line) \in Item
        BY <3>1 DEF Queued
      <3>3. Queued' = Queued \ {Head(line)}
        BY <1>5, <2>2, <1>t, <3>2 DEF StartClaim, Queued, CardsOK
      <3>4. LineOK'
        BY <1>5, <2>2, <3>1, <3>3 DEF StartClaim, LineOK
      <3>5. [pc |-> "door", item |-> Head(line)] \in Starts
        BY <3>2 DEF Starts
      <3>6. start' \in [Slot -> Starts]
        BY <1>5, <2>2, <1>t, <3>5 DEF StartClaim, Start, ThreadsOK
      <3>7. status' \in [Item -> Texts]
        BY <1>5, <2>2, <1>t DEF StartClaim, CardsOK, Texts, Started
      <3> QED
        BY <1>5, <1>t, <3>4, <3>6, <3>7 DEF StartClaim, CardsOK, ThreadsOK, RestOK, bounds
    <2> QED
      BY <2>1, <2>2
  <1>6. CASE StartTake(s)
    <2>1. LineOK'
      BY <1>6, <1>t, SameLine DEF StartTake, queue
    <2>2. start' \in [Slot -> Starts]
      BY <1>6, <1>t, QuietTypes DEF StartTake, Start, ThreadsOK
    <2>3. work' \in [Item -> Fates]
      BY <1>6, <1>t DEF StartTake, CardsOK, Fates
    <2>4. lock' \in Holds
      BY <1>6, <1>s DEF StartTake, Holds, Starts
    <2> QED
      BY <1>6, <1>t, <2>1, <2>2, <2>3, <2>4 DEF StartTake, queue, CardsOK, ThreadsOK, RestOK, bounds
  <1>7. CASE StartRefused(s)
    <2>1. LineOK'
      <3>1. \A i \in Item : status'[i] = "queued" <=> status[i] = "queued"
        BY <1>7, <1>t DEF StartRefused, CardsOK
      <3> QED
        BY <1>7, <1>t, <3>1, SameLine DEF StartRefused
    <2>2. [pc |-> "told", outcome |-> "failed", run |-> None] \in Tells
      BY DEF Tells, Outcomes
    <2>3. tell' \in [Slot -> Tells] /\ start' \in [Slot -> Starts]
      BY <1>7, <1>t, <2>2, QuietTypes DEF StartRefused, Tell, Start, ThreadsOK
    <2>4. status' \in [Item -> Texts] /\ work' \in [Item -> Fates]
      BY <1>7, <1>t DEF StartRefused, CardsOK, Texts, Fates, Ended
    <2> QED
      BY <1>7, <1>t, <2>1, <2>3, <2>4 DEF StartRefused, CardsOK, ThreadsOK, RestOK, bounds
  <1>8. CASE StartBreaks(s)
    <2>1. LineOK'
      BY <1>8, <1>t, SameLine DEF StartBreaks, queue
    <2>2. start' \in [Slot -> Starts] /\ work' \in [Item -> Fates]
      BY <1>8, <1>t, QuietTypes DEF StartBreaks, Start, ThreadsOK, CardsOK, Fates
    <2> QED
      BY <1>8, <1>t, <2>1, <2>2 DEF StartBreaks, queue, CardsOK, ThreadsOK, RestOK, bounds
  <1> QED
    BY <1>1, <1>2, <1>3, <1>4, <1>5, <1>6, <1>7, <1>8 DEF ThreadStep

\* The look after an add, a crash, a restart, or nothing at all.
LEMMA ServerTypes ==
    ASSUME TypeOK, AddLook \/ Crash \/ Restart \/ UNCHANGED vars
    PROVE  TypeOK'
  <1> SUFFICES LineOK' /\ CardsOK' /\ ThreadsOK' /\ RestOK'
    BY TypeParts DEF TypeOK, IsLine, LineOK, CardsOK, ThreadsOK, RestOK, Queued, Texts, Tells, Starts, Holds, Fates
  <1>t. LineOK /\ CardsOK /\ ThreadsOK /\ RestOK
    BY TypeParts
  <1>1. CASE AddLook
    <2>1. LineOK' /\ due' \in 0..2
      BY <1>1, <1>t, SameLine DEF AddLook, queue, RestOK, MoreDue
    <2> QED
      BY <1>1, <1>t, <2>1 DEF AddLook, queue, CardsOK, ThreadsOK, RestOK, bounds
  <1>2. CASE Crash
    <2>1. LineOK'
      BY <1>2, <1>t, SameLine DEF Crash, queue
    <2>2. tell' \in [Slot -> Tells] /\ start' \in [Slot -> Starts]
      BY <1>2, QuietTypes DEF Crash
    <2>3. work' \in [Item -> Fates]
      BY <1>2, <1>t DEF Crash, CardsOK, Fates
    <2>4. crashes' \in 0..MaxCrashes
      BY <1>2, <1>t, QueueAssumption DEF Crash, RestOK
    <2>5. due' \in 0..2
      BY <1>2 DEF Crash
    <2>6. RestOK'
      BY <1>2, <1>t, <2>4, <2>5, Zenon DEF Crash, queue, RestOK
    <2> QED
      BY <1>2, <1>t, <2>1, <2>2, <2>3, <2>6 DEF Crash, queue, CardsOK, ThreadsOK
  <1>3. CASE Restart
    <2>1. \A i \in Item : status'[i] = status[i] \/ (status'[i] = "failed" /\ status[i] \in Started)
      BY <1>3, <1>t DEF Restart, CardsOK, Running
    <2>2. LineOK'
      BY <1>3, <1>t, <2>1, SameLine DEF Restart, Started
    <2>3. status' \in [Item -> Texts]
      BY <1>3, <1>t DEF Restart, CardsOK, Texts, Ended
    <2>4. lock' \in Holds /\ paused' \in BOOLEAN
      BY <1>3, <1>t DEF Restart, RestOK, Holds, Free
    <2> QED
      BY <1>3, <1>t, <2>2, <2>3, <2>4 DEF Restart, CardsOK, ThreadsOK, RestOK, threads
  <1>4. CASE UNCHANGED vars
    <2>1. LineOK'
      BY <1>4, <1>t, SameLine DEF vars, queue
    <2> QED
      BY <1>4, <1>t, <2>1 DEF vars, queue, threads, bounds, CardsOK, ThreadsOK, RestOK
  <1> QED
    BY <1>1, <1>2, <1>3, <1>4

LEMMA TypeNext == TypeOK /\ [Next]_vars => TypeOK'
  BY UserTypes, WorkTypes, ThreadTypes, ServerTypes DEF Next

\* The types hold always; with them, the line holds each queued change once, at most MAX of them, and nothing
\* but those (queue.py: the positions of the rows that are still queued).
THEOREM TypeCorrect == Spec => []TypeOK
  <1> QED
    BY InitTypes, TypeNext, PTL DEF Spec
------------------------------------------------------------------------------
(* One started card *)

\* At most one card is started.
OneCard == \A i, j \in Running : i = j

\* Only a claim starts a card, and only while none is started.
LEMMA WhatStarts ==
    ASSUME TypeOK, [Next]_vars
    PROVE  \/ Running' \subseteq Running
           \/ \E i \in Item : Running = {} /\ Running' = {i} /\ status[i] = "queued" /\ \E s \in Slot : StartClaim(s)
  <1>t. CardsOK /\ LineOK /\ ThreadsOK
    BY TypeParts
  <1>1. CASE UserStep
    BY <1>1, <1>t DEF UserStep, Add, RemoveQueued, Reorder, Clear, RunNext, Click, StopGate, HoldTurn, CarryOn, queue,
       Running, Started, CardsOK
  <1>2. CASE WorkStep
    BY <1>2 DEF WorkStep, Begin, Refuse, End, Ask, AskForGo, queue, Running
  <1>3. ASSUME NEW s \in Slot, StartClaim(s), Running = {}, line # <<>>
        PROVE  \E i \in Item : Running' = {i} /\ status[i] = "queued"
    <2>1. Head(line) \in Queued
      BY <1>3, <1>t, TailLine DEF LineOK
    <2>2. Running' = {Head(line)}
      BY <1>3, <1>t, <2>1 DEF StartClaim, Running, Started, CardsOK, Queued
    <2> QED
      BY <2>1, <2>2 DEF Queued
  <1>4. ASSUME NEW s \in Slot, StartClaim(s), Running # {} \/ line = <<>> PROVE Running' = Running
    BY <1>4 DEF StartClaim, Running
  <1>5. ASSUME NEW s \in Slot, TellFinish(s) PROVE Running' \subseteq Running
    <2>1. tell[s].outcome \notin Started
      BY <1>t DEF ThreadsOK, Tells, Outcomes, Started
    <2> QED
      BY <1>5, <1>t, <2>1 DEF TellFinish, Running, CardsOK
  <1>6. ASSUME NEW s \in Slot, StartRefused(s) PROVE Running' \subseteq Running
    BY <1>6, <1>t DEF StartRefused, Running, CardsOK, Started
  <1>7. ASSUME NEW s \in Slot, TellRead(s) \/ TellNext(s) \/ StartLook(s) \/ StartTake(s) \/ StartBreaks(s)
        PROVE  Running' = Running
    BY <1>7 DEF TellRead, TellNext, StartLook, StartTake, StartBreaks, queue, Running
  <1>8. CASE AddLook \/ Crash \/ UNCHANGED vars
    BY <1>8 DEF AddLook, Crash, vars, queue, Running
  <1>9. CASE Restart
    BY <1>9, <1>t DEF Restart, Running, Started, CardsOK
  <1> QED
    BY <1>1, <1>2, <1>3, <1>4, <1>5, <1>6, <1>7, <1>8, <1>9 DEF Next, ThreadStep

LEMMA OneCardAlways == Spec => []OneCard
  <1>1. Init => OneCard
    BY DEF Init, OneCard, Running, Started
  <1>2. TypeOK /\ OneCard /\ [Next]_vars => OneCard'
    BY WhatStarts DEF OneCard
  <1> QED
    BY <1>1, <1>2, TypeCorrect, PTL DEF Spec

\* However many listeners and runners race, one card at most is started (queue.py: claim_next).
THEOREM OneRuns == Spec => []OneStarted
  <1>1. ASSUME OneCard PROVE OneStarted
    <2>1. CASE Running = {}
      BY <2>1, FS_EmptySet DEF OneStarted
    <2>2. CASE Running # {}
      <3>1. PICK i \in Running : Running = {i}
        BY <1>1, <2>2 DEF OneCard
      <3>2. Cardinality(Running) = 1
        BY <3>1, FS_Singleton
      <3> QED
        BY <3>2 DEF OneStarted
    <2> QED
      BY <2>1, <2>2
  <1> QED
    BY <1>1, OneCardAlways, PTL
------------------------------------------------------------------------------
(* A change is worked on once, whatever threads cross *)

\* A card that was claimed, whatever it reads now.
Claimed == Started \cup Ended
OfItem(s) == start[s].item \in Item

\* A change at the door was claimed and not yet worked on, and is at one door; one that was ever worked on,
\* refused or lost was claimed, and so was the one that has the video.
DoorIsNew == \A s \in Slot : OfItem(s) => status[start[s].item] \in Claimed /\ work[start[s].item] = "none"
DoorsApart == \A s, t \in Slot : OfItem(s) /\ start[s].item = start[t].item => s = t
DoorHasItem == \A s \in Slot : start[s].pc = "door" => OfItem(s)
WorkedIsClaimed == \A i \in Item : work[i] # "none" => status[i] \in Claimed
LockIsWorked == lock.by \in Item => work[lock.by] # "none"

OnceInv == DoorHasItem /\ DoorIsNew /\ DoorsApart /\ WorkedIsClaimed /\ LockIsWorked

\* The change that gets the video is one nobody worked on before, and was claimed.
GetsItOnce == \A i \in Item : lock'.by = i /\ lock.by # i => work[i] = "none" /\ status[i] \in Claimed

\* A card that was claimed is never queued or removed again.
LEMMA ClaimedStays ==
    ASSUME TypeOK, [Next]_vars, NEW i \in Item, status[i] \in Claimed
    PROVE  status'[i] \in Claimed
  <1>t. CardsOK /\ LineOK /\ ThreadsOK
    BY TypeParts
  <1>1. CASE UserStep
    BY <1>1, <1>t DEF UserStep, Add, RemoveQueued, Reorder, Clear, RunNext, Click, StopGate, HoldTurn, CarryOn, queue,
       Claimed, Started, Ended, CardsOK
  <1>2. CASE WorkStep
    BY <1>2 DEF WorkStep, Begin, Refuse, End, Ask, AskForGo, queue
  <1>3. ASSUME NEW s \in Slot, StartClaim(s) PROVE status'[i] \in Claimed
    BY <1>3, <1>t DEF StartClaim, CardsOK, Claimed, Started
  <1>4. ASSUME NEW s \in Slot, TellFinish(s) PROVE status'[i] \in Claimed
    <2>1. tell[s].outcome \in Claimed
      BY <1>t DEF ThreadsOK, Tells, Outcomes, Claimed, Ended
    <2> QED
      BY <1>4, <1>t, <2>1 DEF TellFinish, CardsOK
  <1>5. ASSUME NEW s \in Slot, StartRefused(s) PROVE status'[i] \in Claimed
    BY <1>5, <1>t DEF StartRefused, CardsOK, Claimed, Ended
  <1>6. ASSUME NEW s \in Slot, TellRead(s) \/ TellNext(s) \/ StartLook(s) \/ StartTake(s) \/ StartBreaks(s)
        PROVE  status'[i] \in Claimed
    BY <1>6 DEF TellRead, TellNext, StartLook, StartTake, StartBreaks, queue
  <1>7. CASE AddLook \/ Crash \/ UNCHANGED vars
    BY <1>7 DEF AddLook, Crash, vars, queue
  <1>8. CASE Restart
    BY <1>8, <1>t DEF Restart, Claimed, Ended, CardsOK
  <1> QED
    BY <1>1, <1>2, <1>3, <1>4, <1>5, <1>6, <1>7, <1>8 DEF Next, ThreadStep

\* Steps in which no runner moves and the video goes to no change of the queue.
LEMMA RunnersStand ==
    ASSUME TypeOK, OnceInv, [Next]_vars, start' = start, lock'.by = lock.by \/ lock'.by \notin Item,
           \A i \in Item : work'[i] = work[i] \/ (i = lock.by /\ work'[i] # "none")
    PROVE  OnceInv' /\ GetsItOnce
  <1>1. \A i \in Item : work'[i] = "none" <=> work[i] = "none"
    BY DEF OnceInv, LockIsWorked
  <1>2. DoorHasItem' /\ DoorIsNew' /\ DoorsApart'
    BY <1>1, ClaimedStays DEF OnceInv, DoorHasItem, DoorIsNew, DoorsApart, OfItem
  <1>3. WorkedIsClaimed' /\ LockIsWorked'
    BY <1>1, ClaimedStays DEF OnceInv, WorkedIsClaimed, LockIsWorked
  <1> QED
    BY <1>2, <1>3 DEF OnceInv, GetsItOnce

LEMMA UserOnce == ASSUME TypeOK, OnceInv, UserStep PROVE OnceInv' /\ GetsItOnce
  <1>t. CardsOK
    BY TypeParts
  <1>n. [Next]_vars
    BY DEF Next
  <1>1. CASE (\E i \in Item : Add(i) \/ RemoveQueued(i)) \/ Reorder \/ Clear \/ RunNext \/ HoldTurn \/ CarryOn
    <2>1. start' = start /\ work' = work /\ lock'.by = lock.by
      <3>1. CASE HoldTurn \/ CarryOn
        BY <3>1, TypeParts DEF HoldTurn, CarryOn, threads, RestOK, Holds
      <3>2. CASE (\E i \in Item : Add(i) \/ RemoveQueued(i)) \/ Reorder \/ Clear \/ RunNext
        BY <3>2 DEF Add, RemoveQueued, Reorder, Clear, RunNext, threads
      <3> QED
        BY <1>1, <3>1, <3>2
    <2> QED
      BY <1>n, <2>1, RunnersStand
  <1>2. CASE (\E who \in Direct : Click(who)) \/ StopGate
    <2>1. lock'.by \notin Item
      BY <1>2, QueueAssumption DEF Click, StopGate, LetGo, Direct, Free
    <2>2. start' = start /\ \A i \in Item : work'[i] = work[i] \/ (i = lock.by /\ work'[i] # "none")
      BY <1>2, <1>t DEF Click, StopGate, Becomes, threads, CardsOK
    <2> QED
      BY <1>n, <2>1, <2>2, RunnersStand
  <1> QED
    BY <1>1, <1>2 DEF UserStep

LEMMA WorkOnce == ASSUME TypeOK, OnceInv, WorkStep PROVE OnceInv' /\ GetsItOnce
  <1>t. CardsOK /\ RestOK
    BY TypeParts
  <1>1. start' = start /\ (lock'.by = lock.by \/ lock'.by \notin Item)
    <2>1. CASE Begin \/ AskForGo
      BY <1>t, <2>1 DEF Begin, AskForGo, threads, RestOK, Holds
    <2>2. CASE Refuse \/ Ask \/ \E o \in Outcomes : End(o)
      <3>1. start' = start /\ lock' = Free
        BY <2>2 DEF Refuse, End, Ask, LetGo
      <3> QED
        BY <3>1, QueueAssumption DEF Free
    <2> QED
      BY <2>1, <2>2 DEF WorkStep
  <1>2. \A i \in Item : work'[i] = work[i] \/ (i = lock.by /\ work'[i] # "none")
    BY <1>t DEF WorkStep, Begin, Refuse, End, Ask, AskForGo, Becomes, Outcomes, CardsOK
  <1>3. [Next]_vars
    BY DEF Next
  <1> QED
    BY <1>1, <1>2, <1>3, RunnersStand

LEMMA ThreadOnce == ASSUME TypeOK, OnceInv, NEW s \in Slot, ThreadStep(s) PROVE OnceInv' /\ GetsItOnce
  <1>t. CardsOK /\ ThreadsOK /\ LineOK
    BY TypeParts
  <1>n. [Next]_vars /\ None \notin Item
    BY QueueAssumption DEF Next
  <1>p. DoorHasItem /\ DoorIsNew /\ DoorsApart /\ WorkedIsClaimed /\ LockIsWorked
    BY DEF OnceInv
  <1>b. start[s] \in Starts /\ \A t \in Slot : t # s => start'[t] = start[t]
    BY <1>t DEF ThreadStep, TellRead, TellFinish, TellNext, StartLook, StartClaim, StartTake, StartRefused, StartBreaks,
       Start, ThreadsOK
  <1>1. CASE TellRead(s) \/ TellFinish(s) \/ TellNext(s)
    <2>1. start' = start /\ work' = work /\ lock' = lock
      BY <1>1 DEF TellRead, TellFinish, TellNext
    <2> QED
      BY <1>n, <2>1, RunnersStand
  \* A runner that looks, or finds nothing to claim, has no change.
  <1>2. ASSUME start'[s].item \notin Item, start'[s].pc # "door", work' = work, lock' = lock PROVE OnceInv' /\ GetsItOnce
    <2>1. DoorHasItem' /\ DoorIsNew' /\ DoorsApart'
      BY <1>2, <1>b, <1>n, <1>p, ClaimedStays DEF DoorHasItem, DoorIsNew, DoorsApart, OfItem
    <2>2. WorkedIsClaimed' /\ LockIsWorked'
      BY <1>2, <1>n, <1>p, ClaimedStays DEF WorkedIsClaimed, LockIsWorked
    <2> QED
      BY <1>2, <2>1, <2>2 DEF OnceInv, GetsItOnce
  <1>3. CASE StartLook(s)
    BY <1>2, <1>3, <1>t, <1>n DEF StartLook, Start, QuietStart, ThreadsOK
  <1>4. CASE StartClaim(s) /\ (Running # {} \/ line = <<>>)
    BY <1>2, <1>4, <1>t, <1>n DEF StartClaim, Start, QuietStart, ThreadsOK
  <1>5. CASE StartClaim(s) /\ ~(Running # {} \/ line = <<>>)
    <2>1. PICK i \in Item : i = Head(line) /\ status[i] = "queued"
      BY <1>t, <1>5, TailLine DEF LineOK, Queued
    <2>2. start'[s] = [pc |-> "door", item |-> i] /\ status'[i] = "running" /\ work' = work /\ lock' = lock
      BY <1>5, <1>t, <2>1 DEF StartClaim, Start, ThreadsOK, CardsOK
    <2>3. work[i] = "none" /\ \A t \in Slot : start[t].item # i
      BY <1>p, <2>1 DEF WorkedIsClaimed, DoorIsNew, OfItem, Claimed, Started, Ended
    <2>4. DoorHasItem' /\ DoorIsNew' /\ DoorsApart'
      BY <1>b, <1>n, <1>p, <2>2, <2>3, ClaimedStays DEF DoorHasItem, DoorIsNew, DoorsApart, OfItem, Claimed, Started
    <2>5. WorkedIsClaimed' /\ LockIsWorked'
      BY <1>n, <1>p, <2>2, ClaimedStays DEF WorkedIsClaimed, LockIsWorked
    <2> QED
      BY <2>2, <2>4, <2>5 DEF OnceInv, GetsItOnce
  \* A runner that leaves its door, with what becomes of its change.
  <1>6. ASSUME StartTake(s) \/ StartRefused(s) \/ StartBreaks(s) PROVE OnceInv' /\ GetsItOnce
    <2>1. PICK i \in Item : i = start[s].item
      BY <1>6, <1>p DEF StartTake, StartRefused, StartBreaks, DoorHasItem, OfItem
    <2>2. status[i] \in Claimed /\ work[i] = "none" /\ \A t \in Slot : start[t].item = i => t = s
      BY <1>p, <2>1 DEF DoorIsNew, DoorsApart, OfItem
    <2>3. start'[s].item = None /\ start'[s].pc = "idle"
      BY <1>6, <1>t DEF StartTake, StartRefused, StartBreaks, Start, QuietStart, ThreadsOK
    <2>4. work'[i] # "none" /\ \A j \in Item : j # i => work'[j] = work[j]
      BY <1>6, <1>t, <2>1 DEF StartTake, StartRefused, StartBreaks, CardsOK
    <2>5. lock'.by = i \/ lock' = lock
      BY <1>6, <2>1 DEF StartTake, StartRefused, StartBreaks
    <2>6. DoorHasItem' /\ DoorIsNew' /\ DoorsApart'
      BY <1>b, <1>n, <1>p, <2>2, <2>3, <2>4, ClaimedStays DEF DoorHasItem, DoorIsNew, DoorsApart, OfItem
    <2>7. WorkedIsClaimed' /\ LockIsWorked'
      BY <1>n, <1>p, <2>2, <2>4, <2>5, ClaimedStays DEF WorkedIsClaimed, LockIsWorked
    <2> QED
      BY <2>2, <2>5, <2>6, <2>7 DEF OnceInv, GetsItOnce
  <1> QED
    BY <1>1, <1>3, <1>4, <1>5, <1>6 DEF ThreadStep

LEMMA ServerOnce ==
    ASSUME TypeOK, OnceInv, AddLook \/ Crash \/ Restart \/ UNCHANGED vars
    PROVE  OnceInv' /\ GetsItOnce
  <1>n. [Next]_vars
    BY DEF Next
  <1>1. CASE AddLook \/ UNCHANGED vars
    BY <1>1, <1>n, RunnersStand DEF AddLook, vars, threads
  <1>2. CASE Restart
    <2>1. lock'.by = lock.by \/ lock'.by \notin Item
      BY <1>2, QueueAssumption DEF Restart, Free
    <2> QED
      BY <1>2, <1>n, <2>1, RunnersStand DEF Restart, threads
  <1>3. CASE Crash
    <2>1. lock' = lock /\ \A s \in Slot : start'[s].item = None /\ start'[s].pc = "idle"
      BY <1>3 DEF Crash, QuietStart
    <2>2. DoorHasItem' /\ DoorIsNew' /\ DoorsApart'
      BY <2>1, QueueAssumption DEF DoorHasItem, DoorIsNew, DoorsApart, OfItem
    <2>3. \A i \in Item : work'[i] = IF work[i] = "on" \/ (\E s \in Slot : start[s].item = i) THEN "lost" ELSE work[i]
      BY <1>3 DEF Crash
    <2>4. WorkedIsClaimed'
      <3> SUFFICES ASSUME NEW i \in Item, work'[i] # "none" PROVE status'[i] \in Claimed
        BY DEF WorkedIsClaimed
      <3>1. status[i] \in Claimed
        BY <2>3 DEF OnceInv, WorkedIsClaimed, DoorIsNew, OfItem
      <3> QED
        BY <1>n, <3>1, ClaimedStays
    <2>5. LockIsWorked'
      BY <2>1, <2>3 DEF OnceInv, LockIsWorked
    <2> QED
      BY <2>1, <2>2, <2>4, <2>5 DEF OnceInv, GetsItOnce
  <1> QED
    BY <1>1, <1>2, <1>3

LEMMA OnceNext == TypeOK /\ OnceInv /\ [Next]_vars => OnceInv' /\ GetsItOnce
  BY UserOnce, WorkOnce, ThreadOnce, ServerOnce DEF Next

\* However listeners and runners cross, whatever they raise and wherever crashes fall, a change gets the video
\* once at most: one that ran, was refused at the door or was lost is never started again, and one that was
\* removed (queue.py: remove, "only what is still queued"), or that nobody claimed, never at all.
THEOREM RunsOnce == Spec => [][GetsItOnce]_vars
  <1>1. Init => OnceInv
    <2> SUFFICES ASSUME Init PROVE OnceInv
      OBVIOUS
    <2>1. None \notin Item /\ lock = Free /\ \A s \in Slot : start[s] = QuietStart
      BY QueueAssumption DEF Init
    <2> QED
      BY <2>1 DEF Init, OnceInv, DoorHasItem, DoorIsNew, DoorsApart, OfItem, WorkedIsClaimed, LockIsWorked, QuietStart, Free
  <1>2. TypeOK /\ OnceInv /\ [Next]_vars => OnceInv' /\ [GetsItOnce]_vars
    BY OnceNext
  <1> QED
    BY <1>1, <1>2, TypeCorrect, PTL DEF Spec
------------------------------------------------------------------------------
(* A paused queue *)

\* The runners that looked, and have not claimed yet.
Lookers == {s \in Slot : start[s].pc = "claim"}

\* What a paused queue may still start: a runner that looked before claims one card, when none is started.
PausedStep ==
    /\ Lookers' \subseteq Lookers
    /\ \A i \in Item : status[i] = "queued" /\ status'[i] = "running"
                          => Lookers' # Lookers /\ Running = {} /\ Running' = {i}

\* However threads cross, no runner comes past its look at a paused queue (_run_next), and each of those that
\* were past it claims one card at most, with no other started: a failure or a Stop is followed by no more starts
\* than there were such runners.
THEOREM PausedStartsFew == Spec => [][paused => PausedStep]_vars
  <1>1. ASSUME TypeOK, [Next]_vars, paused PROVE PausedStep
    <2>t. ThreadsOK /\ CardsOK
      BY <1>1, TypeParts
    <2>1. Lookers' \subseteq Lookers
      <3>1. ASSUME NEW s \in Slot, ThreadStep(s) PROVE Lookers' \subseteq Lookers
        <4>1. start'[s].pc = "claim" => start[s].pc = "claim"
          <5>1. CASE StartLook(s)
            BY <1>1, <2>t, <5>1 DEF StartLook, Start, QuietStart, ThreadsOK
          <5>2. CASE StartClaim(s) \/ StartTake(s) \/ StartRefused(s) \/ StartBreaks(s)
            <6>1. start'[s].pc \in {"idle", "door"}
              BY <2>t, <5>2 DEF StartClaim, StartTake, StartRefused, StartBreaks, Start, QuietStart, ThreadsOK
            <6> QED
              BY <6>1
          <5>3. CASE TellRead(s) \/ TellFinish(s) \/ TellNext(s)
            BY <5>3 DEF TellRead, TellFinish, TellNext
          <5> QED
            BY <3>1, <5>1, <5>2, <5>3 DEF ThreadStep
        <4>2. \A t \in Slot : t # s => start'[t] = start[t]
          BY <2>t, <3>1 DEF ThreadStep, TellRead, TellFinish, TellNext, StartLook, StartClaim, StartTake, StartRefused,
             StartBreaks, Start, ThreadsOK
        <4> QED
          BY <4>1, <4>2 DEF Lookers
      <3>2. CASE UserStep \/ WorkStep
        BY <3>2 DEF UserStep, Add, RemoveQueued, Reorder, Clear, RunNext, Click, StopGate, HoldTurn, CarryOn, WorkStep,
           Begin, Refuse, End, Ask, AskForGo, threads, Lookers
      <3>3. CASE AddLook \/ Crash \/ Restart \/ UNCHANGED vars
        BY <3>3 DEF AddLook, Crash, Restart, vars, threads, QuietStart, Lookers
      <3> QED
        BY <1>1, <3>1, <3>2, <3>3 DEF Next
    <2>2. ASSUME NEW i \in Item, status[i] = "queued", status'[i] = "running"
          PROVE  Lookers' # Lookers /\ Running = {} /\ Running' = {i}
      <3>1. i \notin Running /\ i \in Running'
        BY <2>2 DEF Running, Started
      <3>2. PICK s \in Slot : StartClaim(s) /\ Running = {} /\ Running' = {i}
        BY <1>1, <3>1, WhatStarts
      <3>3. s \in Lookers /\ s \notin Lookers'
        BY <2>t, <3>2 DEF StartClaim, Start, QuietStart, ThreadsOK, Lookers
      <3> QED
        BY <3>2, <3>3
    <2> QED
      BY <2>1, <2>2 DEF PausedStep
  <1>2. TypeOK /\ [Next]_vars => [paused => PausedStep]_vars
    BY <1>1
  <1> QED
    BY <1>2, TypeCorrect, PTL DEF Spec
==============================================================================
