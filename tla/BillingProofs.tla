--------------------------- MODULE BillingProofs ---------------------------
(***************************************************************************)
(* The theorems about Billing, for any plans and prices, checkouts,        *)
(* requests at a time and calendar: its types, that a payment is granted   *)
(* once, that a refund is whole and happens once, that the balance is      *)
(* exact, how far work may go past the credits, and that to pay from what  *)
(* lapses first loses the least.                                           *)
(*                                                                         *)
(* CreditBalance comes first, for any rows `gs` and ledger `us`: totals,   *)
(* taking from the grants, a round, the rounds at any points, that the     *)
(* points the code chooses are enough.  Then Billing: its types, payments  *)
(* and refunds, and the balance of its account.  What is left from one     *)
(* month and one row to the next, and the comparison with every other way  *)
(* to pay, stand before the theorem they are for.                          *)
(***************************************************************************)
EXTENDS Billing, FiniteSets, FiniteSetTheorems, WellFoundedInduction, TLAPS

\* Counting up from 0 reaches every number.
LEMMA Counting ==
    ASSUME NEW G, 0 \in G, \A n \in Nat : n \in G => n + 1 \in G
    PROVE  Nat \subseteq G
  <1> SUFFICES ASSUME Nat \ G # {} PROVE FALSE
    OBVIOUS
  <1>1. PICK x \in Nat \ G : \A y \in Nat \ G : <<y, x>> \notin OpToRel(<, Nat)
    BY WFMin, NatLessThanWellFounded, Zenon
  <1>2. x # 0
    BY Zenon
  <1>3. x \in Nat /\ x - 1 \in Nat /\ x - 1 < x /\ (x - 1) + 1 = x
    BY <1>2
  <1>4. <<x - 1, x>> \in OpToRel(<, Nat)
    BY <1>3, Zenon DEF OpToRel
  <1>5. x - 1 \in G
    BY <1>1, <1>3, <1>4, Zenon
  <1> QED
    BY <1>3, <1>5, Zenon

\* What holds of no element, and of one more when it holds of some, holds of a finite set.
LEMMA Gathering ==
    ASSUME NEW U, IsFiniteSet(U), NEW G, {} \in G,
           \A T \in SUBSET U : \A x \in U \ T : T \in G => T \cup {x} \in G
    PROVE  \A T \in SUBSET U : T \in G
  <1> DEFINE H == {n \in Nat : \A T \in SUBSET U : Cardinality(T) <= n => T \in G}
  <1>f. ASSUME NEW T \in SUBSET U
        PROVE  /\ IsFiniteSet(T) /\ Cardinality(T) \in Nat /\ (Cardinality(T) = 0 => T = {})
               /\ \A x \in T : Cardinality(T \ {x}) = Cardinality(T) - 1
    <2>1. IsFiniteSet(T)
      BY FS_Subset
    <2> QED
      BY <2>1, FS_CardinalityType, FS_EmptySet, FS_RemoveElement
  <1>1. 0 \in H
    <2>1. ASSUME NEW T \in SUBSET U, Cardinality(T) <= 0 PROVE T = {}
      BY <1>f, <2>1
    <2> QED
      BY <2>1
  <1>2. ASSUME NEW n \in Nat, n \in H PROVE n + 1 \in H
    <2>1. ASSUME NEW T \in SUBSET U, Cardinality(T) <= n + 1, T # {} PROVE T \in G
      <3>1. PICK x : x \in T
        BY <2>1
      <3>2. T \ {x} \in SUBSET U /\ Cardinality(T \ {x}) <= n
        BY <1>f, <2>1, <3>1
      <3>3. T \ {x} \in G /\ x \in U \ (T \ {x}) /\ (T \ {x}) \cup {x} = T
        BY <1>2, <3>1, <3>2
      <3> QED
        BY <3>2, <3>3
    <2> QED
      BY <2>1
  <1>3. Nat \subseteq H
    <2> HIDE DEF H
    <2> QED
      BY <1>1, <1>2, Counting
  <1>4. ASSUME NEW T \in SUBSET U PROVE T \in G
    <2>1. Cardinality(T) \in H
      BY <1>3, <1>f
    <2> QED
      BY <2>1, <1>f
  <1> QED
    BY <1>4
------------------------------------------------------------------------------
(* Totals. *)

Any(s) == CHOOSE x \in s : TRUE
Sums(S, f, g) == [s \in SUBSET S |-> IF s = {} THEN 0 ELSE f[Any(s)] + g[s \ {Any(s)}]]

LEMMA AnyIn == ASSUME NEW s, s # {} PROVE Any(s) \in s
  BY DEF Any

LEMMA TotalIs == ASSUME NEW S, NEW f PROVE Total(S, f) = (CHOOSE g : g = Sums(S, f, g))[S]
  BY DEF Total, MapThenSumSet, MapThenFoldSet, Sums, Any

LEMMA SizesOf ==
    ASSUME NEW U, IsFiniteSet(U), NEW T \in SUBSET U
    PROVE  /\ IsFiniteSet(T) /\ Cardinality(T) \in Nat /\ (Cardinality(T) = 0 <=> T = {})
           /\ \A x \in T : Cardinality(T \ {x}) = Cardinality(T) - 1
  <1>1. IsFiniteSet(T)
    BY FS_Subset
  <1> QED
    BY <1>1, FS_CardinalityType, FS_EmptySet, FS_RemoveElement

\* There is such a sum.
LEMMA SumsExist ==
    ASSUME NEW S, IsFiniteSet(S), NEW f
    PROVE  \E g : g = Sums(S, f, g)
  <1> DEFINE Upto(g, n) == g = [s \in SUBSET S |-> g[s]] /\ \A s \in SUBSET S : Cardinality(s) <= n => g[s] = Sums(S, f, g)[s]
             H == {n \in Nat : \E g : Upto(g, n)}
  <1>1. 0 \in H
    <2> DEFINE g == [s \in SUBSET S |-> 0]
    <2>1. ASSUME NEW s \in SUBSET S, Cardinality(s) <= 0 PROVE g[s] = Sums(S, f, g)[s]
      <3>1. s = {}
        BY <2>1, SizesOf
      <3> QED
        BY <3>1 DEF Sums
    <2>2. Upto(g, 0)
      BY <2>1
    <2> QED
      BY <2>2
  <1>2. ASSUME NEW n \in Nat, n \in H PROVE n + 1 \in H
    <2>1. PICK g : Upto(g, n)
      BY <1>2
    <2> DEFINE k == [s \in SUBSET S |-> IF Cardinality(s) <= n THEN g[s] ELSE Sums(S, f, g)[s]]
    <2>2. ASSUME NEW s \in SUBSET S, Cardinality(s) <= n + 1 PROVE k[s] = Sums(S, f, k)[s]
      <3>1. k[s] = Sums(S, f, g)[s]
        BY <2>1
      <3>2. Sums(S, f, k)[s] = Sums(S, f, g)[s]
        <4>1. CASE s = {}
          BY <4>1 DEF Sums
        <4>2. CASE s # {}
          <5>1. Any(s) \in s
            BY <4>2, AnyIn
          <5>2. s \ {Any(s)} \in SUBSET S /\ Cardinality(s \ {Any(s)}) <= n
            BY <2>2, <5>1, SizesOf
          <5>3. k[s \ {Any(s)}] = g[s \ {Any(s)}]
            BY <5>2
          <5> HIDE DEF k
          <5> QED
            BY <4>2, <5>3 DEF Sums
        <4> QED
          BY <4>1, <4>2
      <3> QED
        BY <3>1, <3>2
    <2>3. k = [s \in SUBSET S |-> k[s]]
      OBVIOUS
    <2> HIDE DEF k
    <2>4. Upto(k, n + 1)
      BY <2>2, <2>3
    <2> HIDE DEF Upto
    <2>5. \E h : Upto(h, n + 1)
      BY <2>4
    <2> QED
      BY <2>5
  <1>3. Cardinality(S) \in H
    <2> HIDE DEF H
    <2>1. Nat \subseteq H
      BY <1>1, <1>2, Counting
    <2> QED
      BY <2>1, FS_CardinalityType
  <1>4. PICK g : Upto(g, Cardinality(S))
    BY <1>3
  <1>5. ASSUME NEW s \in SUBSET S PROVE g[s] = Sums(S, f, g)[s]
    <2>1. Cardinality(s) <= Cardinality(S)
      BY FS_Subset
    <2> QED
      BY <1>4, <2>1
  <1>6. g = [s \in SUBSET S |-> Sums(S, f, g)[s]]
    BY <1>4, <1>5
  <1> QED
    BY <1>6 DEF Sums

\* It is the total of every part.
LEMMA SumsAreTotals ==
    ASSUME NEW S, IsFiniteSet(S), NEW f, NEW g, g = Sums(S, f, g)
    PROVE  \A T \in SUBSET S : Total(T, f) = g[T]
  <1> SUFFICES ASSUME NEW T \in SUBSET S PROVE Total(T, f) = g[T]
    OBVIOUS
  <1>1. PICK k : Total(T, f) = k[T] /\ k = Sums(T, f, k)
    <2>1. IsFiniteSet(T)
      BY FS_Subset
    <2>2. \E h : h = Sums(T, f, h)
      BY <2>1, SumsExist
    <2>3. (CHOOSE h : h = Sums(T, f, h)) = Sums(T, f, CHOOSE h : h = Sums(T, f, h))
      BY <2>2
    <2> QED
      BY <2>3, TotalIs
  <1> DEFINE H == {n \in Nat : \A s \in SUBSET T : Cardinality(s) <= n => k[s] = g[s]}
  <1>f. ASSUME NEW s \in SUBSET T
        PROVE  /\ s \in SUBSET S /\ Cardinality(s) \in Nat /\ (Cardinality(s) = 0 => s = {})
               /\ \A x \in s : Cardinality(s \ {x}) = Cardinality(s) - 1
    BY SizesOf
  <1>v. ASSUME NEW s \in SUBSET T
        PROVE  /\ k[s] = IF s = {} THEN 0 ELSE f[Any(s)] + k[s \ {Any(s)}]
               /\ g[s] = IF s = {} THEN 0 ELSE f[Any(s)] + g[s \ {Any(s)}]
    <2>1. k[s] = Sums(T, f, k)[s] /\ g[s] = Sums(S, f, g)[s]
      BY <1>1
    <2>2. Sums(T, f, k)[s] = IF s = {} THEN 0 ELSE f[Any(s)] + k[s \ {Any(s)}]
      BY DEF Sums
    <2>3. Sums(S, f, g)[s] = IF s = {} THEN 0 ELSE f[Any(s)] + g[s \ {Any(s)}]
      BY DEF Sums
    <2> QED
      BY <2>1, <2>2, <2>3
  <1>2. 0 \in H
    <2>1. ASSUME NEW s \in SUBSET T, Cardinality(s) <= 0 PROVE s = {}
      BY <1>f, <2>1
    <2>2. ASSUME NEW s \in SUBSET T, Cardinality(s) <= 0 PROVE k[s] = g[s]
      BY <2>1, <2>2, <1>v
    <2> QED
      BY <2>2
  <1>3. ASSUME NEW n \in Nat, n \in H PROVE n + 1 \in H
    <2>1. ASSUME NEW s \in SUBSET T, Cardinality(s) <= n + 1 PROVE k[s] = g[s]
      <3>1. CASE s = {}
        BY <3>1, <1>v
      <3>2. CASE s # {}
        <4>1. Any(s) \in s
          BY <3>2, AnyIn
        <4>2. s \ {Any(s)} \in SUBSET T /\ Cardinality(s \ {Any(s)}) <= n
          BY <1>f, <2>1, <4>1
        <4>3. k[s \ {Any(s)}] = g[s \ {Any(s)}]
          BY <1>3, <4>2
        <4> QED
          BY <3>2, <4>3, <1>v
      <3> QED
        BY <3>1, <3>2
    <2> QED
      BY <2>1
  <1>4. Nat \subseteq H
    <2> HIDE DEF H
    <2> QED
      BY <1>2, <1>3, Counting
  <1>5. Cardinality(T) \in H
    BY <1>4, SizesOf
  <1> QED
    BY <1>1, <1>5, <1>f

LEMMA TotalOfNone == ASSUME NEW f PROVE Total({}, f) = 0
  <1>1. IsFiniteSet({})
    BY FS_EmptySet
  <1>2. PICK g : g = Sums({}, f, g)
    BY <1>1, SumsExist
  <1>3. Total({}, f) = g[{}]
    BY <1>1, <1>2, SumsAreTotals
  <1>4. g[{}] = Sums({}, f, g)[{}]
    BY <1>2
  <1> QED
    BY <1>3, <1>4 DEF Sums

\* Taking off any one element.
LEMMA TotalWithout ==
    ASSUME NEW S, IsFiniteSet(S), NEW f, \A x \in S : f[x] \in Int
    PROVE  \A T \in SUBSET S : Total(T, f) \in Int /\ \A x \in T : Total(T, f) = f[x] + Total(T \ {x}, f)
  <1> DEFINE H == {n \in Nat : \A T \in SUBSET S : Cardinality(T) <= n =>
                      Total(T, f) \in Int /\ \A x \in T : Total(T, f) = f[x] + Total(T \ {x}, f)}
  <1>a. ASSUME NEW T \in SUBSET S, T # {} PROVE Total(T, f) = f[Any(T)] + Total(T \ {Any(T)}, f)
    <2>1. PICK g : g = Sums(S, f, g)
      BY SumsExist
    <2>2. Total(T, f) = g[T] /\ Total(T \ {Any(T)}, f) = g[T \ {Any(T)}]
      BY <2>1, SumsAreTotals
    <2>3. g[T] = Sums(S, f, g)[T]
      BY <2>1
    <2>4. Sums(S, f, g)[T] = f[Any(T)] + g[T \ {Any(T)}]
      BY <1>a DEF Sums
    <2> QED
      BY <2>2, <2>3, <2>4
  <1>2. 0 \in H
    <2>1. ASSUME NEW T \in SUBSET S, Cardinality(T) <= 0
          PROVE  Total(T, f) \in Int /\ \A x \in T : Total(T, f) = f[x] + Total(T \ {x}, f)
      <3>1. T = {}
        BY SizesOf, <2>1
      <3> QED
        BY <3>1, TotalOfNone
    <2> QED
      BY <2>1
  <1>3. ASSUME NEW n \in Nat, n \in H PROVE n + 1 \in H
    <2> SUFFICES ASSUME NEW T \in SUBSET S, Cardinality(T) <= n + 1
                 PROVE  Total(T, f) \in Int /\ \A x \in T : Total(T, f) = f[x] + Total(T \ {x}, f)
      OBVIOUS
    <2>1. CASE T = {}
      BY <2>1, TotalOfNone
    <2>2. CASE T # {}
      <3> DEFINE y == Any(T)
      <3>1. y \in T /\ f[y] \in Int
        BY <2>2, AnyIn
      <3>2. Total(T, f) = f[y] + Total(T \ {y}, f)
        BY <1>a, <2>2
      <3> HIDE DEF y
      <3>3. \A x \in T : T \ {x} \in SUBSET S /\ Cardinality(T \ {x}) <= n
        BY SizesOf
      <3>4. \A x \in T : Total(T \ {x}, f) \in Int /\ \A z \in T \ {x} : Total(T \ {x}, f) = f[z] + Total((T \ {x}) \ {z}, f)
        BY <3>3, <1>3
      <3>5. ASSUME NEW x \in T, x # y PROVE Total(T, f) = f[x] + Total(T \ {x}, f)
        <4>1. (T \ {x}) \ {y} = (T \ {y}) \ {x} /\ f[x] \in Int
          OBVIOUS
        <4>2. Total(T \ {x}, f) = f[y] + Total((T \ {x}) \ {y}, f) /\ Total(T \ {y}, f) = f[x] + Total((T \ {y}) \ {x}, f)
          BY <3>1, <3>4, <3>5
        <4>3. Total((T \ {x}) \ {y}, f) \in Int
          <5>1. (T \ {x}) \ {y} \in SUBSET S /\ Cardinality((T \ {x}) \ {y}) <= n
            <6>1. Cardinality((T \ {x}) \ {y}) = Cardinality(T \ {x}) - 1 /\ Cardinality(T \ {x}) \in Nat
              BY <3>1, <3>5, SizesOf
            <6> QED
              BY <6>1, <3>3
          <5> QED
            BY <5>1, <1>3
        <4>4. Total((T \ {y}) \ {x}, f) = Total((T \ {x}) \ {y}, f)
          BY <4>1
        <4> QED
          BY <3>1, <3>2, <4>1, <4>2, <4>3, <4>4
      <3>6. \A x \in T : Total(T, f) = f[x] + Total(T \ {x}, f)
        BY <3>2, <3>5
      <3> QED
        BY <3>1, <3>2, <3>4, <3>6
    <2> QED
      BY <2>1, <2>2
  <1>4. Nat \subseteq H
    <2> HIDE DEF H
    <2> QED
      BY <1>2, <1>3, Counting
  <1>5. ASSUME NEW T \in SUBSET S PROVE Cardinality(T) \in H
    BY <1>4, SizesOf
  <1> QED
    BY <1>5, SizesOf

LEMMA TotalTypes ==
    ASSUME NEW S, IsFiniteSet(S), NEW f, \A x \in S : f[x] \in Int
    PROVE  Total(S, f) \in Int
  <1>1. S \in SUBSET S
    OBVIOUS
  <1> QED
    BY <1>1, TotalWithout

LEMMA TotalMore ==
    ASSUME NEW S, IsFiniteSet(S), NEW f, \A x \in S : f[x] \in Int
    PROVE  \A T \in SUBSET S : \A x \in S \ T :
              Total(T \cup {x}, f) = f[x] + Total(T, f) /\ Total(T, f) \in Int /\ Total(T \cup {x}, f) \in Int
  <1> SUFFICES ASSUME NEW T \in SUBSET S, NEW x \in S \ T
               PROVE  Total(T \cup {x}, f) = f[x] + Total(T, f) /\ Total(T, f) \in Int /\ Total(T \cup {x}, f) \in Int
    BY Zenon
  <1>1. T \cup {x} \in SUBSET S /\ x \in T \cup {x} /\ (T \cup {x}) \ {x} = T
    OBVIOUS
  <1>2. Total(T, f) \in Int /\ Total(T \cup {x}, f) \in Int
    BY <1>1, TotalWithout
  <1>3. Total(T \cup {x}, f) = f[x] + Total((T \cup {x}) \ {x}, f)
    BY <1>1, TotalWithout
  <1> QED
    BY <1>1, <1>2, <1>3

\* The total of a function that is the sum of two; of one that is nowhere negative.
LEMMA TotalOfSum ==
    ASSUME NEW S, IsFiniteSet(S), NEW f, NEW g, NEW h,
           \A x \in S : f[x] \in Int /\ g[x] \in Int /\ h[x] = f[x] + g[x]
    PROVE  Total(S, h) = Total(S, f) + Total(S, g)
  <1> DEFINE G == {T \in SUBSET S : Total(T, h) = Total(T, f) + Total(T, g)}
  <1>1. {} \in G
    BY TotalOfNone
  <1>2. ASSUME NEW T \in SUBSET S, NEW x \in S \ T, T \in G PROVE T \cup {x} \in G
    <2>1. \A y \in S : f[y] \in Int /\ g[y] \in Int /\ h[y] \in Int
      OBVIOUS
    <2>2. Total(T \cup {x}, f) = f[x] + Total(T, f) /\ Total(T, f) \in Int
      BY <2>1, TotalMore, ZenonT(40)
    <2>3. Total(T \cup {x}, g) = g[x] + Total(T, g) /\ Total(T, g) \in Int
      BY <2>1, TotalMore, ZenonT(40)
    <2>4. Total(T \cup {x}, h) = h[x] + Total(T, h)
      BY <2>1, TotalMore
    <2>5. Total(T \cup {x}, h) = Total(T \cup {x}, f) + Total(T \cup {x}, g)
      BY <1>2, <2>1, <2>2, <2>3, <2>4
    <2> QED
      BY <2>5
  <1>3. S \in SUBSET S
    OBVIOUS
  <1>4. S \in G
    <2> HIDE DEF G
    <2> QED
      BY <1>1, <1>2, <1>3, Gathering
  <1> QED
    BY <1>4

LEMMA TotalSame ==
    ASSUME NEW S, IsFiniteSet(S), NEW f, NEW g, \A x \in S : f[x] \in Int /\ f[x] = g[x]
    PROVE  Total(S, f) = Total(S, g)
  <1> DEFINE G == {T \in SUBSET S : Total(T, f) = Total(T, g)}
  <1>1. {} \in G
    BY TotalOfNone
  <1>2. ASSUME NEW T \in SUBSET S, NEW x \in S \ T, T \in G PROVE T \cup {x} \in G
    <2>1. \A y \in S : f[y] \in Int /\ g[y] \in Int
      OBVIOUS
    <2>2. Total(T \cup {x}, f) = f[x] + Total(T, f)
      BY <2>1, TotalMore
    <2>3. Total(T \cup {x}, g) = g[x] + Total(T, g)
      BY <2>1, TotalMore
    <2>4. Total(T \cup {x}, f) = Total(T \cup {x}, g)
      BY <1>2, <2>2, <2>3
    <2> QED
      BY <2>4
  <1>3. S \in SUBSET S
    OBVIOUS
  <1>4. S \in G
    <2> HIDE DEF G
    <2> QED
      BY <1>1, <1>2, <1>3, Gathering
  <1> QED
    BY <1>4

LEMMA TotalAtLeast ==
    ASSUME NEW S, IsFiniteSet(S), NEW f, \A x \in S : f[x] \in Int /\ f[x] >= 0
    PROVE  Total(S, f) \in Int /\ Total(S, f) >= 0
  <1> DEFINE G == {T \in SUBSET S : Total(T, f) >= 0}
  <1>1. {} \in G
    BY TotalOfNone
  <1>2. ASSUME NEW T \in SUBSET S, NEW x \in S \ T, T \in G PROVE T \cup {x} \in G
    <2>1. \A y \in S : f[y] \in Int
      OBVIOUS
    <2>2. Total(T \cup {x}, f) = f[x] + Total(T, f) /\ Total(T, f) \in Int
      BY <2>1, TotalMore
    <2> QED
      BY <1>2, <2>2
  <1>3. S \in SUBSET S
    OBVIOUS
  <1>4. S \in G
    <2> HIDE DEF G
    <2> QED
      BY <1>1, <1>2, <1>3, Gathering
  <1> QED
    BY <1>4, TotalTypes

\* Two parts that share nothing.
LEMMA TotalOfBoth ==
    ASSUME NEW U, IsFiniteSet(U), NEW f, \A x \in U : f[x] \in Int
    PROVE  \A S, T : U = S \cup T /\ S \cap T = {} =>
              Total(U, f) = Total(S, f) + Total(T, f) /\ Total(S, f) \in Int /\ Total(T, f) \in Int
  <1> SUFFICES ASSUME NEW S, NEW T, U = S \cup T, S \cap T = {}
               PROVE  Total(U, f) = Total(S, f) + Total(T, f) /\ Total(S, f) \in Int /\ Total(T, f) \in Int
    BY Zenon
  <1> DEFINE G == {R \in SUBSET T : Total(S \cup R, f) = Total(S, f) + Total(R, f)}
  <1>0. IsFiniteSet(S) /\ IsFiniteSet(T)
    BY FS_Subset
  <1>t. Total(S, f) \in Int /\ Total(T, f) \in Int
    BY <1>0, TotalTypes
  <1>1. {} \in G
    <2>1. S \cup {} = S
      OBVIOUS
    <2> QED
      BY <1>t, <2>1, TotalOfNone
  <1>2. ASSUME NEW R \in SUBSET T, NEW x \in T \ R, R \in G PROVE R \cup {x} \in G
    <2>1. R \in SUBSET U /\ S \cup R \in SUBSET U /\ x \in U \ R /\ x \in U \ (S \cup R) /\ (S \cup R) \cup {x} = S \cup (R \cup {x})
      OBVIOUS
    <2>2. Total(R \cup {x}, f) = f[x] + Total(R, f) /\ Total(R, f) \in Int
      BY <2>1, TotalMore
    <2>3. Total((S \cup R) \cup {x}, f) = f[x] + Total(S \cup R, f)
      BY <2>1, TotalMore
    <2>4. Total(S \cup (R \cup {x}), f) = f[x] + Total(S \cup R, f) /\ f[x] \in Int
      BY <2>1, <2>3, Zenon
    <2>5. Total(S \cup R, f) = Total(S, f) + Total(R, f)
      BY <1>2
    <2>6. Total(S \cup (R \cup {x}), f) = Total(S, f) + Total(R \cup {x}, f)
      BY <1>t, <2>2, <2>4, <2>5
    <2> QED
      BY <2>6
  <1>3. T \in SUBSET T
    OBVIOUS
  <1>4. T \in G
    <2> HIDE DEF G
    <2>1. \A R \in SUBSET T : \A x \in T \ R : R \in G => R \cup {x} \in G
      BY <1>2
    <2>2. \A R \in SUBSET T : R \in G
      BY <1>0, <1>1, <2>1, Gathering, Zenon
    <2> QED
      BY <1>3, <2>2, Zenon
  <1> QED
    BY <1>4, <1>t

\* What is zero outside a part adds up to what it does in the part.
LEMMA TotalOfZero ==
    ASSUME NEW S, IsFiniteSet(S), NEW f, \A x \in S : f[x] = 0
    PROVE  Total(S, f) = 0
  <1>1. \A x \in S : f[x] \in Int /\ f[x] = f[x] + f[x]
    OBVIOUS
  <1>2. Total(S, f) = Total(S, f) + Total(S, f)
    BY <1>1, TotalOfSum
  <1>3. Total(S, f) \in Int
    BY <1>1, TotalTypes
  <1> HIDE <1>1
  <1>4. \A n \in Int : n = n + n => n = 0
    OBVIOUS
  <1> QED
    BY <1>2, <1>3, <1>4, Zenon

LEMMA TotalInPart ==
    ASSUME NEW U, IsFiniteSet(U), NEW f, \A x \in U : f[x] \in Int,
           NEW S \in SUBSET U, \A x \in U \ S : f[x] = 0
    PROVE  Total(U, f) = Total(S, f) /\ Total(S, f) \in Int
  <1>1. PICK R : R = U \ S
    OBVIOUS
  <1>2. U = S \cup R /\ S \cap R = {} /\ \A x \in R : f[x] = 0
    BY <1>1
  <1>3. Total(R, f) = 0
    <2>1. IsFiniteSet(R)
      BY <1>2, FS_Subset
    <2> QED
      BY <1>2, <2>1, TotalOfZero
  <1>a. \A A, B : U = A \cup B /\ A \cap B = {} => Total(U, f) = Total(A, f) + Total(B, f) /\ Total(A, f) \in Int
    BY TotalOfBoth
  <1>b. U = S \cup R
    BY <1>2
  <1>c. S \cap R = {}
    BY <1>2
  <1>4. Total(U, f) = Total(S, f) + Total(R, f) /\ Total(S, f) \in Int
    BY <1>a, <1>b, <1>c, Zenon
  <1> QED
    BY <1>3, <1>4
------------------------------------------------------------------------------
(* Taking. *)

Rows(gs) ==
    /\ Len(gs) \in Nat /\ DOMAIN gs = 1..Len(gs)
    /\ \A i \in DOMAIN gs : gs[i].credits \in Int /\ gs[i].at \in Nat

Standing(gs) == [left : [DOMAIN gs -> Int], active : SUBSET DOMAIN gs, debt : Int, lapsed : Int]
Covered(st) == st.debt >= 0 /\ \A i \in DOMAIN st.left : st.left[i] >= 0
Value(st) == Total(st.active, st.left) - st.debt + st.lapsed

LEMMA LapseTimes ==
    ASSUME NEW gs, Rows(gs)
    PROVE  \A i \in DOMAIN gs : ExpiresAt(gs[i]) \in Nat
  <1> SUFFICES ASSUME NEW i \in DOMAIN gs PROVE ExpiresAt(gs[i]) \in Nat
    OBVIOUS
  <1>1. gs[i].at \in Nat
    BY DEF Rows
  <1>2. ExpiresAt(gs[i]) \in {gs[i].at + 1, gs[i].at + TOPUP_MONTHS, Never}
    BY DEF ExpiresAt
  <1> QED
    BY <1>1, <1>2, TopupAssumption

LEMMA RowNumbers ==
    ASSUME NEW gs, Rows(gs)
    PROVE  IsFiniteSet(DOMAIN gs) /\ (\A i \in DOMAIN gs : i \in Int) /\ \A S \in SUBSET DOMAIN gs : IsFiniteSet(S)
  <1>1. IsFiniteSet(DOMAIN gs)
    BY FS_Interval DEF Rows
  <1> QED
    BY <1>1, FS_Subset DEF Rows

LEMMA StandingParts ==
    ASSUME NEW gs, Rows(gs), NEW st \in Standing(gs)
    PROVE  /\ st.left \in [DOMAIN gs -> Int] /\ st.active \in SUBSET DOMAIN gs /\ st.debt \in Int /\ st.lapsed \in Int
           /\ \A S \in SUBSET DOMAIN gs : Total(S, st.left) \in Int
           /\ Value(st) \in Int
  <1>1. st.left \in [DOMAIN gs -> Int] /\ st.active \in SUBSET DOMAIN gs /\ st.debt \in Int /\ st.lapsed \in Int
    BY DEF Standing
  <1>2. \A i \in DOMAIN gs : st.left[i] \in Int
    BY <1>1
  <1>3. ASSUME NEW S \in SUBSET DOMAIN gs PROVE Total(S, st.left) \in Int
    BY <1>2, RowNumbers, TotalTypes
  <1> QED
    BY <1>1, <1>3 DEF Value

\* The order in which the grants pay is total.
LEMMA SoonerOrders ==
    ASSUME NEW gs, Rows(gs)
    PROVE  \A i, j, k \in DOMAIN gs :
              /\ ~Sooner(gs, i, i) /\ (i = j \/ Sooner(gs, i, j) \/ Sooner(gs, j, i)) /\ ~(Sooner(gs, i, j) /\ Sooner(gs, j, i))
              /\ Sooner(gs, i, j) /\ Sooner(gs, j, k) => Sooner(gs, i, k)
  <1> SUFFICES ASSUME NEW i \in DOMAIN gs, NEW j \in DOMAIN gs, NEW k \in DOMAIN gs
               PROVE  /\ ~Sooner(gs, i, i) /\ (i = j \/ Sooner(gs, i, j) \/ Sooner(gs, j, i)) /\ ~(Sooner(gs, i, j) /\ Sooner(gs, j, i))
                      /\ Sooner(gs, i, j) /\ Sooner(gs, j, k) => Sooner(gs, i, k)
    OBVIOUS
  <1>1. ExpiresAt(gs[i]) \in Int /\ ExpiresAt(gs[j]) \in Int /\ ExpiresAt(gs[k]) \in Int
    BY LapseTimes
  <1>2. i \in Int /\ j \in Int /\ k \in Int
    BY RowNumbers
  <1> QED
    BY <1>1, <1>2 DEF Sooner

\* Some grants have a last one to pay.
LEMMA LastToPay ==
    ASSUME NEW gs, Rows(gs), NEW D \in SUBSET DOMAIN gs, D # {}
    PROVE  \E x \in D : \A y \in D : y = x \/ Sooner(gs, y, x)
  <1> DEFINE Last(T, x) == x \in T /\ \A y \in T : y = x \/ Sooner(gs, y, x)
             G == {T \in SUBSET D : T = {} \/ \E x \in D : Last(T, x)}
  <1>1. {} \in G
    OBVIOUS
  <1>2. ASSUME NEW T \in SUBSET D, NEW z \in D \ T, T \in G PROVE T \cup {z} \in G
    <2>1. CASE T = {}
      <3>1. Last(T \cup {z}, z)
        BY <2>1
      <3> QED
        BY <3>1
    <2>2. CASE T # {}
      <3>1. PICK x \in D : Last(T, x)
        BY <1>2, <2>2
      <3>2. x \in DOMAIN gs /\ z \in DOMAIN gs /\ T \subseteq DOMAIN gs /\ x # z
        BY <3>1
      <3>3. CASE Sooner(gs, x, z)
        <4>1. Last(T \cup {z}, z)
          BY <3>1, <3>2, <3>3, SoonerOrders
        <4> QED
          BY <4>1
      <3>4. CASE Sooner(gs, z, x)
        <4>1. Last(T \cup {z}, x)
          BY <3>1, <3>2, <3>4
        <4> QED
          BY <4>1
      <3> QED
        BY <3>2, <3>3, <3>4, SoonerOrders
    <2> QED
      BY <2>1, <2>2
  <1>3. D \in SUBSET D /\ IsFiniteSet(D)
    BY RowNumbers
  <1>4. D \in G
    <2> HIDE DEF G
    <2>1. \A T \in SUBSET D : T \in G
      BY <1>1, <1>2, <1>3, Gathering
    <2> QED
      BY <1>3, <2>1
  <1> QED
    BY <1>4

Took(gs, st, amount) == [i \in DOMAIN gs |-> TakenFrom(gs, st, i, amount)]

LEMMA TookTypes ==
    ASSUME NEW gs, Rows(gs), NEW st \in Standing(gs), NEW amount \in Int
    PROVE  /\ Took(gs, st, amount) \in [DOMAIN gs -> Int]
           /\ \A i \in DOMAIN gs \ st.active : Took(gs, st, amount)[i] = 0
  <1>1. ASSUME NEW i \in DOMAIN gs PROVE TakenFrom(gs, st, i, amount) \in Int /\ (i \notin st.active => TakenFrom(gs, st, i, amount) = 0)
    <2> DEFINE before == {j \in st.active : Sooner(gs, j, i)}
    <2>1. Total(before, st.left) \in Int /\ st.left[i] \in Int
      BY StandingParts
    <2> QED
      BY <2>1 DEF TakenFrom, Least
  <1> QED
    BY <1>1 DEF Took

\* What Take leaves: the accounts but for what was taken, and the rest as debt.
LEMMA TakeParts ==
    ASSUME NEW gs, Rows(gs), NEW st \in Standing(gs), NEW amount \in Int
    PROVE  LET t == Take(gs, st, amount)
               took == Took(gs, st, amount)
           IN  /\ t \in Standing(gs) /\ t.active = st.active /\ t.lapsed = st.lapsed
               /\ t.left = [i \in DOMAIN gs |-> st.left[i] - took[i]]
               /\ Total(st.active, took) \in Int
               /\ t.debt = st.debt + amount - Total(st.active, took)
  <1> DEFINE t == Take(gs, st, amount)
             took == Took(gs, st, amount)
  <1>1. took \in [DOMAIN gs -> Int] /\ \A i \in DOMAIN gs \ st.active : took[i] = 0
    BY TookTypes
  <1>2. /\ st.left \in [DOMAIN gs -> Int] /\ st.active \in SUBSET DOMAIN gs /\ st.debt \in Int /\ st.lapsed \in Int
        /\ st = [left |-> st.left, active |-> st.active, debt |-> st.debt, lapsed |-> st.lapsed]
    BY DEF Standing
  <1>3. t = [st EXCEPT !.left = [i \in DOMAIN gs |-> st.left[i] - took[i]], !.debt = st.debt + amount - Total(DOMAIN gs, took)]
    BY DEF Take, Took
  <1> HIDE DEF t, took
  <1>4. \A i \in DOMAIN gs : took[i] \in Int
    BY <1>1
  <1>5. Total(DOMAIN gs, took) = Total(st.active, took) /\ Total(st.active, took) \in Int
    BY <1>1, <1>2, <1>4, RowNumbers, TotalInPart
  <1>6. t = [left |-> [i \in DOMAIN gs |-> st.left[i] - took[i]], active |-> st.active,
             debt |-> st.debt + amount - Total(st.active, took), lapsed |-> st.lapsed]
    BY <1>2, <1>3, <1>5
  <1>7. [i \in DOMAIN gs |-> st.left[i] - took[i]] \in [DOMAIN gs -> Int]
    BY <1>2, <1>4
  <1> QED
    BY <1>2, <1>5, <1>6, <1>7 DEF t, took, Standing

\* It lowers what the account is worth by the amount, all of it.
LEMMA TakeValue ==
    ASSUME NEW gs, Rows(gs), NEW st \in Standing(gs), NEW amount \in Int
    PROVE  /\ Take(gs, st, amount) \in Standing(gs) /\ Value(Take(gs, st, amount)) = Value(st) - amount
           /\ Take(gs, st, amount).active = st.active
  <1> DEFINE t == Take(gs, st, amount)
             took == Took(gs, st, amount)
  <1>1. /\ t \in Standing(gs) /\ t.active = st.active /\ t.lapsed = st.lapsed
        /\ t.left = [i \in DOMAIN gs |-> st.left[i] - took[i]]
        /\ Total(st.active, took) \in Int
        /\ t.debt = st.debt + amount - Total(st.active, took)
    BY TakeParts
  <1>2. st.left \in [DOMAIN gs -> Int] /\ took \in [DOMAIN gs -> Int] /\ st.active \in SUBSET DOMAIN gs
    BY StandingParts, TookTypes
  <1> HIDE DEF t, took
  <1>3. \A i \in st.active : t.left[i] \in Int /\ took[i] \in Int /\ st.left[i] = t.left[i] + took[i]
    BY <1>1, <1>2
  <1>4. Total(st.active, st.left) = Total(st.active, t.left) + Total(st.active, took)
    BY <1>2, <1>3, RowNumbers, TotalOfSum
  <1>5. Total(st.active, t.left) \in Int /\ st.debt \in Int /\ st.lapsed \in Int
    BY <1>1, <1>2, StandingParts
  <1>6. Value(t) = Value(st) - amount
    BY <1>1, <1>4, <1>5 DEF Value
  <1> QED
    BY <1>1, <1>6 DEF t

Before(gs, st, i) == {j \in st.active : Sooner(gs, j, i)}
Closed(gs, st, D) == \A i \in D : \A j \in st.active : Sooner(gs, j, i) => j \in D

\* What an active grant gives: what those before it could not.
LEMMA TookOf ==
    ASSUME NEW gs, Rows(gs), NEW st \in Standing(gs), NEW amount \in Nat, NEW i \in st.active
    PROVE  LET rest == amount - Total(Before(gs, st, i), st.left)
           IN  Took(gs, st, amount)[i] = IF rest <= 0 THEN 0 ELSE Least(rest, st.left[i])
  <1>1. i \in DOMAIN gs /\ ~(amount < 0)
    BY StandingParts
  <1>2. Took(gs, st, amount)[i] = TakenFrom(gs, st, i, amount)
    BY <1>1 DEF Took
  <1> QED
    BY <1>1, <1>2 DEF TakenFrom, Before

\* The first grants to pay give the amount, or all they have.
LEMMA FirstGive ==
    ASSUME NEW gs, Rows(gs), NEW st \in Standing(gs), Covered(st), NEW amount \in Nat
    PROVE  \A D \in SUBSET st.active : Closed(gs, st, D) =>
              Total(D, Took(gs, st, amount)) = Least(amount, Total(D, st.left))
  <1> DEFINE took == Took(gs, st, amount)
             Give(D) == Total(D, took) = Least(amount, Total(D, st.left))
             H == {n \in Nat : \A D \in SUBSET st.active : Cardinality(D) <= n /\ Closed(gs, st, D) => Give(D)}
  <1>a. st.active \in SUBSET DOMAIN gs /\ IsFiniteSet(st.active)
    BY StandingParts, RowNumbers
  <1>b. \A i \in st.active : took[i] \in Int /\ st.left[i] \in Int /\ st.left[i] >= 0
    <2>1. took \in [DOMAIN gs -> Int] /\ st.left \in [DOMAIN gs -> Int]
      BY TookTypes, StandingParts
    <2> HIDE DEF took
    <2> QED
      BY <1>a, <2>1 DEF Covered
  <1>e. Give({})
    BY TotalOfNone DEF Least
  <1>1. 0 \in H
    <2>1. ASSUME NEW D \in SUBSET st.active, Cardinality(D) <= 0 PROVE Give(D)
      <3>1. D = {}
        BY <1>a, <2>1, SizesOf
      <3> HIDE DEF Give
      <3> QED
        BY <1>e, <3>1
    <2> QED
      BY <2>1
  <1>2. ASSUME NEW n \in Nat, n \in H PROVE n + 1 \in H
    <2> SUFFICES ASSUME NEW D \in SUBSET st.active, Cardinality(D) <= n + 1, Closed(gs, st, D) PROVE Give(D)
      OBVIOUS
    <2>1. CASE D = {}
      <3> HIDE DEF Give
      <3> QED
        BY <1>e, <2>1
    <2>2. CASE D # {}
      <3>1. PICK x \in D : \A y \in D : y = x \/ Sooner(gs, y, x)
        BY <1>a, <2>2, LastToPay
      <3>2. D \ {x} = Before(gs, st, x)
        <4>1. \A y \in D : y \in DOMAIN gs
          BY <1>a
        <4> QED
          BY <3>1, <4>1, SoonerOrders DEF Before, Closed
      <3>3. D \ {x} \in SUBSET st.active /\ Cardinality(D \ {x}) <= n
        BY <1>a, SizesOf
      <3>4. Closed(gs, st, D \ {x})
        <4>1. \A y \in st.active : y \in DOMAIN gs
          BY <1>a
        <4> QED
          BY <3>1, <4>1, SoonerOrders DEF Closed
      <3>5. Give(D \ {x})
        BY <1>2, <3>3, <3>4
      <3>6. Total(D, took) = took[x] + Total(D \ {x}, took)
        <4> HIDE DEF took
        <4> QED
          BY <1>a, <1>b, TotalWithout
      <3>7. Total(D, st.left) = st.left[x] + Total(D \ {x}, st.left) /\ Total(D \ {x}, st.left) \in Int
        BY <1>a, <1>b, <3>3, TotalWithout
      <3>8. took[x] = IF amount - Total(D \ {x}, st.left) <= 0 THEN 0 ELSE Least(amount - Total(D \ {x}, st.left), st.left[x])
        <4>1. took[x] = IF amount - Total(Before(gs, st, x), st.left) <= 0 THEN 0
                        ELSE Least(amount - Total(Before(gs, st, x), st.left), st.left[x])
          BY TookOf
        <4> HIDE DEF took
        <4> QED
          BY <3>2, <4>1, Zenon
      <3>9. st.left[x] \in Int /\ st.left[x] >= 0
        BY <1>b
      <3> HIDE DEF took
      <3> QED
        BY <3>5, <3>6, <3>7, <3>8, <3>9 DEF Least
    <2> QED
      BY <2>1, <2>2
  <1>3. Nat \subseteq H
    <2> HIDE DEF H
    <2> QED
      BY <1>1, <1>2, Counting
  <1>4. ASSUME NEW D \in SUBSET st.active, Closed(gs, st, D) PROVE Give(D)
    <2>1. Cardinality(D) \in Nat
      BY <1>a, SizesOf
    <2>2. Cardinality(D) \in H /\ Cardinality(D) <= Cardinality(D)
      <3> HIDE DEF H
      <3> QED
        BY <1>3, <2>1
    <2> HIDE DEF Give
    <2> QED
      BY <1>4, <2>2
  <1> QED
    BY <1>4

\* Taking leaves no grant below zero, and owes what was not there.
LEMMA TakeCovered ==
    ASSUME NEW gs, Rows(gs), NEW st \in Standing(gs), Covered(st), NEW amount \in Nat
    PROVE  Covered(Take(gs, st, amount))
  <1> DEFINE t == Take(gs, st, amount)
             took == Took(gs, st, amount)
  <1>1. /\ t \in Standing(gs) /\ t.left = [i \in DOMAIN gs |-> st.left[i] - took[i]]
        /\ Total(st.active, took) \in Int /\ t.debt = st.debt + amount - Total(st.active, took)
    BY TakeParts
  <1>2. /\ st.left \in [DOMAIN gs -> Int] /\ took \in [DOMAIN gs -> Int] /\ st.active \in SUBSET DOMAIN gs
        /\ st.debt \in Int /\ Total(st.active, st.left) \in Int
    <2>1. took \in [DOMAIN gs -> Int]
      BY TookTypes
    <2> HIDE DEF took
    <2> QED
      BY <2>1, StandingParts
  <1>3. Total(st.active, took) = Least(amount, Total(st.active, st.left))
    <2>1. st.active \in SUBSET st.active /\ Closed(gs, st, st.active)
      BY DEF Closed
    <2> QED
      BY <2>1, FirstGive
  <1>4. ASSUME NEW i \in DOMAIN gs PROVE t.left[i] >= 0
    <2>1. st.left[i] \in Int /\ st.left[i] >= 0
      BY <1>2 DEF Covered
    <2>2. CASE i \in st.active
      <3>1. Total(Before(gs, st, i), st.left) \in Int
        BY StandingParts DEF Before
      <3>2. took[i] <= st.left[i]
        BY <2>1, <2>2, <3>1, TookOf DEF Least
      <3> HIDE DEF t, took
      <3> QED
        BY <1>1, <1>2, <2>1, <3>2
    <2>3. CASE i \notin st.active
      <3>1. took[i] = 0
        BY <2>3, TookTypes
      <3> HIDE DEF t, took
      <3> QED
        BY <1>1, <2>1, <3>1
    <2> QED
      BY <2>2, <2>3
  <1> HIDE DEF t, took
  <1>5. DOMAIN t.left = DOMAIN gs
    BY <1>1
  <1>6. t.debt >= 0
    <2>1. Total(st.active, took) <= amount
      BY <1>2, <1>3 DEF Least
    <2> QED
      BY <1>1, <1>2, <2>1 DEF Covered
  <1>7. Covered(t)
    BY <1>4, <1>5, <1>6 DEF Covered
  <1> QED
    BY <1>7 DEF t

LEMMA StandingSame ==
    ASSUME NEW gs, NEW s \in Standing(gs), NEW t \in Standing(gs),
           s.active = t.active, s.lapsed = t.lapsed, s.debt = t.debt, \A i \in DOMAIN gs : s.left[i] = t.left[i]
    PROVE  s = t
  <1>1. s.left \in [DOMAIN gs -> Int] /\ t.left \in [DOMAIN gs -> Int]
    BY DEF Standing
  <1>2. s.left = t.left
    BY <1>1
  <1>3. /\ s = [left |-> s.left, active |-> s.active, debt |-> s.debt, lapsed |-> s.lapsed]
        /\ t = [left |-> t.left, active |-> t.active, debt |-> t.debt, lapsed |-> t.lapsed]
    BY DEF Standing
  <1> QED
    BY <1>2, <1>3

\* Taking an amount and then another is taking both at once.
LEMMA TakeTwice ==
    ASSUME NEW gs, Rows(gs), NEW st \in Standing(gs), Covered(st), NEW a \in Nat, NEW b \in Nat
    PROVE  Take(gs, Take(gs, st, a), b) = Take(gs, st, a + b)
  <1> DEFINE u == Take(gs, st, a)
             v == Take(gs, u, b)
             w == Take(gs, st, a + b)
             one == Took(gs, st, a)
             two == Took(gs, u, b)
             both == Took(gs, st, a + b)
  <1>1. /\ u \in Standing(gs) /\ u.active = st.active /\ u.lapsed = st.lapsed
        /\ u.left = [i \in DOMAIN gs |-> st.left[i] - one[i]]
        /\ Total(st.active, one) \in Int /\ u.debt = st.debt + a - Total(st.active, one)
    BY TakeParts
  <1>2. /\ v \in Standing(gs) /\ v.active = u.active /\ v.lapsed = u.lapsed
        /\ v.left = [i \in DOMAIN gs |-> u.left[i] - two[i]]
        /\ Total(u.active, two) \in Int /\ v.debt = u.debt + b - Total(u.active, two)
    BY <1>1, TakeParts
  <1>3. /\ w \in Standing(gs) /\ w.active = st.active /\ w.lapsed = st.lapsed
        /\ w.left = [i \in DOMAIN gs |-> st.left[i] - both[i]]
        /\ Total(st.active, both) \in Int /\ w.debt = st.debt + (a + b) - Total(st.active, both)
    <2>1. a + b \in Int
      OBVIOUS
    <2> QED
      BY <2>1, TakeParts
  <1>4. Covered(u)
    BY TakeCovered
  <1>5. /\ one \in [DOMAIN gs -> Int] /\ two \in [DOMAIN gs -> Int] /\ both \in [DOMAIN gs -> Int]
        /\ \A i \in DOMAIN gs \ st.active : one[i] = 0 /\ two[i] = 0 /\ both[i] = 0
    <2>1. one \in [DOMAIN gs -> Int] /\ both \in [DOMAIN gs -> Int] /\ \A i \in DOMAIN gs \ st.active : one[i] = 0 /\ both[i] = 0
      BY TookTypes
    <2>2. two \in [DOMAIN gs -> Int] /\ \A i \in DOMAIN gs \ u.active : two[i] = 0
      BY <1>1, TookTypes
    <2> QED
      BY <1>1, <2>1, <2>2
  <1>6. st.left \in [DOMAIN gs -> Int] /\ st.active \in SUBSET DOMAIN gs /\ st.debt \in Int /\ IsFiniteSet(st.active)
    BY StandingParts, RowNumbers
  <1>7. ASSUME NEW i \in st.active PROVE both[i] = one[i] + two[i]
    <2> DEFINE B == Before(gs, st, i)
    <2>1. B \in SUBSET st.active /\ Closed(gs, st, B) /\ Before(gs, u, i) = B
      <3>1. \A j \in st.active : j \in DOMAIN gs
        BY <1>6
      <3> QED
        BY <1>1, <3>1, SoonerOrders DEF Closed, Before
    <2>2. Total(B, one) = Least(a, Total(B, st.left))
      BY <2>1, FirstGive
    <2>3. one[i] = IF a - Total(B, st.left) <= 0 THEN 0 ELSE Least(a - Total(B, st.left), st.left[i])
      BY TookOf
    <2>4. two[i] = IF b - Total(B, u.left) <= 0 THEN 0 ELSE Least(b - Total(B, u.left), u.left[i])
      BY <1>1, <2>1, TookOf
    <2>5. both[i] = IF (a + b) - Total(B, st.left) <= 0 THEN 0 ELSE Least((a + b) - Total(B, st.left), st.left[i])
      BY TookOf
    <2> HIDE DEF B, u, v, w, one, two, both
    <2>6. Total(B, st.left) = Total(B, u.left) + Total(B, one)
      <3>1. \A j \in B : u.left[j] \in Int /\ one[j] \in Int /\ st.left[j] = u.left[j] + one[j]
        BY <1>1, <1>5, <1>6, <2>1
      <3>2. IsFiniteSet(B)
        BY <1>6, <2>1, FS_Subset
      <3> QED
        BY <3>1, <3>2, TotalOfSum
    <2>7. Total(B, st.left) \in Int /\ Total(B, u.left) \in Int
      BY <1>1, <1>6, <2>1, StandingParts
    <2>8. u.left[i] = st.left[i] - one[i] /\ st.left[i] \in Int /\ st.left[i] >= 0 /\ one[i] \in Int
      BY <1>1, <1>5, <1>6 DEF Covered
    <2>9. Total(B, one) \in Int
      BY <2>2, <2>7 DEF Least
    <2>10. Total(B, u.left) = Total(B, st.left) - Least(a, Total(B, st.left))
      BY <2>2, <2>6, <2>7, <2>9
    <2>12. both[i] = one[i] + (IF b - (Total(B, st.left) - Least(a, Total(B, st.left))) <= 0 THEN 0
              ELSE Least(b - (Total(B, st.left) - Least(a, Total(B, st.left))), st.left[i] - one[i]))
      <3>1. PICK x, l, o \in Int : x = Total(B, st.left) /\ l = st.left[i] /\ o = one[i]
        BY <2>7, <2>8
      <3>2. l >= 0 /\ o = (IF a - x <= 0 THEN 0 ELSE Least(a - x, l))
        BY <2>3, <2>8, <3>1, Zenon
      <3>3. (IF (a + b) - x <= 0 THEN 0 ELSE Least((a + b) - x, l))
            = o + (IF b - (x - Least(a, x)) <= 0 THEN 0 ELSE Least(b - (x - Least(a, x)), l - o))
        <4>1. CASE a <= x
          BY <3>2, <4>1 DEF Least
        <4>2. CASE x < a
          BY <3>2, <4>2 DEF Least
        <4> QED
          BY <4>1, <4>2
      <3> QED
        BY <2>5, <3>1, <3>3, Zenon
    <2> QED
      BY <2>4, <2>8, <2>10, <2>12, Zenon
  <1> HIDE DEF u, v, w, one, two, both
  <1>8. \A i \in DOMAIN gs : v.left[i] = w.left[i]
    <2>1. \A i \in DOMAIN gs : both[i] = one[i] + two[i]
      BY <1>5, <1>7
    <2> QED
      BY <1>1, <1>2, <1>3, <1>5, <1>6, <2>1
  <1>9. Total(st.active, both) = Total(st.active, one) + Total(st.active, two)
    <2>1. \A i \in st.active : one[i] \in Int /\ two[i] \in Int /\ both[i] = one[i] + two[i]
      BY <1>5, <1>6, <1>7
    <2> QED
      BY <1>6, <2>1, TotalOfSum
  <1>10. v.debt = w.debt
    BY <1>1, <1>2, <1>3, <1>6, <1>9
  <1>11. v = w
    BY <1>1, <1>2, <1>3, <1>8, <1>10, StandingSame
  <1> QED
    BY <1>11 DEF v, w, u
------------------------------------------------------------------------------
(* A round. *)

Amounts(gs) == [i \in DOMAIN gs |-> gs[i].credits]

\* A grant that comes by is worth its credits.
LEMMA ArriveKeeps ==
    ASSUME NEW gs, Rows(gs), NEW st \in Standing(gs), NEW i \in DOMAIN gs, i \notin st.active
    PROVE  LET t == Arrive(gs, st, i)
           IN  /\ t \in Standing(gs) /\ Value(t) = Value(st) + gs[i].credits
               /\ t.active \subseteq st.active \cup {i} /\ (Covered(st) => Covered(t))
  <1> DEFINE t == Arrive(gs, st, i)
  <1>1. gs[i].credits \in Int
    BY DEF Rows
  <1>2. /\ st.left \in [DOMAIN gs -> Int] /\ st.active \in SUBSET DOMAIN gs /\ st.debt \in Int /\ st.lapsed \in Int
        /\ st = [left |-> st.left, active |-> st.active, debt |-> st.debt, lapsed |-> st.lapsed]
        /\ Total(st.active, st.left) \in Int
    BY StandingParts DEF Standing
  <1>3. CASE gs[i].credits < 0
    <2> DEFINE u == [st EXCEPT !.debt = 0]
    <2>1. /\ u = [left |-> st.left, active |-> st.active, debt |-> 0, lapsed |-> st.lapsed]
          /\ t = Take(gs, u, st.debt - gs[i].credits)
      BY <1>2, <1>3 DEF Arrive
    <2> HIDE DEF u, t
    <2>2. u \in Standing(gs) /\ u.active = st.active /\ u.debt = 0 /\ u.left = st.left
      BY <1>2, <2>1 DEF Standing
    <2>3. Value(u) = Value(st) + st.debt
      BY <1>2, <2>1 DEF Value
    <2>4. st.debt - gs[i].credits \in Int
      BY <1>1, <1>2
    <2>5. t \in Standing(gs) /\ Value(t) = Value(u) - (st.debt - gs[i].credits)
      BY <2>1, <2>2, <2>4, TakeValue
    <2>6. t.active = st.active
      <3>1. Take(gs, u, st.debt - gs[i].credits).active = u.active
        BY <2>2, <2>4, TakeValue
      <3> QED
        BY <2>1, <2>2, <3>1
    <2>7. ASSUME Covered(st) PROVE Covered(t)
      <3>1. Covered(u)
        BY <2>2, <2>7 DEF Covered
      <3>2. st.debt - gs[i].credits \in Nat
        BY <1>1, <1>2, <1>3, <2>7 DEF Covered
      <3> QED
        BY <2>1, <2>2, <3>1, <3>2, TakeCovered
    <2>8. Value(t) = Value(st) + gs[i].credits
      <3>1. Value(st) \in Int
        BY StandingParts
      <3> QED
        BY <1>1, <1>2, <2>3, <2>5, <3>1
    <2> QED
      BY <2>5, <2>6, <2>7, <2>8 DEF t
  <1>4. CASE ~(gs[i].credits < 0)
    <2> DEFINE pays == Least(st.debt, gs[i].credits)
    <2>1. t = [st EXCEPT !.left[i] = gs[i].credits - pays, !.debt = st.debt - pays, !.active = st.active \cup {i}]
      BY <1>4 DEF Arrive
    <2>p. pays \in Int /\ pays <= gs[i].credits /\ pays <= st.debt
      BY <1>1, <1>2 DEF Least
    <2> HIDE DEF t, pays
    <2>2. /\ t = [left |-> [st.left EXCEPT ![i] = gs[i].credits - pays], active |-> st.active \cup {i},
                  debt |-> st.debt - pays, lapsed |-> st.lapsed]
      BY <1>2, <2>1
    <2>3. /\ t.left = [st.left EXCEPT ![i] = gs[i].credits - pays] /\ t.active = st.active \cup {i}
          /\ t.debt = st.debt - pays /\ t.lapsed = st.lapsed /\ t.left \in [DOMAIN gs -> Int]
      BY <1>1, <1>2, <2>2, <2>p
    <2>4. t \in Standing(gs)
      BY <1>1, <1>2, <2>2, <2>3, <2>p DEF Standing
    <2>5. Total(t.active, t.left) = (gs[i].credits - pays) + Total(st.active, st.left)
      <3>1. IsFiniteSet(DOMAIN gs) /\ i \in (DOMAIN gs) \ st.active /\ (\A j \in DOMAIN gs : t.left[j] \in Int) /\ IsFiniteSet(st.active)
        BY <1>2, <2>3, RowNumbers
      <3>2. Total(st.active \cup {i}, t.left) = t.left[i] + Total(st.active, t.left)
        BY <1>2, <3>1, TotalMore
      <3>3. \A j \in st.active : st.left[j] \in Int /\ st.left[j] = t.left[j]
        BY <1>2, <2>3
      <3>4. Total(st.active, st.left) = Total(st.active, t.left)
        BY <3>1, <3>3, TotalSame
      <3>5. t.left[i] = gs[i].credits - pays
        BY <1>2, <2>3
      <3> QED
        BY <2>3, <3>2, <3>4, <3>5
    <2>6. Value(t) = Value(st) + gs[i].credits
      BY <1>1, <1>2, <2>3, <2>5, <2>p DEF Value
    <2>7. ASSUME Covered(st) PROVE Covered(t)
      <3>1. t.debt >= 0
        BY <1>2, <2>3, <2>p
      <3>2. \A j \in DOMAIN t.left : t.left[j] >= 0
        BY <1>1, <1>2, <2>3, <2>7, <2>p DEF Covered
      <3> QED
        BY <3>1, <3>2 DEF Covered
    <2> QED
      BY <2>3, <2>4, <2>6, <2>7 DEF t
  <1> QED
    BY <1>3, <1>4

\* What lapses counts as lapsed, and leaves nothing behind.
LEMMA LapseKeeps ==
    ASSUME NEW gs, Rows(gs), NEW st \in Standing(gs), NEW point \in Int
    PROVE  LET t == Lapse(gs, st, point)
           IN  /\ t \in Standing(gs) /\ Value(t) = Value(st) /\ (Covered(st) => Covered(t))
               /\ t.active = {i \in st.active : point < ExpiresAt(gs[i])}
  <1> DEFINE t == Lapse(gs, st, point)
             gone == {i \in st.active : ExpiresAt(gs[i]) <= point}
             stay == {i \in st.active : point < ExpiresAt(gs[i])}
             left == [i \in DOMAIN gs |-> IF i \in gone THEN 0 ELSE st.left[i]]
  <1>1. /\ st.left \in [DOMAIN gs -> Int] /\ st.active \in SUBSET DOMAIN gs /\ st.debt \in Int /\ st.lapsed \in Int
        /\ st = [left |-> st.left, active |-> st.active, debt |-> st.debt, lapsed |-> st.lapsed]
    BY DEF Standing
  <1>2. t = [st EXCEPT !.lapsed = st.lapsed + Total(gone, st.left), !.left = left, !.active = st.active \ gone]
    BY DEF Lapse
  <1>3. st.active = gone \cup stay /\ gone \cap stay = {} /\ st.active \ gone = stay
    <2>1. \A i \in st.active : ExpiresAt(gs[i]) \in Nat
      BY <1>1, LapseTimes
    <2> QED
      BY <2>1
  <1>4. IsFiniteSet(st.active) /\ (\A i \in st.active : st.left[i] \in Int) /\ stay \in SUBSET DOMAIN gs /\ IsFiniteSet(stay)
    BY <1>1, RowNumbers
  <1>5. left \in [DOMAIN gs -> Int] /\ (\A i \in stay : left[i] \in Int /\ left[i] = st.left[i])
    BY <1>1, <1>3
  <1>c. ASSUME Covered(st) PROVE \A i \in DOMAIN gs : left[i] >= 0
    BY <1>1, <1>c DEF Covered
  <1> HIDE DEF t, gone, stay, left
  <1>6. t = [left |-> left, active |-> stay, debt |-> st.debt, lapsed |-> st.lapsed + Total(gone, st.left)]
    BY <1>1, <1>2, <1>3
  <1>7. \A A, B : st.active = A \cup B /\ A \cap B = {} =>
           Total(st.active, st.left) = Total(A, st.left) + Total(B, st.left) /\ Total(A, st.left) \in Int /\ Total(B, st.left) \in Int
    <2>1. PICK f : f = st.left
      OBVIOUS
    <2>2. \A i \in st.active : f[i] \in Int
      BY <1>4, <2>1
    <2>3. \A A, B : st.active = A \cup B /\ A \cap B = {} =>
             Total(st.active, f) = Total(A, f) + Total(B, f) /\ Total(A, f) \in Int /\ Total(B, f) \in Int
      BY <1>4, <2>2, TotalOfBoth, Zenon
    <2> QED
      BY <2>1, <2>3, Zenon
  <1>8. Total(st.active, st.left) = Total(gone, st.left) + Total(stay, st.left) /\ Total(gone, st.left) \in Int /\ Total(stay, st.left) \in Int
    BY <1>3, <1>7, Zenon
  <1>9. Total(stay, left) = Total(stay, st.left)
    BY <1>4, <1>5, TotalSame
  <1>10. t \in Standing(gs)
    BY <1>1, <1>4, <1>5, <1>6, <1>8 DEF Standing
  <1>11. Value(t) = Value(st)
    BY <1>1, <1>6, <1>8, <1>9 DEF Value
  <1>12. Covered(st) => Covered(t)
    BY <1>5, <1>6, <1>c DEF Covered
  <1>13. t.active = stay
    BY <1>6
  <1> QED
    BY <1>10, <1>11, <1>12, <1>13 DEF t, stay

\* When nothing lapses nothing changes.
LEMMA LapseSame ==
    ASSUME NEW gs, Rows(gs), NEW st \in Standing(gs), NEW point \in Int, \A i \in st.active : ~(ExpiresAt(gs[i]) <= point)
    PROVE  Lapse(gs, st, point) = st
  <1> DEFINE t == Lapse(gs, st, point)
             gone == {i \in st.active : ExpiresAt(gs[i]) <= point}
  <1>1. st.left \in [DOMAIN gs -> Int] /\ st.active \in SUBSET DOMAIN gs /\ st.debt \in Int /\ st.lapsed \in Int
        /\ st = [left |-> st.left, active |-> st.active, debt |-> st.debt, lapsed |-> st.lapsed]
    BY DEF Standing
  <1>2. gone = {}
    OBVIOUS
  <1>3. t = [st EXCEPT !.lapsed = st.lapsed + Total(gone, st.left), !.left = [i \in DOMAIN gs |-> IF i \in gone THEN 0 ELSE st.left[i]],
                       !.active = st.active \ gone]
    BY DEF Lapse
  <1> HIDE DEF t, gone
  <1>4. Total(gone, st.left) = 0
    BY <1>2, TotalOfNone, Zenon
  <1>5. [i \in DOMAIN gs |-> IF i \in gone THEN 0 ELSE st.left[i]] = st.left /\ st.active \ gone = st.active /\ st.lapsed + 0 = st.lapsed
    BY <1>1, <1>2
  <1>6. t = [st EXCEPT !.lapsed = st.lapsed, !.left = st.left, !.active = st.active]
    BY <1>3, <1>4, <1>5
  <1> QED
    BY <1>1, <1>6 DEF t

Came(gs, last, point) == {i \in DOMAIN gs : last < gs[i].at /\ gs[i].at <= point}
Comes(gs, st, last, point, g) ==
    [n \in 0..Len(gs) |->
        IF n = 0 THEN st
        ELSE IF last < gs[n].at /\ gs[n].at <= point THEN Arrive(gs, g[n - 1], n)
        ELSE g[n - 1]]

CameBy(gs, st, came, g) ==
    /\ g[0] = st
    /\ \A n \in 1..Len(gs) : g[n] = IF n \in came THEN Arrive(gs, g[n - 1], n) ELSE g[n - 1]

\* Row by row.
LEMMA ComeIs ==
    ASSUME NEW gs, Rows(gs), NEW st, NEW last, NEW point
    PROVE  \E g : Come(gs, st, last, point) = g[Len(gs)] /\ CameBy(gs, st, Came(gs, last, point), g)
  <1> DEFINE F(g) == Comes(gs, st, last, point, g)
             Upto(g, n) == g = [i \in 0..Len(gs) |-> g[i]] /\ \A i \in 0..Len(gs) : i <= n => g[i] = F(g)[i]
             H == {n \in Nat : \E g : Upto(g, n)}
  <1>l. Len(gs) \in Nat /\ DOMAIN gs = 1..Len(gs)
    BY DEF Rows
  <1>1. 0 \in H
    <2> DEFINE g == [i \in 0..Len(gs) |-> st]
    <2>1. ASSUME NEW i \in 0..Len(gs), i <= 0 PROVE g[i] = F(g)[i]
      <3>1. i = 0
        BY <1>l, <2>1
      <3> QED
        BY <3>1 DEF Comes
    <2>2. Upto(g, 0)
      BY <2>1
    <2> QED
      BY <2>2
  <1>2. ASSUME NEW n \in Nat, n \in H PROVE n + 1 \in H
    <2>1. PICK g : Upto(g, n)
      BY <1>2
    <2> DEFINE k == [i \in 0..Len(gs) |-> IF i <= n THEN g[i] ELSE F(g)[i]]
    <2>2. ASSUME NEW i \in 0..Len(gs), i <= n + 1 PROVE k[i] = F(k)[i]
      <3>1. k[i] = F(g)[i]
        BY <2>1
      <3>2. F(k)[i] = F(g)[i]
        <4>1. CASE i = 0
          BY <4>1 DEF Comes
        <4>2. CASE i # 0
          <5>1. i - 1 \in 0..Len(gs) /\ i - 1 <= n
            BY <1>l, <2>2, <4>2
          <5>2. k[i - 1] = g[i - 1]
            BY <5>1
          <5> HIDE DEF k
          <5> QED
            BY <4>2, <5>2 DEF Comes
        <4> QED
          BY <4>1, <4>2
      <3> QED
        BY <3>1, <3>2
    <2>3. k = [i \in 0..Len(gs) |-> k[i]]
      OBVIOUS
    <2> HIDE DEF k
    <2>4. Upto(k, n + 1)
      BY <2>2, <2>3
    <2> HIDE DEF Upto
    <2>5. \E h : Upto(h, n + 1)
      BY <2>4
    <2> QED
      BY <2>5
  <1>3. Len(gs) \in H
    <2> HIDE DEF H
    <2>1. Nat \subseteq H
      BY <1>1, <1>2, Counting
    <2> QED
      BY <1>l, <2>1
  <1>4. PICK g : Upto(g, Len(gs))
    BY <1>3
  <1>5. ASSUME NEW i \in 0..Len(gs) PROVE g[i] = F(g)[i]
    BY <1>4, <1>l
  <1>6. g = F(g)
    <2>1. g = [i \in 0..Len(gs) |-> F(g)[i]]
      BY <1>4, <1>5
    <2> QED
      BY <2>1 DEF Comes
  <1> DEFINE c == CHOOSE h : h = F(h)
  <1>7. c = F(c)
    BY <1>6
  <1>8. Come(gs, st, last, point) = c[Len(gs)]
    BY DEF Come, Comes
  <1> HIDE DEF c
  <1>9. c[0] = st /\ \A n \in 1..Len(gs) : c[n] = IF n \in Came(gs, last, point) THEN Arrive(gs, c[n - 1], n) ELSE c[n - 1]
    <2>1. \A n \in 0..Len(gs) : c[n] = Comes(gs, st, last, point, c)[n]
      BY <1>7
    <2>2. c[0] = st
      <3>1. 0 \in 0..Len(gs)
        BY <1>l
      <3> QED
        BY <2>1, <3>1 DEF Comes
    <2>3. ASSUME NEW n \in 1..Len(gs) PROVE c[n] = IF n \in Came(gs, last, point) THEN Arrive(gs, c[n - 1], n) ELSE c[n - 1]
      <3>1. n \in 0..Len(gs) /\ n # 0
        BY <1>l
      <3>2. Comes(gs, st, last, point, c)[n] =
               IF last < gs[n].at /\ gs[n].at <= point THEN Arrive(gs, c[n - 1], n) ELSE c[n - 1]
        BY <3>1 DEF Comes
      <3>3. n \in Came(gs, last, point) <=> last < gs[n].at /\ gs[n].at <= point
        BY <1>l DEF Came
      <3> QED
        BY <2>1, <3>1, <3>2, <3>3
    <2> QED
      BY <2>2, <2>3
  <1>10. CameBy(gs, st, Came(gs, last, point), c)
    BY <1>9 DEF CameBy
  <1> QED
    BY <1>8, <1>10

\* What comes by is worth its credits, when none of it was there before.
LEMMA ComeKeeps ==
    ASSUME NEW gs, Rows(gs), NEW st \in Standing(gs), NEW last \in Int, NEW point \in Int, last <= point,
           \A i \in st.active : gs[i].at <= last
    PROVE  LET t == Come(gs, st, last, point)
           IN  /\ t \in Standing(gs) /\ Value(t) = Value(st) + Total(Came(gs, last, point), Amounts(gs))
               /\ (\A i \in t.active : gs[i].at <= point) /\ (Covered(st) => Covered(t))
  <1> DEFINE New(n) == {i \in Came(gs, last, point) : i <= n}
  <1>p. PICK g : Come(gs, st, last, point) = g[Len(gs)] /\ CameBy(gs, st, Came(gs, last, point), g)
    BY ComeIs
  <1>1. /\ Come(gs, st, last, point) = g[Len(gs)] /\ g[0] = st
        /\ \A n \in 1..Len(gs) : g[n] = IF n \in Came(gs, last, point) THEN Arrive(gs, g[n - 1], n) ELSE g[n - 1]
    BY <1>p DEF CameBy
  <1>l. Len(gs) \in Nat /\ DOMAIN gs = 1..Len(gs) /\ \A i \in DOMAIN gs : gs[i].at \in Int /\ i \in Int
    BY DEF Rows
  <1>a. IsFiniteSet(DOMAIN gs) /\ (\A i \in DOMAIN gs : Amounts(gs)[i] \in Int)
    BY RowNumbers DEF Amounts, Rows
  <1>v. Value(st) \in Int
    BY StandingParts
  <1> DEFINE Fine(n) == /\ g[n] \in Standing(gs) /\ Value(g[n]) = Value(st) + Total(New(n), Amounts(gs))
                        /\ g[n].active \subseteq st.active \cup New(n)
                        /\ (Covered(st) => Covered(g[n]))
             H == {n \in Nat : n <= Len(gs) => Fine(n)}
  <1>2. 0 \in H
    <2>1. New(0) = {}
      BY <1>l DEF Came
    <2>2. Total(New(0), Amounts(gs)) = 0
      <3> HIDE DEF New
      <3> QED
        BY <2>1, TotalOfNone, Zenon
    <2> HIDE DEF New
    <2> QED
      BY <1>1, <1>v, <2>2
  <1>3. ASSUME NEW n \in Nat, n \in H PROVE n + 1 \in H
    <2> SUFFICES ASSUME n + 1 <= Len(gs) PROVE Fine(n + 1)
      OBVIOUS
    <2>1. Fine(n) /\ n + 1 \in 1..Len(gs) /\ (n + 1) - 1 = n
      BY <1>3, <1>l
    <2>2. g[n + 1] = IF n + 1 \in Came(gs, last, point) THEN Arrive(gs, g[n], n + 1) ELSE g[n]
      BY <1>1, <2>1
    <2>3. CASE n + 1 \in Came(gs, last, point)
      <3>1. n + 1 \notin g[n].active
        <4>1. n + 1 \notin New(n) /\ last < gs[n + 1].at /\ gs[n + 1].at \in Int
          BY <1>l, <2>1, <2>3 DEF Came
        <4>2. n + 1 \notin st.active
          BY <4>1
        <4> HIDE DEF New
        <4> QED
          BY <2>1, <4>1, <4>2
      <3>2. New(n + 1) = New(n) \cup {n + 1} /\ New(n) \in SUBSET DOMAIN gs /\ n + 1 \in DOMAIN gs \ New(n)
        BY <1>l, <2>1, <2>3 DEF Came
      <3>3. g[n + 1] = Arrive(gs, g[n], n + 1)
        BY <2>2, <2>3
      <3> HIDE DEF New
      <3>4. /\ g[n + 1] \in Standing(gs) /\ Value(g[n + 1]) = Value(g[n]) + gs[n + 1].credits
            /\ g[n + 1].active \subseteq g[n].active \cup {n + 1} /\ (Covered(g[n]) => Covered(g[n + 1]))
        BY <2>1, <3>1, <3>2, <3>3, ArriveKeeps
      <3>5. Total(New(n) \cup {n + 1}, Amounts(gs)) = Amounts(gs)[n + 1] + Total(New(n), Amounts(gs)) /\ Total(New(n), Amounts(gs)) \in Int
        <4>1. PICK f, U, T, x : f = Amounts(gs) /\ U = DOMAIN gs /\ T = New(n) /\ x = n + 1
          OBVIOUS
        <4>2. IsFiniteSet(U) /\ (\A i \in U : f[i] \in Int) /\ T \in SUBSET U /\ x \in U \ T
          BY <1>a, <3>2, <4>1, Zenon
        <4>3. Total(T \cup {x}, f) = f[x] + Total(T, f) /\ Total(T, f) \in Int
          BY <4>2, TotalMore
        <4> QED
          BY <4>1, <4>3, Zenon
      <3>6. Amounts(gs)[n + 1] = gs[n + 1].credits /\ Amounts(gs)[n + 1] \in Int
        BY <1>a, <3>2 DEF Amounts
      <3>7. Total(New(n + 1), Amounts(gs)) = Total(New(n) \cup {n + 1}, Amounts(gs))
        BY <3>2, Zenon
      <3>8. Value(g[n + 1]) = Value(st) + Total(New(n + 1), Amounts(gs))
        BY <1>v, <2>1, <3>4, <3>5, <3>6, <3>7
      <3>9. g[n + 1].active \subseteq st.active \cup New(n + 1)
        BY <2>1, <3>2, <3>4
      <3> QED
        BY <2>1, <3>4, <3>8, <3>9
    <2>4. CASE n + 1 \notin Came(gs, last, point)
      <3>1. New(n + 1) = New(n)
        BY <1>l, <2>4 DEF Came
      <3>2. g[n + 1] = g[n]
        BY <2>2, <2>4
      <3>3. Total(New(n + 1), Amounts(gs)) = Total(New(n), Amounts(gs))
        <4> HIDE DEF New
        <4> QED
          BY <3>1, Zenon
      <3> HIDE DEF New
      <3> QED
        BY <2>1, <3>1, <3>2, <3>3
    <2> QED
      BY <2>3, <2>4
  <1>4. Fine(Len(gs))
    <2> HIDE DEF H
    <2>1. Nat \subseteq H
      BY <1>2, <1>3, Counting
    <2>2. Len(gs) \in H /\ Len(gs) <= Len(gs)
      BY <1>l, <2>1
    <2> HIDE DEF Fine
    <2> QED
      BY <2>2 DEF H
  <1>5. New(Len(gs)) = Came(gs, last, point)
    BY <1>l DEF Came
  <1>6. Total(New(Len(gs)), Amounts(gs)) = Total(Came(gs, last, point), Amounts(gs))
    <2> HIDE DEF New
    <2> QED
      BY <1>5, Zenon
  <1>7. \A i \in st.active \cup New(Len(gs)) : gs[i].at <= point
    <2>1. st.active \in SUBSET DOMAIN gs
      BY StandingParts
    <2> QED
      BY <1>l, <2>1 DEF Came
  <1> HIDE DEF New
  <1>8. Come(gs, st, last, point) = g[Len(gs)]
    BY <1>1
  <1> HIDE <1>1
  <1> QED
    BY <1>4, <1>6, <1>7, <1>8

\* Only what comes matters.
LEMMA ComeSame ==
    ASSUME NEW gs, Rows(gs), NEW st, NEW last, NEW prior, NEW point, Came(gs, last, point) = Came(gs, prior, point)
    PROVE  Come(gs, st, last, point) = Come(gs, st, prior, point)
  <1>p. PICK g : Come(gs, st, last, point) = g[Len(gs)] /\ CameBy(gs, st, Came(gs, last, point), g)
    BY ComeIs
  <1>1. /\ Come(gs, st, last, point) = g[Len(gs)] /\ g[0] = st
        /\ \A n \in 1..Len(gs) : g[n] = IF n \in Came(gs, last, point) THEN Arrive(gs, g[n - 1], n) ELSE g[n - 1]
    BY <1>p DEF CameBy
  <1>q. PICK h : Come(gs, st, prior, point) = h[Len(gs)] /\ CameBy(gs, st, Came(gs, prior, point), h)
    BY ComeIs
  <1>2. /\ Come(gs, st, prior, point) = h[Len(gs)] /\ h[0] = st
        /\ \A n \in 1..Len(gs) : h[n] = IF n \in Came(gs, last, point) THEN Arrive(gs, h[n - 1], n) ELSE h[n - 1]
    BY <1>q DEF CameBy
  <1> DEFINE H == {n \in Nat : n <= Len(gs) => g[n] = h[n]}
  <1>3. 0 \in H
    BY <1>1, <1>2
  <1>4. ASSUME NEW n \in Nat, n \in H PROVE n + 1 \in H
    <2> SUFFICES ASSUME n + 1 <= Len(gs) PROVE g[n + 1] = h[n + 1]
      OBVIOUS
    <2>1. n + 1 \in 1..Len(gs) /\ (n + 1) - 1 = n /\ g[n] = h[n]
      BY <1>4 DEF Rows
    <2> QED
      BY <1>1, <1>2, <2>1
  <1>5. Len(gs) \in H
    <2> HIDE DEF H
    <2>1. Nat \subseteq H
      BY <1>3, <1>4, Counting
    <2> QED
      BY <2>1 DEF Rows
  <1> QED
    BY <1>1, <1>2, <1>5 DEF Rows

LEMMA ComeNone ==
    ASSUME NEW gs, Rows(gs), NEW st, NEW last, NEW point, Came(gs, last, point) = {}
    PROVE  Come(gs, st, last, point) = st
  <1>1. PICK g : /\ Come(gs, st, last, point) = g[Len(gs)] /\ g[0] = st
                 /\ \A n \in 1..Len(gs) : g[n] = g[n - 1]
    <2>1. PICK g : Come(gs, st, last, point) = g[Len(gs)] /\ CameBy(gs, st, Came(gs, last, point), g)
      BY ComeIs
    <2> QED
      BY <2>1 DEF CameBy
  <1> DEFINE H == {n \in Nat : n <= Len(gs) => g[n] = st}
  <1>3. 0 \in H
    BY <1>1
  <1>4. ASSUME NEW n \in Nat, n \in H PROVE n + 1 \in H
    <2> SUFFICES ASSUME n + 1 <= Len(gs) PROVE g[n + 1] = st
      OBVIOUS
    <2>1. n + 1 \in 1..Len(gs) /\ (n + 1) - 1 = n /\ g[n] = st
      BY <1>4 DEF Rows
    <2> QED
      BY <1>1, <2>1
  <1>5. Len(gs) \in H
    <2> HIDE DEF H
    <2>1. Nat \subseteq H
      BY <1>3, <1>4, Counting
    <2> QED
      BY <2>1 DEF Rows
  <1> QED
    BY <1>1, <1>5 DEF Rows
------------------------------------------------------------------------------
(* The rounds. *)

Ledger(us) == IsFiniteSet(DOMAIN us) /\ \A t \in DOMAIN us : t \in Int /\ us[t] \in Int

LEMMA SpentTypes ==
    ASSUME NEW us, Ledger(us), NEW from \in Int, NEW until \in Int
    PROVE  /\ SpentIn(us, from, until) \in Int
           /\ (\A t \in DOMAIN us : us[t] >= 0) => SpentIn(us, from, until) \in Nat
  <1>1. PICK S : S = {t \in DOMAIN us : from <= t /\ t < until}
    OBVIOUS
  <1>2. IsFiniteSet(S) /\ (\A t \in S : us[t] \in Int) /\ S \in SUBSET DOMAIN us
    BY <1>1, FS_Subset DEF Ledger
  <1>3. SpentIn(us, from, until) = Total(S, us)
    BY <1>1, Zenon DEF SpentIn
  <1>4. Total(S, us) \in Int
    BY <1>2, TotalTypes
  <1>5. ASSUME \A t \in DOMAIN us : us[t] >= 0 PROVE Total(S, us) >= 0
    <2>1. \A t \in S : us[t] \in Int /\ us[t] >= 0
      BY <1>2, <1>5
    <2> QED
      BY <1>2, <2>1, TotalAtLeast
  <1> QED
    BY <1>3, <1>4, <1>5

\* What was spent between two times, a third between them.
LEMMA SpentJoins ==
    ASSUME NEW us, Ledger(us), NEW a \in Int, NEW b \in Int, NEW c \in Int, a <= b, b <= c
    PROVE  SpentIn(us, a, c) = SpentIn(us, a, b) + SpentIn(us, b, c)
  <1>1. PICK S, T, U : /\ S = {t \in DOMAIN us : a <= t /\ t < b} /\ T = {t \in DOMAIN us : b <= t /\ t < c}
                       /\ U = {t \in DOMAIN us : a <= t /\ t < c}
    OBVIOUS
  <1>2. IsFiniteSet(U) /\ (\A t \in U : us[t] \in Int)
    BY <1>1, FS_Subset DEF Ledger
  <1>3. U = S \cup T /\ S \cap T = {}
    BY <1>1 DEF Ledger
  <1>4. Total(U, us) = Total(S, us) + Total(T, us)
    <2>1. \A A, B : U = A \cup B /\ A \cap B = {} =>
             Total(U, us) = Total(A, us) + Total(B, us) /\ Total(A, us) \in Int /\ Total(B, us) \in Int
      BY <1>2, TotalOfBoth, Zenon
    <2> QED
      BY <1>3, <2>1, Zenon
  <1> QED
    BY <1>1, <1>4, Zenon DEF SpentIn

\* A finite set of times has a last one and a first one.
LEMMA HasLast ==
    ASSUME NEW S, IsFiniteSet(S), S \subseteq Int, S # {}
    PROVE  Max(S) \in S /\ \A y \in S : y <= Max(S)
  <1> DEFINE Last(T, x) == x \in T /\ \A y \in T : x >= y
             G == {T \in SUBSET S : T = {} \/ \E x \in S : Last(T, x)}
  <1>1. {} \in G
    OBVIOUS
  <1>2. ASSUME NEW T \in SUBSET S, NEW z \in S \ T, T \in G PROVE T \cup {z} \in G
    <2>1. CASE T = {}
      <3>1. Last(T \cup {z}, z)
        BY <2>1
      <3> QED
        BY <3>1
    <2>2. CASE T # {}
      <3>1. PICK x \in S : Last(T, x)
        BY <1>2, <2>2
      <3>2. Last(T \cup {z}, x) \/ Last(T \cup {z}, z)
        BY <3>1
      <3> QED
        BY <3>2
    <2> QED
      BY <2>1, <2>2
  <1>3. S \in G
    <2> HIDE DEF G
    <2>1. \A T \in SUBSET S : T \in G
      BY <1>1, <1>2, Gathering
    <2> QED
      BY <2>1
  <1>4. \E x \in S : \A y \in S : x >= y
    BY <1>3
  <1> QED
    BY <1>4 DEF Max

LEMMA HasFirst ==
    ASSUME NEW S, IsFiniteSet(S), S \subseteq Int, S # {}
    PROVE  Min(S) \in S /\ \A y \in S : Min(S) <= y
  <1> DEFINE First(T, x) == x \in T /\ \A y \in T : x =< y
             G == {T \in SUBSET S : T = {} \/ \E x \in S : First(T, x)}
  <1>1. {} \in G
    OBVIOUS
  <1>2. ASSUME NEW T \in SUBSET S, NEW z \in S \ T, T \in G PROVE T \cup {z} \in G
    <2>1. CASE T = {}
      <3>1. First(T \cup {z}, z)
        BY <2>1
      <3> QED
        BY <3>1
    <2>2. CASE T # {}
      <3>1. PICK x \in S : First(T, x)
        BY <1>2, <2>2
      <3>2. First(T \cup {z}, x) \/ First(T \cup {z}, z)
        BY <3>1
      <3> QED
        BY <3>2
    <2> QED
      BY <2>1, <2>2
  <1>3. S \in G
    <2> HIDE DEF G
    <2>1. \A T \in SUBSET S : T \in G
      BY <1>1, <1>2, Gathering
    <2> QED
      BY <2>1
  <1>4. \E x \in S : \A y \in S : x =< y
    BY <1>3
  <1> QED
    BY <1>4 DEF Min

\* The point before one, and the one after.
Times(points, now) == points \subseteq 0..now /\ now \in points /\ now \in Nat /\ now < Never

LEMMA TimesAre ==
    ASSUME NEW points, NEW now, Times(points, now)
    PROVE  /\ IsFiniteSet(points) /\ points \subseteq Int /\ now \in points /\ now \in Nat /\ now < Never /\ Never \in Nat
           /\ \A p \in points : p \in Nat /\ 0 <= p /\ p <= now
           /\ \A S \in SUBSET points : IsFiniteSet(S) /\ S \subseteq Int
  <1>1. points \in SUBSET (0..now) /\ now \in Nat
    BY DEF Times
  <1>2. IsFiniteSet(0..now)
    BY <1>1, FS_Interval
  <1>3. IsFiniteSet(points)
    BY <1>1, <1>2, FS_Subset
  <1>4. \A p \in points : p \in Nat /\ 0 <= p /\ p <= now
    BY <1>1
  <1>5. \A S \in SUBSET points : IsFiniteSet(S)
    BY <1>3, FS_Subset
  <1> QED
    BY <1>3, <1>4, <1>5, TopupAssumption DEF Times

LEMMA PointBefore ==
    ASSUME NEW points, NEW now, Times(points, now), NEW p \in points, Earlier(points, p) # {}
    PROVE  LET last == Max(Earlier(points, p))
           IN  last \in points /\ last \in Nat /\ last < p /\ \A q \in points : q < p => q <= last
  <1>1. PICK S : S = {q \in points : q < p}
    OBVIOUS
  <1>2. Earlier(points, p) = S
    BY <1>1 DEF Earlier
  <1>3. IsFiniteSet(S) /\ S \subseteq Int /\ S # {}
    <2>1. S \in SUBSET points
      BY <1>1
    <2> QED
      BY <1>2, <2>1, TimesAre
  <1>4. Max(S) \in S /\ \A y \in S : y <= Max(S)
    BY <1>3, HasLast
  <1>5. Max(S) \in points /\ Max(S) \in Nat /\ Max(S) < p /\ \A q \in points : q < p => q <= Max(S)
    BY <1>1, <1>4, TimesAre
  <1> QED
    BY <1>2, <1>5, Zenon

LEMMA PointAfter ==
    ASSUME NEW points, NEW now, Times(points, now), NEW p \in points
    PROVE  /\ Until(points, p) \in Nat /\ p < Until(points, p)
           /\ (p = now => Until(points, p) = Never)
           /\ \A q \in points : p < q /\ (\A r \in points : p < r => q <= r) => Until(points, p) = q
  <1>1. PICK S : S = {q \in points : p < q}
    OBVIOUS
  <1>2. Until(points, p) = IF S = {} THEN Never ELSE Min(S)
    BY <1>1, Zenon DEF Until
  <1>3. IsFiniteSet(S) /\ S \subseteq Int
    <2>1. S \in SUBSET points
      BY <1>1
    <2> QED
      BY <2>1, TimesAre
  <1>4. S # {} => Min(S) \in S /\ \A y \in S : Min(S) <= y
    BY <1>3, HasFirst
  <1>t. /\ \A q \in points : q \in Nat /\ q <= now
        /\ now \in points /\ now \in Nat /\ now < Never /\ Never \in Nat
    BY TimesAre
  <1>5. Until(points, p) \in Nat /\ p < Until(points, p)
    <2>1. CASE S = {}
      BY <1>2, <1>t, <2>1
    <2>2. CASE S # {}
      BY <1>1, <1>2, <1>4, <1>t, <2>2
    <2> QED
      BY <2>1, <2>2
  <1>6. p = now => S = {}
    <2>1. ASSUME p = now PROVE \A q \in points : ~(p < q)
      BY <1>t, <2>1
    <2> QED
      BY <1>1, <2>1
  <1>7. ASSUME NEW q \in points, p < q, \A r \in points : p < r => q <= r PROVE Until(points, p) = q
    <2>1. q \in S /\ \A y \in S : q <= y
      BY <1>1, <1>7
    <2>2. Min(S) \in Int /\ q \in Int /\ Min(S) <= q /\ q <= Min(S)
      BY <1>3, <1>4, <2>1
    <2>3. S # {} /\ Min(S) = q
      BY <2>1, <2>2
    <2> QED
      BY <1>2, <2>3
  <1> QED
    BY <1>2, <1>5, <1>6, <1>7

\* Where the account stands at a point, from where it stood at those before.
Stand(gs, us, points, stood, p) ==
    IF Earlier(points, p) = {} THEN Round(gs, us, Nothing(gs), -1, points, p)
    ELSE Round(gs, us, stood[Max(Earlier(points, p))], Max(Earlier(points, p)), points, p)

LEMMA RoundsAre ==
    ASSUME NEW gs, NEW us, NEW points, NEW now, Times(points, now)
    PROVE  \A p \in points : Rounds(gs, us, points)[p] = Stand(gs, us, points, Rounds(gs, us, points), p)
  <1> DEFINE F(g) == [p \in points |-> Stand(gs, us, points, g, p)]
             Upto(g, n) == g = [p \in points |-> g[p]] /\ \A p \in points : p <= n => g[p] = F(g)[p]
             H == {n \in Nat : \E g : Upto(g, n)}
  <1>1. 0 \in H
    <2> DEFINE g == [p \in points |-> Round(gs, us, Nothing(gs), -1, points, p)]
    <2>1. ASSUME NEW p \in points, p <= 0 PROVE g[p] = F(g)[p]
      <3>1. Earlier(points, p) = {}
        BY <2>1, TimesAre DEF Earlier
      <3> QED
        BY <3>1 DEF Stand
    <2>2. Upto(g, 0)
      BY <2>1
    <2> QED
      BY <2>2
  <1>2. ASSUME NEW n \in Nat, n \in H PROVE n + 1 \in H
    <2>1. PICK g : Upto(g, n)
      BY <1>2
    <2> DEFINE k == [p \in points |-> IF p <= n THEN g[p] ELSE F(g)[p]]
    <2>2. ASSUME NEW p \in points, p <= n + 1 PROVE k[p] = F(k)[p]
      <3>1. k[p] = F(g)[p]
        BY <2>1
      <3>2. F(k)[p] = F(g)[p]
        <4>1. CASE Earlier(points, p) = {}
          BY <4>1 DEF Stand
        <4>2. CASE Earlier(points, p) # {}
          <5> DEFINE last == Max(Earlier(points, p))
          <5>1. last \in points /\ last \in Nat /\ last < p /\ p \in Nat
            BY <4>2, PointBefore, TimesAre
          <5>2. last <= n
            BY <2>2, <5>1
          <5>3. k[last] = g[last]
            <6> HIDE DEF last
            <6> QED
              BY <5>1, <5>2
          <5> HIDE DEF k
          <5> QED
            BY <4>2, <5>3 DEF Stand
        <4> QED
          BY <4>1, <4>2
      <3> QED
        BY <3>1, <3>2
    <2>3. k = [p \in points |-> k[p]]
      OBVIOUS
    <2> HIDE DEF k
    <2>4. Upto(k, n + 1)
      BY <2>2, <2>3
    <2> HIDE DEF Upto
    <2>5. \E h : Upto(h, n + 1)
      BY <2>4
    <2> QED
      BY <2>5
  <1>3. now \in H
    <2> HIDE DEF H
    <2>1. Nat \subseteq H
      BY <1>1, <1>2, Counting
    <2> QED
      BY <2>1 DEF Times
  <1>4. PICK g : Upto(g, now)
    BY <1>3
  <1>5. g = F(g)
    <2>1. \A p \in points : g[p] = F(g)[p]
      BY <1>4, TimesAre
    <2>2. g = [p \in points |-> F(g)[p]]
      BY <1>4, <2>1
    <2> QED
      BY <2>2
  <1> DEFINE c == CHOOSE h : h = F(h)
  <1>6. c = F(c)
    BY <1>5
  <1>7. Rounds(gs, us, points) = c
    BY DEF Rounds, Stand
  <1> HIDE DEF c
  <1>8. \A p \in points : c[p] = Stand(gs, us, points, c, p)
    BY <1>6
  <1> QED
    BY <1>7, <1>8, Zenon

\* What came has come, and what has lapsed is gone, before the spending.
Ready(gs, st, last, p) == Lapse(gs, Come(gs, st, last, p), p)

LEMMA ReadyKeeps ==
    ASSUME NEW gs, Rows(gs), NEW st \in Standing(gs), NEW last \in Int, NEW p \in Int, last <= p,
           \A i \in st.active : gs[i].at <= last
    PROVE  LET c == Ready(gs, st, last, p)
           IN  /\ c \in Standing(gs) /\ Value(c) = Value(st) + Total(Came(gs, last, p), Amounts(gs))
               /\ (\A i \in c.active : gs[i].at <= p /\ p < ExpiresAt(gs[i])) /\ (Covered(st) => Covered(c))
  <1> DEFINE b == Come(gs, st, last, p)
             c == Lapse(gs, b, p)
  <1>1. /\ b \in Standing(gs) /\ Value(b) = Value(st) + Total(Came(gs, last, p), Amounts(gs))
        /\ (\A i \in b.active : gs[i].at <= p) /\ (Covered(st) => Covered(b))
    BY ComeKeeps
  <1> HIDE DEF b
  <1>2. /\ c \in Standing(gs) /\ Value(c) = Value(b) /\ (Covered(b) => Covered(c))
        /\ c.active = {i \in b.active : p < ExpiresAt(gs[i])}
    BY <1>1, LapseKeeps
  <1> HIDE DEF c
  <1>3. \A i \in c.active : gs[i].at <= p /\ p < ExpiresAt(gs[i])
    BY <1>1, <1>2
  <1> QED
    BY <1>1, <1>2, <1>3 DEF b, c, Ready

LEMMA NothingStands ==
    ASSUME NEW gs, Rows(gs)
    PROVE  Nothing(gs) \in Standing(gs) /\ Value(Nothing(gs)) = 0 /\ Covered(Nothing(gs)) /\ Nothing(gs).active = {}
  <1>1. Nothing(gs) \in Standing(gs) /\ Covered(Nothing(gs))
    BY DEF Nothing, Standing, Covered
  <1>2. Nothing(gs).active = {} /\ Nothing(gs).debt = 0 /\ Nothing(gs).lapsed = 0
    BY DEF Nothing
  <1>3. Total(Nothing(gs).active, Nothing(gs).left) = 0
    BY <1>2, TotalOfNone, Zenon
  <1> QED
    BY <1>1, <1>2, <1>3 DEF Value

Spans(points, start, now) == Times(points, now) /\ start \in points /\ \A p \in points : start <= p

\* The credits that came by then, and what an account stands at when it is right.
CameUntil(gs, p) == {i \in DOMAIN gs : gs[i].at <= p}
Stood(gs, us, points, start, st, p) ==
    /\ st \in Standing(gs)
    /\ Value(st) = Total(CameUntil(gs, p), Amounts(gs)) - SpentIn(us, start, Until(points, p))
    /\ \A i \in st.active : gs[i].at <= p /\ p < ExpiresAt(gs[i])
    /\ (\A t \in DOMAIN us : us[t] >= 0) => Covered(st)

LEMMA AmountTypes ==
    ASSUME NEW gs, Rows(gs)
    PROVE  IsFiniteSet(DOMAIN gs) /\ (\A i \in DOMAIN gs : Amounts(gs)[i] \in Int)
           /\ \A S \in SUBSET DOMAIN gs : Total(S, Amounts(gs)) \in Int
  <1>1. IsFiniteSet(DOMAIN gs) /\ \A i \in DOMAIN gs : Amounts(gs)[i] \in Int
    BY RowNumbers DEF Amounts, Rows
  <1>2. ASSUME NEW S \in SUBSET DOMAIN gs PROVE Total(S, Amounts(gs)) \in Int
    <2>1. IsFiniteSet(S) /\ \A i \in S : Amounts(gs)[i] \in Int
      BY <1>1, RowNumbers
    <2> QED
      BY <2>1, TotalTypes
  <1> QED
    BY <1>1, <1>2

\* Each round keeps it right: the first one, and one after another.
LEMMA FirstRoundStands ==
    ASSUME NEW gs, Rows(gs), NEW us, Ledger(us), NEW points, NEW start, NEW now, Spans(points, start, now)
    PROVE  Stood(gs, us, points, start, Round(gs, us, Nothing(gs), -1, points, start), start)
  <1> DEFINE c == Ready(gs, Nothing(gs), -1, start)
             spent == SpentIn(us, start, Until(points, start))
             t == Take(gs, c, spent)
  <1>p. start \in Nat /\ start \in Int /\ -1 \in Int /\ -1 <= start
    BY TimesAre DEF Spans
  <1>1. /\ c \in Standing(gs) /\ Value(c) = Value(Nothing(gs)) + Total(Came(gs, -1, start), Amounts(gs))
        /\ (\A i \in c.active : gs[i].at <= start /\ start < ExpiresAt(gs[i])) /\ (Covered(Nothing(gs)) => Covered(c))
    <2>1. \A i \in Nothing(gs).active : gs[i].at <= -1
      BY NothingStands
    <2> QED
      BY <1>p, <2>1, NothingStands, ReadyKeeps
  <1>2. Came(gs, -1, start) = CameUntil(gs, start)
    <2>1. \A i \in DOMAIN gs : gs[i].at \in Nat
      BY DEF Rows
    <2> QED
      BY <2>1 DEF Came, CameUntil
  <1>3. Value(c) = Total(CameUntil(gs, start), Amounts(gs)) /\ Total(CameUntil(gs, start), Amounts(gs)) \in Int
    <2>1. Total(CameUntil(gs, start), Amounts(gs)) \in Int
      BY AmountTypes DEF CameUntil
    <2>2. Total(Came(gs, -1, start), Amounts(gs)) = Total(CameUntil(gs, start), Amounts(gs))
      BY <1>2, Zenon
    <2> QED
      BY <1>1, <2>1, <2>2, NothingStands
  <1>4. spent \in Int /\ ((\A x \in DOMAIN us : us[x] >= 0) => spent \in Nat)
    <2>1. Until(points, start) \in Int
      BY PointAfter DEF Spans
    <2> QED
      BY <1>p, <2>1, SpentTypes
  <1> HIDE DEF c, spent
  <1>5. t \in Standing(gs) /\ Value(t) = Value(c) - spent /\ t.active = c.active
    BY <1>1, <1>4, TakeValue
  <1>6. (\A x \in DOMAIN us : us[x] >= 0) => Covered(t)
    BY <1>1, <1>4, NothingStands, TakeCovered
  <1> HIDE DEF t
  <1>7. Stood(gs, us, points, start, t, start)
    BY <1>1, <1>3, <1>5, <1>6 DEF Stood, spent
  <1> QED
    BY <1>7 DEF t, c, spent, Round, Ready

LEMMA NextRoundStands ==
    ASSUME NEW gs, Rows(gs), NEW us, Ledger(us), NEW points, NEW start, NEW now, Spans(points, start, now),
           NEW last \in points, NEW p \in points, last < p, Until(points, last) = p,
           NEW st, Stood(gs, us, points, start, st, last)
    PROVE  Stood(gs, us, points, start, Round(gs, us, st, last, points, p), p)
  <1> DEFINE c == Ready(gs, st, last, p)
             spent == SpentIn(us, p, Until(points, p))
             t == Take(gs, c, spent)
  <1>p. start \in Int /\ last \in Int /\ p \in Int /\ last <= p /\ start <= p /\ start <= last
    BY TimesAre DEF Spans
  <1>s. /\ st \in Standing(gs) /\ Value(st) = Total(CameUntil(gs, last), Amounts(gs)) - SpentIn(us, start, p)
        /\ (\A i \in st.active : gs[i].at <= last) /\ ((\A x \in DOMAIN us : us[x] >= 0) => Covered(st))
    BY DEF Stood
  <1>1. /\ c \in Standing(gs) /\ Value(c) = Value(st) + Total(Came(gs, last, p), Amounts(gs))
        /\ (\A i \in c.active : gs[i].at <= p /\ p < ExpiresAt(gs[i])) /\ (Covered(st) => Covered(c))
    BY <1>p, <1>s, ReadyKeeps
  <1>2. /\ Total(CameUntil(gs, p), Amounts(gs)) = Total(CameUntil(gs, last), Amounts(gs)) + Total(Came(gs, last, p), Amounts(gs))
        /\ Total(CameUntil(gs, last), Amounts(gs)) \in Int /\ Total(Came(gs, last, p), Amounts(gs)) \in Int
    <2>1. PICK A, B, U, f : A = CameUntil(gs, last) /\ B = Came(gs, last, p) /\ U = CameUntil(gs, p) /\ f = Amounts(gs)
      OBVIOUS
    <2>2. U = A \cup B /\ A \cap B = {}
      <3>1. \A i \in DOMAIN gs : gs[i].at \in Nat
        BY DEF Rows
      <3> QED
        BY <1>p, <2>1, <3>1 DEF Came, CameUntil
    <2>3. IsFiniteSet(U) /\ \A i \in U : f[i] \in Int
      <3>1. U \in SUBSET DOMAIN gs
        BY <2>1 DEF CameUntil
      <3> QED
        BY <2>1, <3>1, AmountTypes, RowNumbers
    <2>4. Total(U, f) = Total(A, f) + Total(B, f) /\ Total(A, f) \in Int /\ Total(B, f) \in Int
      <3>1. \A S, T : U = S \cup T /\ S \cap T = {} =>
               Total(U, f) = Total(S, f) + Total(T, f) /\ Total(S, f) \in Int /\ Total(T, f) \in Int
        BY <2>3, TotalOfBoth, Zenon
      <3> QED
        BY <2>2, <3>1, Zenon
    <2> QED
      BY <2>1, <2>4, Zenon
  <1>3. SpentIn(us, start, Until(points, p)) = SpentIn(us, start, p) + spent
    <2>1. Until(points, p) \in Int /\ p <= Until(points, p)
      BY <1>p, PointAfter DEF Spans
    <2> QED
      BY <1>p, <2>1, SpentJoins
  <1>4. spent \in Int /\ ((\A x \in DOMAIN us : us[x] >= 0) => spent \in Nat) /\ SpentIn(us, start, p) \in Int
    <2>1. Until(points, p) \in Int
      BY PointAfter DEF Spans
    <2> QED
      BY <1>p, <2>1, SpentTypes
  <1> HIDE DEF c, spent
  <1>5. t \in Standing(gs) /\ Value(t) = Value(c) - spent /\ t.active = c.active
    BY <1>1, <1>4, TakeValue
  <1>6. (\A x \in DOMAIN us : us[x] >= 0) => Covered(t)
    BY <1>1, <1>4, <1>s, TakeCovered
  <1> HIDE DEF t
  <1>7. Value(t) = Total(CameUntil(gs, p), Amounts(gs)) - SpentIn(us, start, Until(points, p))
    BY <1>1, <1>2, <1>3, <1>4, <1>5, <1>s
  <1>8. Stood(gs, us, points, start, t, p)
    BY <1>1, <1>5, <1>6, <1>7 DEF Stood
  <1> QED
    BY <1>8 DEF t, c, spent, Round, Ready

\* So every round leaves the account right.
LEMMA RoundsStand ==
    ASSUME NEW gs, Rows(gs), NEW us, Ledger(us), NEW points, NEW start, NEW now, Spans(points, start, now)
    PROVE  \A p \in points : Stood(gs, us, points, start, Rounds(gs, us, points)[p], p)
  <1> DEFINE S == Rounds(gs, us, points)
             H == {n \in Nat : \A p \in points : p < n => Stood(gs, us, points, start, S[p], p)}
  <1>r. \A p \in points : S[p] = Stand(gs, us, points, S, p)
    BY RoundsAre DEF Spans
  <1>t. \A p \in points : p \in Nat /\ start <= p
    BY TimesAre DEF Spans
  <1> HIDE DEF S
  <1>1. 0 \in H
    BY <1>t
  <1>2. ASSUME NEW n \in Nat, n \in H PROVE n + 1 \in H
    <2> SUFFICES ASSUME NEW p \in points, p < n + 1 PROVE Stood(gs, us, points, start, S[p], p)
      OBVIOUS
    <2>1. CASE Earlier(points, p) = {}
      <3>1. p = start
        BY <1>t, <2>1 DEF Earlier, Spans
      <3>2. S[p] = Round(gs, us, Nothing(gs), -1, points, p)
        BY <1>r, <2>1 DEF Stand
      <3> QED
        BY <3>1, <3>2, FirstRoundStands
    <2>2. CASE Earlier(points, p) # {}
      <3>1. PICK last : last = Max(Earlier(points, p))
        OBVIOUS
      <3>2. last \in points /\ last \in Nat /\ last < p /\ \A q \in points : q < p => q <= last
        BY <2>2, <3>1, PointBefore DEF Spans
      <3>3. S[p] = Round(gs, us, S[last], last, points, p)
        BY <1>r, <2>2, <3>1 DEF Stand
      <3>4. Until(points, last) = p
        <4>1. \A q \in points : last < q => p <= q
          BY <1>t, <3>2
        <4> QED
          BY <3>2, <4>1, PointAfter DEF Spans
      <3>5. Stood(gs, us, points, start, S[last], last)
        <4>1. last < n
          BY <1>t, <3>2
        <4> QED
          BY <1>2, <3>2, <4>1
      <3> QED
        BY <3>2, <3>3, <3>4, <3>5, NextRoundStands
    <2> QED
      BY <2>1, <2>2
  <1>3. ASSUME NEW p \in points PROVE Stood(gs, us, points, start, S[p], p)
    <2>1. p + 1 \in Nat /\ p < p + 1
      BY <1>t
    <2>2. p + 1 \in H
      <3> HIDE DEF H
      <3>1. Nat \subseteq H
        BY <1>1, <1>2, Counting
      <3> QED
        BY <2>1, <3>1
    <2> QED
      BY <2>1, <2>2
  <1> QED
    BY <1>3 DEF S

\* Nothing is lost or made, at whatever points the balance is worked out.
LEMMA BalancesOut ==
    ASSUME NEW gs, Rows(gs), NEW us, Ledger(us), NEW points, NEW start, NEW now, Spans(points, start, now),
           \A i \in DOMAIN gs : gs[i].at <= now
    PROVE  LET b == Result(Rounds(gs, us, points)[now], us, start)
           IN  b.left + b.lapsed + b.used = Total(DOMAIN gs, Amounts(gs))
  <1> DEFINE st == Rounds(gs, us, points)[now]
  <1>1. now \in points /\ Until(points, now) = Never /\ start \in Int /\ Never \in Int
    BY TimesAre, PointAfter DEF Spans
  <1>2. st \in Standing(gs) /\ Value(st) = Total(CameUntil(gs, now), Amounts(gs)) - SpentIn(us, start, Never)
    BY <1>1, RoundsStand DEF Stood
  <1>3. CameUntil(gs, now) = DOMAIN gs
    BY DEF CameUntil
  <1>4. Total(CameUntil(gs, now), Amounts(gs)) = Total(DOMAIN gs, Amounts(gs))
    BY <1>3, Zenon
  <1>5. Total(DOMAIN gs, Amounts(gs)) \in Int /\ SpentIn(us, start, Never) \in Int
    BY <1>1, AmountTypes, SpentTypes
  <1> HIDE DEF st
  <1>6. Total(st.active, st.left) \in Int /\ st.debt \in Int /\ st.lapsed \in Int
    BY <1>2, StandingParts
  <1>7. (Total(st.active, st.left) - st.debt) + st.lapsed + SpentIn(us, start, Never) = Total(DOMAIN gs, Amounts(gs))
    BY <1>2, <1>4, <1>5, <1>6 DEF Value
  <1> QED
    BY <1>7 DEF Result, st
------------------------------------------------------------------------------
(* The points are enough. *)

LEMMA PointsSpan ==
    ASSUME NEW gs, Rows(gs), NEW start \in Nat, NEW now \in Nat, start <= now, now < Never
    PROVE  /\ Spans(Points(gs, start, now), start, now) /\ Spans(start..now, start, now)
           /\ \A i \in DOMAIN gs : /\ start < gs[i].at /\ gs[i].at < now => gs[i].at \in Points(gs, start, now)
                                   /\ start < ExpiresAt(gs[i]) /\ ExpiresAt(gs[i]) < now => ExpiresAt(gs[i]) \in Points(gs, start, now)
  <1>1. \A i \in DOMAIN gs : gs[i].at \in Nat /\ ExpiresAt(gs[i]) \in Nat
    BY LapseTimes DEF Rows
  <1>2. Points(gs, start, now) \subseteq start..now /\ start \in Points(gs, start, now) /\ now \in Points(gs, start, now)
    BY <1>1 DEF Points
  <1>3. ASSUME NEW S, S \subseteq start..now, start \in S, now \in S PROVE Spans(S, start, now)
    BY <1>3 DEF Spans, Times
  <1>4. \A i \in DOMAIN gs : /\ start < gs[i].at /\ gs[i].at < now => gs[i].at \in Points(gs, start, now)
                             /\ start < ExpiresAt(gs[i]) /\ ExpiresAt(gs[i]) < now => ExpiresAt(gs[i]) \in Points(gs, start, now)
    BY DEF Points
  <1>5. Spans(start..now, start, now)
    <2>1. start \in start..now /\ now \in start..now
      OBVIOUS
    <2> QED
      BY <1>3, <2>1
  <1> QED
    BY <1>2, <1>3, <1>4, <1>5

\* How both ways of working stand in month m: from what was ready at the last point k, the one spent what
\* was used until the next point, the other what was used until the next month.
Agree(gs, us, points, months, k, m, c) ==
    /\ k \in points /\ k <= m /\ \A q \in points : q <= m => q <= k
    /\ c \in Standing(gs) /\ Covered(c)
    /\ \A i \in c.active : gs[i].at <= k /\ k < ExpiresAt(gs[i])
    /\ Rounds(gs, us, points)[k] = Take(gs, c, SpentIn(us, k, Until(points, k)))
    /\ Rounds(gs, us, months)[m] = Take(gs, c, SpentIn(us, k, Until(months, m)))

LEMMA MonthAfter ==
    ASSUME NEW start \in Nat, NEW now \in Nat, now < Never, NEW m \in start..now
    PROVE  /\ Until(start..now, m) = IF m = now THEN Never ELSE m + 1
           /\ Earlier(start..now, start) = {}
           /\ m < now => Earlier(start..now, m + 1) # {} /\ Max(Earlier(start..now, m + 1)) = m
  <1>1. Times(start..now, now)
    BY DEF Times
  <1>2. m < now => Until(start..now, m) = m + 1
    <2> SUFFICES ASSUME m < now PROVE Until(start..now, m) = m + 1
      OBVIOUS
    <2>1. m + 1 \in start..now /\ m < m + 1 /\ \A r \in start..now : m < r => m + 1 <= r
      OBVIOUS
    <2> QED
      BY <1>1, <2>1, PointAfter
  <1>3. m = now => Until(start..now, m) = Never
    BY <1>1, PointAfter
  <1>4. m < now => Earlier(start..now, m + 1) # {} /\ Max(Earlier(start..now, m + 1)) = m
    <2> SUFFICES ASSUME m < now PROVE Earlier(start..now, m + 1) # {} /\ Max(Earlier(start..now, m + 1)) = m
      OBVIOUS
    <2>1. m \in Earlier(start..now, m + 1) /\ m + 1 \in start..now
      BY DEF Earlier
    <2>2. PICK last : last = Max(Earlier(start..now, m + 1))
      OBVIOUS
    <2>3. last \in start..now /\ last < m + 1 /\ \A q \in start..now : q < m + 1 => q <= last
      BY <1>1, <2>1, <2>2, PointBefore
    <2>4. m < m + 1 /\ m <= last /\ last <= m
      BY <2>3
    <2> QED
      BY <2>1, <2>2, <2>3, <2>4
  <1>5. Earlier(start..now, start) = {}
    BY DEF Earlier
  <1> QED
    BY <1>2, <1>3, <1>4, <1>5

\* They start together.
LEMMA AgreeAtFirst ==
    ASSUME NEW gs, Rows(gs), NEW us, Ledger(us), \A t \in DOMAIN us : us[t] >= 0,
           NEW start \in Nat, NEW now \in Nat, start <= now, now < Never
    PROVE  \E c : Agree(gs, us, Points(gs, start, now), start..now, start, start, c)
  <1> DEFINE c == Ready(gs, Nothing(gs), -1, start)
  <1>1. PICK P, M : P = Points(gs, start, now) /\ M = start..now
    OBVIOUS
  <1>2. Spans(P, start, now) /\ Spans(M, start, now)
    BY <1>1, PointsSpan
  <1>3. Rounds(gs, us, P)[start] = Stand(gs, us, P, Rounds(gs, us, P), start) /\ Rounds(gs, us, M)[start] = Stand(gs, us, M, Rounds(gs, us, M), start)
    BY <1>2, RoundsAre DEF Spans
  <1>4. Earlier(P, start) = {} /\ Earlier(M, start) = {}
    BY <1>2, TimesAre DEF Earlier, Spans
  <1>5. Rounds(gs, us, P)[start] = Take(gs, c, SpentIn(us, start, Until(P, start))) /\ Rounds(gs, us, M)[start] = Take(gs, c, SpentIn(us, start, Until(M, start)))
    BY <1>3, <1>4 DEF Stand, Round, Ready
  <1>6. c \in Standing(gs) /\ Covered(c) /\ \A i \in c.active : gs[i].at <= start /\ start < ExpiresAt(gs[i])
    <2>1. (\A i \in Nothing(gs).active : gs[i].at <= -1) /\ Nothing(gs) \in Standing(gs) /\ Covered(Nothing(gs))
      BY NothingStands
    <2>2. -1 \in Int /\ -1 <= start /\ start \in Int
      OBVIOUS
    <2> QED
      BY <2>1, <2>2, ReadyKeeps
  <1>7. start \in P /\ start <= start /\ \A q \in P : q <= start => q <= start
    BY <1>2 DEF Spans
  <1> HIDE DEF c
  <1>8. Agree(gs, us, P, M, start, start, c)
    BY <1>5, <1>6, <1>7 DEF Agree
  <1> QED
    BY <1>1, <1>8

\* A month with nothing to come or lapse: what it spends is spent on top.
LEMMA AgreeBetween ==
    ASSUME NEW gs, Rows(gs), NEW us, Ledger(us), \A t \in DOMAIN us : us[t] >= 0,
           NEW start \in Nat, NEW now \in Nat, start <= now, now < Never,
           NEW m \in start..now, m < now, m + 1 \notin Points(gs, start, now),
           NEW k, NEW c, Agree(gs, us, Points(gs, start, now), start..now, k, m, c)
    PROVE  Agree(gs, us, Points(gs, start, now), start..now, k, m + 1, c)
  <1>1. PICK P, M : P = Points(gs, start, now) /\ M = start..now
    OBVIOUS
  <1>2. Spans(P, start, now) /\ Spans(M, start, now)
    BY <1>1, PointsSpan
  <1>a. Agree(gs, us, P, M, k, m, c) /\ m + 1 \notin P
    BY <1>1
  <1>b. /\ k \in P /\ k <= m /\ (\A q \in P : q <= m => q <= k) /\ c \in Standing(gs) /\ Covered(c)
        /\ (\A i \in c.active : gs[i].at <= k /\ k < ExpiresAt(gs[i]))
        /\ Rounds(gs, us, P)[k] = Take(gs, c, SpentIn(us, k, Until(P, k)))
        /\ Rounds(gs, us, M)[m] = Take(gs, c, SpentIn(us, k, Until(M, m)))
    BY <1>a DEF Agree
  <1>c. Until(M, m) = m + 1 /\ Earlier(M, m + 1) # {} /\ Max(Earlier(M, m + 1)) = m
    BY <1>1, MonthAfter
  <1>t. k \in Nat /\ start <= k /\ m \in Nat /\ now \in P /\ m + 1 < now /\ m + 1 \in M
    <2>1. k \in Nat /\ start <= k /\ now \in P
      BY <1>b, <1>2, TimesAre DEF Spans
    <2>2. m + 1 # now
      BY <1>a, <2>1
    <2> QED
      BY <1>1, <2>1, <2>2
  <1>d. PICK a \in Nat : a = SpentIn(us, k, m + 1)
    BY <1>t, SpentTypes
  <1>e. Until(M, m + 1) \in Nat /\ m + 1 < Until(M, m + 1)
    BY <1>2, <1>t, PointAfter DEF Spans
  <1>f. PICK b \in Nat : b = SpentIn(us, m + 1, Until(M, m + 1))
    BY <1>e, <1>t, SpentTypes
  <1>3. a + b = SpentIn(us, k, Until(M, m + 1))
    <2>1. k <= m + 1 /\ m + 1 <= Until(M, m + 1) /\ k \in Int /\ m + 1 \in Int /\ Until(M, m + 1) \in Int
      BY <1>b, <1>e, <1>t
    <2>2. SpentIn(us, k, Until(M, m + 1)) = SpentIn(us, k, m + 1) + SpentIn(us, m + 1, Until(M, m + 1))
      BY <2>1, SpentJoins
    <2> QED
      BY <1>d, <1>f, <2>2
  <1>4. PICK st : st = Take(gs, c, a)
    OBVIOUS
  <1>5. Rounds(gs, us, M)[m] = st /\ st \in Standing(gs) /\ st.active = c.active
    <2>1. Take(gs, c, a) \in Standing(gs) /\ Take(gs, c, a).active = c.active
      <3>1. a \in Int /\ c \in Standing(gs)
        BY <1>b
      <3> QED
        BY <3>1, TakeValue
    <2> QED
      BY <1>b, <1>c, <1>d, <1>4, <2>1
  <1>6. Came(gs, m, m + 1) = {}
    <2>1. ASSUME NEW i \in DOMAIN gs, m < gs[i].at, gs[i].at <= m + 1 PROVE FALSE
      <3>1. gs[i].at \in Nat
        BY DEF Rows
      <3>2. gs[i].at = m + 1
        BY <1>t, <2>1, <3>1
      <3>3. m + 1 \in P
        BY <1>1, <1>t, <3>2, PointsSpan
      <3> QED
        BY <1>a, <3>3
    <2> QED
      BY <2>1 DEF Came
  <1>7. \A i \in st.active : ~(ExpiresAt(gs[i]) <= m + 1)
    <2> SUFFICES ASSUME NEW i \in c.active, ExpiresAt(gs[i]) <= m + 1 PROVE FALSE
      BY <1>5
    <2>1. i \in DOMAIN gs /\ k < ExpiresAt(gs[i]) /\ ExpiresAt(gs[i]) \in Nat
      BY <1>b, StandingParts, LapseTimes
    <2>2. ExpiresAt(gs[i]) \in P
      BY <1>1, <1>t, <2>1, PointsSpan
    <2>3. ExpiresAt(gs[i]) # m + 1
      BY <1>a, <2>2
    <2>4. ExpiresAt(gs[i]) <= m
      BY <1>t, <2>1, <2>3
    <2> QED
      BY <1>b, <1>t, <2>1, <2>2, <2>4
  <1>8. Rounds(gs, us, M)[m + 1] = Round(gs, us, st, m, M, m + 1)
    <2>1. Rounds(gs, us, M)[m + 1] = Stand(gs, us, M, Rounds(gs, us, M), m + 1)
      BY <1>2, <1>t, RoundsAre DEF Spans
    <2> QED
      BY <1>c, <1>5, <2>1 DEF Stand
  <1>9. Round(gs, us, st, m, M, m + 1) = Take(gs, st, b)
    <2>1. Come(gs, st, m, m + 1) = st
      BY <1>6, ComeNone
    <2>2. Lapse(gs, st, m + 1) = st
      BY <1>5, <1>7, <1>t, LapseSame
    <2> QED
      BY <1>f, <2>1, <2>2 DEF Round
  <1>10. Rounds(gs, us, M)[m + 1] = Take(gs, c, SpentIn(us, k, Until(M, m + 1)))
    <2>1. Take(gs, Take(gs, c, a), b) = Take(gs, c, a + b)
      BY <1>b, TakeTwice
    <2> QED
      BY <1>3, <1>4, <1>8, <1>9, <2>1
  <1>11. k <= m + 1 /\ \A q \in P : q <= m + 1 => q <= k
    <2> SUFFICES ASSUME NEW q \in P, q <= m + 1 PROVE q <= k
      BY <1>b, <1>t
    <2>1. q \in Nat /\ q # m + 1
      BY <1>2, <1>a, TimesAre DEF Spans
    <2>2. q <= m
      BY <1>t, <2>1
    <2> QED
      BY <1>b, <2>2
  <1>12. Agree(gs, us, P, M, k, m + 1, c)
    BY <1>b, <1>10, <1>11 DEF Agree
  <1> QED
    BY <1>1, <1>12

\* A month that is a point: both stood the same before it, and the same comes and lapses.
LEMMA AgreeAtPoint ==
    ASSUME NEW gs, Rows(gs), NEW us, Ledger(us), \A t \in DOMAIN us : us[t] >= 0,
           NEW start \in Nat, NEW now \in Nat, start <= now, now < Never,
           NEW m \in start..now, m < now, m + 1 \in Points(gs, start, now),
           NEW k, NEW c, Agree(gs, us, Points(gs, start, now), start..now, k, m, c)
    PROVE  \E d : Agree(gs, us, Points(gs, start, now), start..now, m + 1, m + 1, d)
  <1>1. PICK P, M : P = Points(gs, start, now) /\ M = start..now
    OBVIOUS
  <1>2. Spans(P, start, now) /\ Spans(M, start, now)
    BY <1>1, PointsSpan
  <1>a. Agree(gs, us, P, M, k, m, c) /\ m + 1 \in P
    BY <1>1
  <1>b. /\ k \in P /\ k <= m /\ (\A q \in P : q <= m => q <= k) /\ c \in Standing(gs) /\ Covered(c)
        /\ (\A i \in c.active : gs[i].at <= k /\ k < ExpiresAt(gs[i]))
        /\ Rounds(gs, us, P)[k] = Take(gs, c, SpentIn(us, k, Until(P, k)))
        /\ Rounds(gs, us, M)[m] = Take(gs, c, SpentIn(us, k, Until(M, m)))
    BY <1>a DEF Agree
  <1>c. Until(M, m) = m + 1 /\ Earlier(M, m + 1) # {} /\ Max(Earlier(M, m + 1)) = m
    BY <1>1, MonthAfter
  <1>t. k \in Nat /\ start <= k /\ m \in Nat /\ m + 1 \in M /\ \A q \in P : q \in Nat
    BY <1>1, <1>2, <1>b, TimesAre DEF Spans
  <1>3. Until(P, k) = m + 1
    <2>1. k < m + 1 /\ \A r \in P : k < r => m + 1 <= r
      BY <1>b, <1>t
    <2> QED
      BY <1>2, <1>a, <1>b, <2>1, PointAfter DEF Spans
  <1>4. Earlier(P, m + 1) # {} /\ Max(Earlier(P, m + 1)) = k
    <2>1. k \in Earlier(P, m + 1)
      BY <1>b, <1>t DEF Earlier
    <2>2. PICK last : last = Max(Earlier(P, m + 1))
      OBVIOUS
    <2>3. last \in P /\ last < m + 1 /\ \A q \in P : q < m + 1 => q <= last
      BY <1>2, <1>a, <2>1, <2>2, PointBefore DEF Spans
    <2>4. last <= k /\ k <= last
      BY <1>b, <1>t, <2>3
    <2> QED
      BY <1>t, <2>1, <2>2, <2>3, <2>4
  <1>5. PICK st : st = Rounds(gs, us, M)[m]
    OBVIOUS
  <1>6. Rounds(gs, us, P)[k] = st
    BY <1>3, <1>5, <1>b, <1>c
  <1>s. st \in Standing(gs) /\ st.active = c.active /\ Covered(st)
    <2>1. SpentIn(us, k, m + 1) \in Nat
      BY <1>t, SpentTypes
    <2>2. PICK a \in Nat : a = SpentIn(us, k, m + 1)
      BY <2>1
    <2>3. st = Take(gs, c, a)
      BY <1>5, <1>b, <1>c, <2>2
    <2>4. Take(gs, c, a) \in Standing(gs) /\ Take(gs, c, a).active = c.active /\ Covered(Take(gs, c, a))
      BY <1>b, TakeValue, TakeCovered
    <2> QED
      BY <2>3, <2>4
  <1>7. Came(gs, k, m + 1) = Came(gs, m, m + 1)
    <2>1. ASSUME NEW i \in DOMAIN gs, k < gs[i].at, gs[i].at <= m PROVE FALSE
      <3>1. gs[i].at \in Nat
        BY DEF Rows
      <3>2. gs[i].at \in P
        BY <1>1, <1>t, <2>1, <3>1, PointsSpan
      <3> QED
        BY <1>b, <1>t, <2>1, <3>1, <3>2
    <2>2. \A i \in DOMAIN gs : gs[i].at \in Nat
      BY DEF Rows
    <2>3. \A i \in DOMAIN gs : k < gs[i].at <=> m < gs[i].at
      BY <1>b, <1>t, <2>1, <2>2
    <2> QED
      BY <2>3 DEF Came
  <1> DEFINE d == Ready(gs, st, m, m + 1)
  <1>8. Ready(gs, st, k, m + 1) = d
    BY <1>7, ComeSame DEF Ready
  <1>9. d \in Standing(gs) /\ Covered(d) /\ \A i \in d.active : gs[i].at <= m + 1 /\ m + 1 < ExpiresAt(gs[i])
    <2>1. \A i \in st.active : gs[i].at <= m
      <3>1. \A i \in c.active : gs[i].at \in Nat
        BY <1>b, StandingParts DEF Rows
      <3> QED
        BY <1>b, <1>s, <1>t, <3>1
    <2>2. m \in Int /\ m + 1 \in Int /\ m <= m + 1
      BY <1>t
    <2> QED
      BY <1>s, <2>1, <2>2, ReadyKeeps
  <1>10. Rounds(gs, us, P)[m + 1] = Take(gs, d, SpentIn(us, m + 1, Until(P, m + 1)))
    <2>1. Rounds(gs, us, P)[m + 1] = Stand(gs, us, P, Rounds(gs, us, P), m + 1)
      BY <1>2, <1>a, RoundsAre DEF Spans
    <2>2. Rounds(gs, us, P)[m + 1] = Round(gs, us, st, k, P, m + 1)
      BY <1>4, <1>6, <2>1 DEF Stand
    <2> HIDE DEF d
    <2>3. Lapse(gs, Come(gs, st, k, m + 1), m + 1) = d
      BY <1>8 DEF Ready
    <2> QED
      BY <2>2, <2>3 DEF Round
  <1>11. Rounds(gs, us, M)[m + 1] = Take(gs, d, SpentIn(us, m + 1, Until(M, m + 1)))
    <2>1. Rounds(gs, us, M)[m + 1] = Stand(gs, us, M, Rounds(gs, us, M), m + 1)
      BY <1>2, <1>t, RoundsAre DEF Spans
    <2>2. Rounds(gs, us, M)[m + 1] = Round(gs, us, st, m, M, m + 1)
      BY <1>c, <1>5, <2>1 DEF Stand
    <2> QED
      BY <2>2 DEF Round, Ready
  <1> HIDE DEF d
  <1>12. Agree(gs, us, P, M, m + 1, m + 1, d)
    <2>1. m + 1 <= m + 1 /\ \A q \in P : q <= m + 1 => q <= m + 1
      BY <1>t
    <2> QED
      BY <1>a, <1>9, <1>10, <1>11, <2>1 DEF Agree
  <1> QED
    BY <1>1, <1>12

\* The points balance works at come to the same as month after month, while no call was given back.
LEMMA PointsAreEnough ==
    ASSUME NEW gs, Rows(gs), NEW us, Ledger(us), \A t \in DOMAIN us : us[t] >= 0,
           NEW start \in Nat, NEW now \in Nat, start <= now, now < Never
    PROVE  balance(gs, us, start, now) = MonthByMonth(gs, us, start, now)
  <1>1. PICK P, M : P = Points(gs, start, now) /\ M = start..now
    OBVIOUS
  <1>2. Spans(P, start, now) /\ Spans(M, start, now)
    BY <1>1, PointsSpan
  <1> DEFINE Both(m) == \E k, c : Agree(gs, us, Points(gs, start, now), start..now, k, m, c)
             H == {n \in Nat : start + n <= now => Both(start + n)}
  <1>3. 0 \in H
    <2>1. start + 0 = start
      OBVIOUS
    <2> QED
      BY <2>1, AgreeAtFirst
  <1>4. ASSUME NEW n \in Nat, n \in H PROVE n + 1 \in H
    <2> SUFFICES ASSUME start + (n + 1) <= now PROVE Both(start + (n + 1))
      OBVIOUS
    <2>1. PICK m : m = start + n
      OBVIOUS
    <2>2. m \in start..now /\ m < now /\ start + (n + 1) = m + 1
      BY <2>1
    <2>3. PICK k, c : Agree(gs, us, Points(gs, start, now), start..now, k, m, c)
      BY <1>4, <2>1, <2>2
    <2>4. Both(m + 1)
      <3>1. CASE m + 1 \in Points(gs, start, now)
        <4>1. \E d : Agree(gs, us, Points(gs, start, now), start..now, m + 1, m + 1, d)
          BY <2>2, <2>3, <3>1, AgreeAtPoint
        <4> QED
          BY <4>1
      <3>2. CASE m + 1 \notin Points(gs, start, now)
        <4>1. Agree(gs, us, Points(gs, start, now), start..now, k, m + 1, c)
          BY <2>2, <2>3, <3>2, AgreeBetween
        <4> QED
          BY <4>1
      <3> QED
        BY <3>1, <3>2
    <2> HIDE DEF Both
    <2> QED
      BY <2>2, <2>4
  <1>5. Both(now)
    <2> HIDE DEF H
    <2>1. Nat \subseteq H
      BY <1>3, <1>4, Counting
    <2>2. now - start \in Nat /\ start + (now - start) = now
      OBVIOUS
    <2>3. now - start \in H
      BY <2>1, <2>2
    <2> HIDE DEF Both
    <2> QED
      BY <2>2, <2>3 DEF H
  <1>6. PICK k, c : Agree(gs, us, P, M, k, now, c)
    BY <1>1, <1>5
  <1>7. k = now
    <2>1. now \in P /\ k \in P /\ now \in Int /\ k \in Int
      BY <1>2, <1>6, TimesAre DEF Spans, Agree
    <2> QED
      BY <1>6, <2>1 DEF Agree
  <1>8. Until(P, now) = Never /\ Until(M, now) = Never
    BY <1>2, TimesAre, PointAfter DEF Spans
  <1>9. Rounds(gs, us, P)[now] = Rounds(gs, us, M)[now]
    BY <1>6, <1>7, <1>8 DEF Agree
  <1> QED
    BY <1>1, <1>9 DEF balance, MonthByMonth
------------------------------------------------------------------------------
(* The types of Billing. *)

Kinds == {"trial", "plan", "topup", "refund", "admin"}
GrantRows == [kind : Kinds, credits : Int \ {0}, for : Items \cup Checkouts \cup {None}, at : 0..LastMonth]
OrderRows == [item : Items \cup {None}, paid : BOOLEAN, claimed : BOOLEAN, browser : BOOLEAN]
InvoiceRows == [count : Nat, credits : Nat, plan : Plans \cup {None}]
HandlerRows == [pc : {"idle", "account", "claim", "grant", "remember", "answer"}, of : Checkouts \cup {None}, hook : BOOLEAN]
AdminRows == [pc : {"idle", "ask", "take", "undo"}, of : Checkouts \cup {None}]

OwnerOK == since \in (0..LastMonth) \cup {None} /\ plan \in Plans \cup {None} /\ grants \in Seq(GrantRows)
OrdersOK == orders \in [Checkouts -> OrderRows] /\ \A c \in Checkouts : orders[c].item = None => orders[c] = Unopened
EventsOK == event \in [Checkouts -> {"none", "sent", "answered"}] /\ seen \subseteq Checkouts
InvoicesOK == invoices \in [Checkouts -> InvoiceRows]
HandlerOK == handler \in [Handlers -> HandlerRows] /\ \A h \in Handlers : handler[h] = Idle \/ handler[h].of \in Checkouts
RefundsOK ==
    /\ refunded \in [Checkouts -> {"none", "claimed", "refunded"}] /\ sentBack \in [Checkouts -> {0, 1}]
    /\ admin \in [Admins -> AdminRows] /\ \A a \in Admins : admin[a] = Resting \/ (admin[a].pc # "idle" /\ admin[a].of \in Checkouts)
LedgerOK == usage \in [0..LastMonth -> Int] /\ month \in 0..LastMonth /\ asked \subseteq Jobs
BoundsOK == given \in 0..MaxGiven /\ crashes \in 0..MaxCrashes

TypeInv == OwnerOK /\ OrdersOK /\ EventsOK /\ InvoicesOK /\ HandlerOK /\ RefundsOK /\ LedgerOK /\ BoundsOK
------------------------------------------------------------------------------
(* A payment is granted once. *)

\* An account that was never read has no rows, and nothing was bought for it.
Unread0 == since = None => grants = <<>> /\ \A c \in Checkouts : orders[c] = Unopened

\* What a payment has come to: an invoice once it was claimed; without an event, only a purchase that
\* was paid at once has one.
Payment(c) ==
    LET done == invoices[c].count IN
    /\ event[c] # "none" => orders[c].paid /\ done = IF orders[c].claimed THEN 1 ELSE 0
    /\ event[c] = "none" => ~orders[c].claimed /\ ~orders[c].browser /\ done <= 1 /\ c \notin seen
    /\ ~orders[c].paid => event[c] = "none" /\ done = 0
    /\ event[c] = "answered" \/ c \in seen => orders[c].claimed

\* A request works on a payment that came in, and is answered once that is claimed; a purchase at once
\* is the work of one request.
Handling(h) ==
    LET c == handler[h].of IN
    /\ handler[h].pc \in {"account", "claim", "remember", "answer"} => event[c] # "none"
    /\ handler[h].pc \in {"remember", "answer"} => orders[c].claimed
    /\ handler[h].pc = "grant" =>
          /\ event[c] = "none" /\ orders[c].paid /\ invoices[c].count = 0
          /\ \A g \in Handlers : handler[g].pc = "grant" /\ handler[g].of = c => g = h

\* One row for a plan and a month.
SameMonth(p, q) == p.kind = "plan" /\ q.kind = "plan" /\ p.for = q.for /\ p.at = q.at
Once(rows) == \A i, j \in DOMAIN rows : SameMonth(rows[i], rows[j]) => i = j

PaidInv ==
    Unread0 /\ (\A c \in Checkouts : Payment(c)) /\ (\A h \in Handlers : Handling(h)) /\ Once(grants)
------------------------------------------------------------------------------
(* A refund is whole. *)

RefundRows(rows, c) == {i \in DOMAIN rows : rows[i].kind = "refund" /\ rows[i].for = c}

\* The rows take back `took`, in one row, or nothing.
Taken(rows, c, took) ==
    IF took = 0 THEN RefundRows(rows, c) = {} ELSE \E i \in DOMAIN rows : RefundRows(rows, c) = {i} /\ rows[i].credits = -took

Refund(c) ==
    /\ refunded[c] # "none" => invoices[c].count = 1
    /\ refunded[c] = "refunded" => sentBack[c] = 1
    /\ refunded[c] = "claimed" => crashes > 0 \/ \E a \in Admins : admin[a].of = c
    /\ Taken(grants, c, IF refunded[c] = "refunded" THEN invoices[c].credits ELSE 0)

\* A refund under way has the claim to itself, and takes the credits after the money went.
Claims(a) ==
    LET c == admin[a].of IN
    admin[a] # Resting =>
        /\ refunded[c] = "claimed" /\ \A b \in Admins : admin[b].of = c => b = a
        /\ admin[a].pc = "take" => sentBack[c] = 1

RefundInv == (\A c \in Checkouts : Refund(c)) /\ (\A a \in Admins : Claims(a))
------------------------------------------------------------------------------
(* Rows. *)

\* What comes of a row more.
LEMMA RowMore ==
    ASSUME NEW rows \in Seq(GrantRows), NEW g \in GrantRows
    PROVE  /\ Append(rows, g) \in Seq(GrantRows)
           /\ DOMAIN Append(rows, g) = DOMAIN rows \cup {Len(rows) + 1} /\ Len(rows) + 1 \notin DOMAIN rows
           /\ Append(rows, g)[Len(rows) + 1] = g /\ \A i \in DOMAIN rows : Append(rows, g)[i] = rows[i]
  OBVIOUS

NewMonth(rows, g) == \A i \in DOMAIN rows : ~SameMonth(rows[i], g)

LEMMA OnceMore ==
    ASSUME NEW rows \in Seq(GrantRows), NEW g \in GrantRows, Once(rows), NewMonth(rows, g)
    PROVE  Once(Append(rows, g))
  <1> DEFINE more == Append(rows, g)
             n == Len(rows) + 1
  <1>1. DOMAIN more = DOMAIN rows \cup {n} /\ more[n] = g /\ \A i \in DOMAIN rows : more[i] = rows[i]
    BY RowMore
  <1> HIDE DEF more, n
  <1>2. \A i, j \in DOMAIN more : SameMonth(more[i], more[j]) => i = j
    BY <1>1 DEF Once, NewMonth, SameMonth
  <1> QED
    BY <1>2 DEF Once, more

LEMMA TakenMore ==
    ASSUME NEW rows \in Seq(GrantRows), NEW g \in GrantRows, NEW c, ~(g.kind = "refund" /\ g.for = c),
           NEW took, Taken(rows, c, took)
    PROVE  Taken(Append(rows, g), c, took)
  <1> DEFINE more == Append(rows, g)
             n == Len(rows) + 1
  <1>1. DOMAIN more = DOMAIN rows \cup {n} /\ more[n] = g /\ \A i \in DOMAIN rows : more[i] = rows[i]
    BY RowMore
  <1> HIDE DEF more, n
  <1>2. RefundRows(more, c) = RefundRows(rows, c)
    BY <1>1 DEF RefundRows
  <1>3. Taken(more, c, took)
    BY <1>1, <1>2 DEF Taken
  <1> QED
    BY <1>3 DEF more

LEMMA TakenOne ==
    ASSUME NEW rows \in Seq(GrantRows), NEW g \in GrantRows, NEW c, g.kind = "refund", g.for = c,
           Taken(rows, c, 0), NEW took \in Int \ {0}, g.credits = -took
    PROVE  Taken(Append(rows, g), c, took)
  <1> DEFINE more == Append(rows, g)
             n == Len(rows) + 1
  <1>1. DOMAIN more = DOMAIN rows \cup {n} /\ more[n] = g /\ \A i \in DOMAIN rows : more[i] = rows[i]
    BY RowMore
  <1> HIDE DEF more, n
  <1>2. RefundRows(rows, c) = {}
    BY DEF Taken
  <1>3. RefundRows(more, c) = {n}
    BY <1>1, <1>2 DEF RefundRows
  <1>4. Taken(more, c, took)
    BY <1>1, <1>3 DEF Taken
  <1> QED
    BY <1>4 DEF more

\* Rows that keep what the invariants say of them, and are no refund of a payment.
Keeps(rows, more) ==
    /\ more \in Seq(GrantRows) /\ (Once(rows) => Once(more))
    /\ \A c \in Checkouts : \A took \in Nat : Taken(rows, c, took) => Taken(more, c, took)

LEMMA KeepsSame == ASSUME NEW rows \in Seq(GrantRows) PROVE Keeps(rows, rows)
  BY DEF Keeps

LEMMA KeepsMore ==
    ASSUME NEW rows \in Seq(GrantRows), NEW g \in GrantRows, NewMonth(rows, g), g.kind = "refund" => g.for = None
    PROVE  Keeps(rows, Append(rows, g))
  <1>1. Append(rows, g) \in Seq(GrantRows)
    BY RowMore
  <1>2. Once(rows) => Once(Append(rows, g))
    BY OnceMore
  <1>3. ASSUME NEW c \in Checkouts, NEW took \in Nat, Taken(rows, c, took) PROVE Taken(Append(rows, g), c, took)
    <2>1. ~(g.kind = "refund" /\ g.for = c)
      BY BillingAssumption
    <2> QED
      BY <1>3, <2>1, TakenMore
  <1> QED
    BY <1>1, <1>2, <1>3 DEF Keeps

LEMMA KeepsTwice ==
    ASSUME NEW rows, NEW more, NEW most, Keeps(rows, more), Keeps(more, most)
    PROVE  Keeps(rows, most)
  BY DEF Keeps

\* What a month's plan, a purchase and an admin write is a row.
LEMMA GrantIsRow ==
    ASSUME TypeInv, NEW kind \in Kinds, NEW credits \in Int \ {0}, NEW what \in Items \cup Checkouts \cup {None}
    PROVE  /\ Grant(kind, credits, what) \in GrantRows
           /\ Grant(kind, credits, what).kind = kind /\ Grant(kind, credits, what).for = what
           /\ Grant(kind, credits, what).credits = credits /\ Grant(kind, credits, what).at = month
  BY DEF TypeInv, LedgerOK, GrantRows, Grant

\* Reading the account writes the trial, the month's credits of its plan, or nothing.
LEMMA AccountKeeps ==
    ASSUME TypeInv, PaidInv
    PROVE  Account \in Seq(GrantRows) /\ Keeps(grants, Account)
  <1>0. grants \in Seq(GrantRows) /\ plan \in Plans \cup {None}
    BY DEF TypeInv, OwnerOK
  <1>1. CASE since = None
    <2> DEFINE g == Grant("trial", TrialCredits, None)
    <2>1. g \in GrantRows /\ g.kind = "trial"
      BY GrantIsRow, BillingAssumption DEF Kinds
    <2>2. grants = <<>> /\ Account = <<g>>
      BY <1>1 DEF PaidInv, Unread0, Account
    <2> HIDE DEF g
    <2>3. Account = Append(grants, g)
      BY <2>2
    <2>4. NewMonth(grants, g)
      BY <2>1 DEF NewMonth, SameMonth
    <2> QED
      BY <1>0, <2>1, <2>3, <2>4, KeepsMore, RowMore
  <1>2. CASE since # None /\ plan # None /\ PlanGrantsNow = {}
    <2> DEFINE g == Grant("plan", PlanCredits[plan], plan)
    <2>1. g \in GrantRows /\ g.kind = "plan" /\ g.at = month
      BY <1>0, <1>2, GrantIsRow, BillingAssumption DEF Kinds, Items
    <2>2. Account = Append(grants, g)
      BY <1>2 DEF Account
    <2> HIDE DEF g
    <2>3. NewMonth(grants, g)
      BY <1>2, <2>1 DEF NewMonth, SameMonth, PlanGrantsNow
    <2> QED
      BY <1>0, <2>1, <2>2, <2>3, KeepsMore, RowMore
  <1>3. CASE since # None /\ ~(plan # None /\ PlanGrantsNow = {})
    BY <1>0, <1>3, KeepsSame DEF Account
  <1> QED
    BY <1>1, <1>2, <1>3

LEMMA ReadKeeps ==
    ASSUME TypeInv, PaidInv, ReadAccount(Account)
    PROVE  OwnerOK' /\ Keeps(grants, grants') /\ since' # None
  <1>1. since' \in 0..LastMonth
    BY DEF ReadAccount, TypeInv, OwnerOK, LedgerOK
  <1>2. since' # None
    BY <1>1, BillingAssumption
  <1> QED
    BY <1>1, <1>2, AccountKeeps DEF ReadAccount, TypeInv, OwnerOK

\* A purchase completed: its credits, once for a plan and a month, and its invoice.
LEMMA CompleteKeeps ==
    ASSUME TypeInv, PaidInv, NEW c \in Checkouts, NEW item \in Items, Complete(c, item)
    PROVE  /\ OwnerOK' /\ Keeps(grants, grants') /\ InvoicesOK' /\ since' = since
           /\ invoices'[c].count = invoices[c].count + 1
           /\ \A d \in Checkouts : d # c => invoices'[d] = invoices[d]
  <1> DEFINE credits == Granted(item)
             bought == IF item \in Plans THEN item ELSE None
             kind == IF item \in Plans THEN "plan" ELSE "topup"
             g == Grant(kind, credits, bought)
  <1>0. grants \in Seq(GrantRows) /\ invoices[c] \in InvoiceRows
    BY DEF TypeInv, OwnerOK, InvoicesOK
  <1>1. credits \in Nat /\ (item \in Plans /\ credits # 0 => ~HasPlanGrant(item))
    BY BillingAssumption DEF Granted, Items
  <1>2. bought \in Plans \cup {None} /\ kind \in Kinds
    BY DEF Kinds
  <1>3. /\ since' = since /\ plan' = IF item \in Plans THEN item ELSE plan
        /\ grants' = IF credits = 0 THEN grants ELSE Append(grants, g)
        /\ invoices' = [invoices EXCEPT ![c] = [count |-> @.count + 1, credits |-> credits, plan |-> bought]]
    BY DEF Complete
  <1>4. Keeps(grants, grants')
    <2>1. CASE credits = 0
      BY <1>0, <1>3, <2>1, KeepsSame
    <2>2. CASE credits # 0
      <3>1. g \in GrantRows /\ g.kind = kind /\ g.for = bought /\ g.at = month
        BY <1>1, <1>2, <2>2, GrantIsRow DEF Items
      <3>2. kind # "refund" /\ (kind = "plan" => item \in Plans)
        OBVIOUS
      <3>3. bought = IF item \in Plans THEN item ELSE None
        OBVIOUS
      <3> HIDE DEF g, kind, bought
      <3>4. NewMonth(grants, g)
        BY <1>1, <2>2, <3>1, <3>2, <3>3 DEF NewMonth, SameMonth, HasPlanGrant, PlanGrantsNow
      <3> QED
        BY <1>0, <1>3, <2>2, <3>1, <3>2, <3>4, KeepsMore
    <2> QED
      BY <2>1, <2>2
  <1>5. invoices'[c] = [count |-> invoices[c].count + 1, credits |-> credits, plan |-> bought]
        /\ \A d \in Checkouts : d # c => invoices'[d] = invoices[d]
    BY <1>3 DEF TypeInv, InvoicesOK
  <1>6. [count |-> invoices[c].count + 1, credits |-> credits, plan |-> bought] \in InvoiceRows
    BY <1>0, <1>1, <1>2 DEF InvoiceRows
  <1> HIDE DEF credits, bought
  <1>7. InvoicesOK'
    BY <1>3, <1>6 DEF TypeInv, InvoicesOK
  <1>8. OwnerOK'
    BY <1>3, <1>4 DEF TypeInv, OwnerOK, Keeps
  <1> QED
    BY <1>3, <1>4, <1>5, <1>7, <1>8

------------------------------------------------------------------------------
(* What a step that leaves a part alone keeps. *)

Inv == TypeInv /\ PaidInv /\ RefundInv

\* The refunds, when no invoice of a refund under way changes.
LEMMA RefundKept ==
    ASSUME TypeInv, RefundInv, UNCHANGED refunds, UNCHANGED crashes, Keeps(grants, grants'),
           \A c \in Checkouts : invoices'[c] = invoices[c] \/ refunded[c] = "none"
    PROVE  RefundInv'
  <1>1. \A a \in Admins : Claims(a)'
    BY DEF RefundInv, Claims, refunds
  <1>2. ASSUME NEW c \in Checkouts PROVE Refund(c)'
    <2>1. refunded' = refunded /\ sentBack' = sentBack /\ admin' = admin
      BY DEF refunds
    <2> DEFINE took == IF refunded[c] = "refunded" THEN invoices[c].credits ELSE 0
    <2>2. took \in Nat /\ Taken(grants, c, took)
      BY DEF RefundInv, Refund, TypeInv, InvoicesOK, InvoiceRows
    <2>3. Taken(grants', c, took)
      BY <2>2 DEF Keeps
    <2>4. took = IF refunded[c] = "refunded" THEN invoices'[c].credits ELSE 0
      OBVIOUS
    <2> HIDE DEF took
    <2>5. Taken(grants', c, IF refunded'[c] = "refunded" THEN invoices'[c].credits ELSE 0)
      BY <2>1, <2>3, <2>4
    <2> QED
      BY <2>1, <2>5 DEF RefundInv, Refund
  <1> QED
    BY <1>1, <1>2 DEF RefundInv

\* The payments, when rows come that keep them.
LEMMA PaidKept ==
    ASSUME PaidInv, UNCHANGED payments, Keeps(grants, grants'), since' # None \/ UNCHANGED <<since, grants>>
    PROVE  PaidInv'
  <1>1. /\ orders' = orders /\ invoices' = invoices /\ event' = event /\ seen' = seen /\ handler' = handler
    BY DEF payments
  <1>2. Unread0'
    BY <1>1 DEF PaidInv, Unread0
  <1>3. \A c \in Checkouts : Payment(c)'
    BY <1>1 DEF PaidInv, Payment
  <1>4. \A h \in Handlers : Handling(h)'
    BY <1>1 DEF PaidInv, Handling
  <1>5. Once(grants')
    BY DEF PaidInv, Keeps
  <1> QED
    BY <1>2, <1>3, <1>4, <1>5 DEF PaidInv

LEMMA KeepsGrants == ASSUME TypeInv, UNCHANGED grants PROVE Keeps(grants, grants')
  BY KeepsSame DEF TypeInv, OwnerOK
------------------------------------------------------------------------------
(* The steps of the account, of an admin's credits and of spending. *)

LEMMA StepReads ==
    ASSUME Inv, ReadAccount(Account), UNCHANGED <<usage, month, payments, refunds, bounds>>, asked' \subseteq Jobs
    PROVE  Inv'
  <1>1. TypeInv /\ PaidInv /\ RefundInv
    BY DEF Inv
  <1>2. OwnerOK' /\ Keeps(grants, grants') /\ since' # None
    BY <1>1, ReadKeeps
  <1>3. TypeInv'
    BY <1>1, <1>2 DEF TypeInv, OrdersOK, EventsOK, InvoicesOK, HandlerOK, RefundsOK, LedgerOK, BoundsOK, payments, refunds, bounds
  <1>4. PaidInv'
    BY <1>1, <1>2, PaidKept
  <1>5. RefundInv'
    BY <1>1, <1>2, RefundKept DEF payments, bounds
  <1> QED
    BY <1>3, <1>4, <1>5 DEF Inv

LEMMA StepLedger ==
    ASSUME Inv, UNCHANGED <<owner, payments, refunds, bounds>>, LedgerOK'
    PROVE  Inv'
  <1>1. TypeInv /\ PaidInv /\ RefundInv
    BY DEF Inv
  <1>2. TypeInv'
    BY <1>1 DEF TypeInv, OwnerOK, OrdersOK, EventsOK, InvoicesOK, HandlerOK, RefundsOK, BoundsOK, owner, payments, refunds, bounds
  <1>3. Keeps(grants, grants')
    BY <1>1, KeepsGrants DEF owner
  <1>4. PaidInv'
    BY <1>1, <1>3, PaidKept DEF owner
  <1>5. RefundInv'
    BY <1>1, <1>3, RefundKept DEF payments, bounds
  <1> QED
    BY <1>2, <1>4, <1>5 DEF Inv

LEMMA StepTick == ASSUME Inv, Tick PROVE Inv'
  <1>1. LedgerOK'
    BY BillingAssumption DEF Inv, TypeInv, LedgerOK, Tick
  <1> QED
    BY <1>1, StepLedger DEF Tick

LEMMA StepRefundCall == ASSUME Inv, RefundCall PROVE Inv'
  <1>1. LedgerOK'
    BY DEF Inv, TypeInv, LedgerOK, RefundCall
  <1> QED
    BY <1>1, StepLedger DEF RefundCall

LEMMA StepSpend == ASSUME Inv, NEW j \in Jobs, Spend(j) PROVE Inv'
  <1>1. LedgerOK'
    BY DEF Inv, TypeInv, LedgerOK, Spend
  <1> QED
    BY <1>1, StepLedger DEF Spend

LEMMA StepCanSpend == ASSUME Inv, NEW j \in Jobs, CanSpend(j) PROVE Inv'
  <1>1. asked' \subseteq Jobs
    BY DEF Inv, TypeInv, LedgerOK, CanSpend
  <1> QED
    BY <1>1, StepReads DEF CanSpend

LEMMA StepView == ASSUME Inv, View PROVE Inv'
  <1>1. asked' \subseteq Jobs
    BY DEF Inv, TypeInv, LedgerOK, View
  <1> QED
    BY <1>1, StepReads DEF View

LEMMA StepAdminGrant ==
    ASSUME Inv, NEW credits \in {GivenCredits, -GivenCredits}, AdminGrant(credits)
    PROVE  Inv'
  <1> DEFINE kind == IF credits > 0 THEN "admin" ELSE "refund"
             g == Grant(kind, credits, None)
  <1>1. TypeInv /\ PaidInv /\ RefundInv
    BY DEF Inv
  <1>2. credits \in Int \ {0} /\ kind \in Kinds /\ kind # "plan"
    BY BillingAssumption DEF Kinds
  <1>3. g \in GrantRows /\ g.kind = kind /\ g.for = None
    BY <1>1, <1>2, GrantIsRow
  <1>4. Account \in Seq(GrantRows) /\ Keeps(grants, Account)
    BY <1>1, AccountKeeps
  <1>5. grants' = Append(Account, g) /\ since' = (IF since = None THEN month ELSE since) /\ plan' = plan
        /\ given < MaxGiven /\ given' = given + 1 /\ UNCHANGED <<usage, month, payments, refunds, asked, crashes>>
    BY DEF AdminGrant
  <1> HIDE DEF g
  <1>6. NewMonth(Account, g)
    BY <1>2, <1>3 DEF NewMonth, SameMonth
  <1>7. Keeps(Account, grants')
    BY <1>3, <1>4, <1>5, <1>6, KeepsMore
  <1>8. Keeps(grants, grants')
    BY <1>4, <1>7, KeepsTwice
  <1>9. since' \in 0..LastMonth /\ since' # None
    <2>1. since' \in 0..LastMonth
      BY <1>1, <1>5 DEF TypeInv, OwnerOK, LedgerOK
    <2> QED
      BY <2>1, BillingAssumption
  <1>10. OwnerOK'
    BY <1>1, <1>5, <1>8, <1>9 DEF TypeInv, OwnerOK, Keeps
  <1>11. BoundsOK'
    BY <1>1, <1>5, BillingAssumption DEF TypeInv, BoundsOK
  <1>12. TypeInv'
    BY <1>1, <1>5, <1>10, <1>11 DEF TypeInv, OrdersOK, EventsOK, InvoicesOK, HandlerOK, RefundsOK, LedgerOK, payments, refunds
  <1>13. PaidInv'
    BY <1>1, <1>5, <1>8, <1>9, PaidKept
  <1>14. RefundInv'
    BY <1>1, <1>5, <1>8, RefundKept DEF payments
  <1> QED
    BY <1>12, <1>13, <1>14 DEF Inv

------------------------------------------------------------------------------
(* The steps of a purchase. *)

\* What a request that works holds.
LEMMA OfCheckout ==
    ASSUME TypeInv, NEW h \in Handlers, handler[h].pc # "idle"
    PROVE  handler[h].of \in Checkouts /\ handler[h] \in HandlerRows
  BY DEF TypeInv, HandlerOK, Idle

\* A step of a purchase is one of its types, its payments and no invoice of a refund.
LEMMA StepBuys ==
    ASSUME Inv, UNCHANGED <<usage, month, refunds, asked, bounds>>,
           OwnerOK', OrdersOK', EventsOK', InvoicesOK', HandlerOK', Keeps(grants, grants'),
           \A c \in Checkouts : invoices'[c] = invoices[c] \/ refunded[c] = "none",
           Unread0', \A c \in Checkouts : Payment(c)', \A h \in Handlers : Handling(h)'
    PROVE  Inv'
  <1>1. TypeInv /\ PaidInv /\ RefundInv
    BY DEF Inv
  <1>2. TypeInv'
    BY <1>1 DEF TypeInv, RefundsOK, LedgerOK, BoundsOK, refunds, bounds
  <1>3. PaidInv'
    BY <1>1 DEF PaidInv, Keeps
  <1>4. RefundInv'
    BY <1>1, RefundKept DEF bounds
  <1> QED
    BY <1>2, <1>3, <1>4 DEF Inv

\* A checkout that is not opened came to nothing, and nobody works on it.
LEMMA UnopenedIsNew ==
    ASSUME TypeInv, PaidInv, NEW c \in Checkouts, orders[c] = Unopened
    PROVE  /\ event[c] = "none" /\ invoices[c].count = 0 /\ c \notin seen
           /\ \A h \in Handlers : handler[h].pc # "idle" => handler[h].of # c
  <1>1. ~orders[c].paid /\ Payment(c)
    BY DEF Unopened, PaidInv
  <1>2. event[c] = "none" /\ invoices[c].count = 0 /\ c \notin seen
    BY <1>1 DEF Payment
  <1>3. ASSUME NEW h \in Handlers, handler[h].pc # "idle" PROVE handler[h].of # c
    <2>1. handler[h].pc \in {"account", "claim", "grant", "remember", "answer"}
      BY <1>3, OfCheckout DEF HandlerRows
    <2> QED
      BY <1>1, <1>2, <2>1 DEF PaidInv, Handling
  <1> QED
    BY <1>2, <1>3

LEMMA StepOpen == ASSUME Inv, NEW c \in Checkouts, NEW item \in Items, Open(c, item) PROVE Inv'
  <1>1. TypeInv /\ PaidInv
    BY DEF Inv
  <1>2. OwnerOK' /\ Keeps(grants, grants') /\ since' # None
    BY <1>1, ReadKeeps DEF Open
  <1>3. /\ orders[c] = Unopened /\ orders' = [orders EXCEPT ![c].item = item]
        /\ UNCHANGED <<usage, month, refunds, asked, bounds>>
        /\ invoices' = invoices /\ event' = event /\ seen' = seen /\ handler' = handler
    BY DEF Open
  <1>4. /\ orders'[c] = [Unopened EXCEPT !.item = item] /\ \A d \in Checkouts : d # c => orders'[d] = orders[d]
        /\ orders' \in [Checkouts -> OrderRows] /\ orders'[c].item # None
    BY <1>1, <1>3, BillingAssumption DEF TypeInv, OrdersOK, OrderRows, Unopened, Items
  <1>5. OrdersOK'
    BY <1>1, <1>4 DEF TypeInv, OrdersOK
  <1>6. event[c] = "none" /\ invoices[c].count = 0 /\ c \notin seen
    BY <1>1, <1>3, UnopenedIsNew
  <1>7. \A h \in Handlers : handler[h].pc # "idle" => handler[h].of # c
    BY <1>1, <1>3, UnopenedIsNew
  <1>8. orders'[c].paid = FALSE /\ orders'[c].claimed = FALSE /\ orders'[c].browser = FALSE
    BY <1>4 DEF Unopened
  <1>9. \A d \in Checkouts : Payment(d)'
    <2>1. Payment(c)'
      BY <1>3, <1>6, <1>8 DEF Payment
    <2>2. ASSUME NEW d \in Checkouts, d # c PROVE Payment(d)'
      BY <1>1, <1>3, <1>4, <2>2 DEF PaidInv, Payment
    <2> QED
      BY <2>1, <2>2
  <1>10. ASSUME NEW h \in Handlers PROVE Handling(h)'
    <2>1. CASE handler[h].pc = "idle"
      BY <1>3, <2>1 DEF Handling
    <2>2. CASE handler[h].pc # "idle"
      <3>1. orders'[handler[h].of] = orders[handler[h].of]
        BY <1>1, <1>4, <1>7, <2>2, OfCheckout
      <3> QED
        BY <1>1, <1>3, <3>1 DEF PaidInv, Handling
    <2> QED
      BY <2>1, <2>2
  <1>11. EventsOK' /\ InvoicesOK' /\ HandlerOK'
    BY <1>1, <1>3 DEF TypeInv, EventsOK, InvoicesOK, HandlerOK
  <1>12. Unread0'
    BY <1>2 DEF Unread0
  <1> QED
    BY <1>2, <1>3, <1>5, <1>9, <1>10, <1>11, <1>12, StepBuys

LEMMA StepBuyAtOnce ==
    ASSUME Inv, NEW h \in Handlers, NEW c \in Checkouts, NEW item \in Items, BuyAtOnce(h, c, item)
    PROVE  Inv'
  <1>1. TypeInv /\ PaidInv
    BY DEF Inv
  <1>2. OwnerOK' /\ Keeps(grants, grants') /\ since' # None
    BY <1>1, ReadKeeps DEF BuyAtOnce
  <1>3. /\ orders[c] = Unopened /\ orders' = [orders EXCEPT ![c].item = item, ![c].paid = TRUE]
        /\ handler[h] = Idle /\ handler' = [handler EXCEPT ![h] = [pc |-> "grant", of |-> c, hook |-> FALSE]]
        /\ UNCHANGED <<usage, month, refunds, asked, bounds>>
        /\ invoices' = invoices /\ event' = event /\ seen' = seen
    BY DEF BuyAtOnce
  <1>4. /\ orders'[c] = [Unopened EXCEPT !.item = item, !.paid = TRUE] /\ \A d \in Checkouts : d # c => orders'[d] = orders[d]
        /\ orders' \in [Checkouts -> OrderRows] /\ orders'[c].item # None
    BY <1>1, <1>3, BillingAssumption DEF TypeInv, OrdersOK, OrderRows, Unopened, Items
  <1>5. OrdersOK'
    BY <1>1, <1>4 DEF TypeInv, OrdersOK
  <1>6. event[c] = "none" /\ invoices[c].count = 0 /\ c \notin seen
    BY <1>1, <1>3, UnopenedIsNew
  <1>7. \A g \in Handlers : handler[g].pc # "idle" => handler[g].of # c
    BY <1>1, <1>3, UnopenedIsNew
  <1>8. orders'[c].paid = TRUE /\ orders'[c].claimed = FALSE /\ orders'[c].browser = FALSE
    BY <1>4 DEF Unopened
  <1>9. \A d \in Checkouts : Payment(d)'
    <2>1. Payment(c)'
      BY <1>3, <1>6, <1>8 DEF Payment
    <2>2. ASSUME NEW d \in Checkouts, d # c PROVE Payment(d)'
      BY <1>1, <1>3, <1>4, <2>2 DEF PaidInv, Payment
    <2> QED
      BY <2>1, <2>2
  <1>10. /\ handler'[h] = [pc |-> "grant", of |-> c, hook |-> FALSE] /\ \A g \in Handlers : g # h => handler'[g] = handler[g]
         /\ HandlerOK'
    BY <1>1, <1>3 DEF TypeInv, HandlerOK, HandlerRows
  <1>11. ASSUME NEW g \in Handlers PROVE Handling(g)'
    <2>1. CASE g = h
      <3>1. \A f \in Handlers : handler'[f].pc = "grant" /\ handler'[f].of = c => f = h
        BY <1>7, <1>10
      <3> QED
        BY <1>3, <1>6, <1>8, <1>10, <2>1, <3>1 DEF Handling
    <2>2. CASE g # h /\ handler[g].pc = "idle"
      BY <1>10, <2>2 DEF Handling
    <2>3. CASE g # h /\ handler[g].pc # "idle"
      <3>1. handler[g].of \in Checkouts /\ handler[g].of # c
        BY <1>1, <1>7, <2>3, OfCheckout
      <3>2. orders'[handler[g].of] = orders[handler[g].of] /\ handler'[g] = handler[g]
        BY <1>4, <1>10, <2>3, <3>1
      <3>3. \A f \in Handlers : handler'[f].pc = "grant" /\ handler'[f].of = handler[g].of => handler[f].pc = "grant" /\ handler[f].of = handler[g].of
        BY <1>10, <3>1
      <3>4. Handling(g)
        BY <1>1 DEF PaidInv
      <3> QED
        BY <1>3, <3>2, <3>3, <3>4 DEF Handling
    <2> QED
      BY <2>1, <2>2, <2>3
  <1>12. EventsOK' /\ InvoicesOK'
    BY <1>1, <1>3 DEF TypeInv, EventsOK, InvoicesOK
  <1>13. Unread0'
    BY <1>2 DEF Unread0
  <1> QED
    BY <1>2, <1>3, <1>5, <1>9, <1>10, <1>11, <1>12, <1>13, StepBuys

LEMMA StepPay == ASSUME Inv, NEW c \in Checkouts, Pay(c) PROVE Inv'
  <1>1. TypeInv /\ PaidInv
    BY DEF Inv
  <1>2. /\ orders[c].item # None /\ ~orders[c].paid /\ orders' = [orders EXCEPT ![c].paid = TRUE, ![c].browser = TRUE]
        /\ event' = [event EXCEPT ![c] = "sent"]
        /\ since' = since /\ grants' = grants /\ plan' = plan /\ UNCHANGED <<usage, month, refunds, asked, bounds>>
        /\ invoices' = invoices /\ seen' = seen /\ handler' = handler
    BY DEF Pay, owner
  <1>3. /\ orders'[c] = [orders[c] EXCEPT !.paid = TRUE, !.browser = TRUE] /\ \A d \in Checkouts : d # c => orders'[d] = orders[d]
        /\ orders' \in [Checkouts -> OrderRows] /\ orders'[c].item = orders[c].item
        /\ orders'[c].paid = TRUE /\ orders'[c].claimed = orders[c].claimed
    BY <1>1, <1>2 DEF TypeInv, OrdersOK, OrderRows
  <1>4. OrdersOK'
    BY <1>1, <1>2, <1>3 DEF TypeInv, OrdersOK
  <1>5. /\ event'[c] = "sent" /\ (\A d \in Checkouts : d # c => event'[d] = event[d]) /\ EventsOK'
    BY <1>1, <1>2 DEF TypeInv, EventsOK
  <1>6. event[c] = "none" /\ invoices[c].count = 0 /\ ~orders[c].claimed /\ c \notin seen
    BY <1>1, <1>2 DEF PaidInv, Payment
  <1>7. \A d \in Checkouts : Payment(d)'
    <2>1. Payment(c)'
      BY <1>2, <1>3, <1>5, <1>6 DEF Payment
    <2>2. ASSUME NEW d \in Checkouts, d # c PROVE Payment(d)'
      BY <1>1, <1>2, <1>3, <1>5, <2>2 DEF PaidInv, Payment
    <2> QED
      BY <2>1, <2>2
  <1>8. ASSUME NEW h \in Handlers PROVE Handling(h)'
    <2>1. CASE handler[h].pc = "idle"
      BY <1>2, <2>1 DEF Handling
    <2>2. CASE handler[h].pc # "idle"
      <3>1. handler[h].of \in Checkouts /\ handler[h].pc \in {"account", "claim", "grant", "remember", "answer"} /\ Handling(h)
        BY <1>1, <2>2, OfCheckout DEF PaidInv, HandlerRows
      <3>2. handler[h].of # c
        BY <1>2, <1>6, <3>1 DEF Handling
      <3> QED
        BY <1>2, <1>3, <1>5, <3>1, <3>2 DEF Handling
    <2> QED
      BY <2>1, <2>2
  <1>9. Unread0'
    <2>1. orders[c] # Unopened
      BY <1>2 DEF Unopened
    <2> QED
      BY <1>1, <1>2, <2>1 DEF PaidInv, Unread0
  <1>10. OwnerOK' /\ InvoicesOK' /\ HandlerOK' /\ Keeps(grants, grants')
    BY <1>1, <1>2, KeepsGrants DEF TypeInv, OwnerOK, InvoicesOK, HandlerOK
  <1> QED
    BY <1>2, <1>4, <1>5, <1>7, <1>8, <1>9, <1>10, StepBuys

\* A request moved on.
LEMMA HandlerMoves ==
    ASSUME TypeInv, NEW h \in Handlers, NEW r \in HandlerRows, r = Idle \/ r.of \in Checkouts,
           handler' = [handler EXCEPT ![h] = r]
    PROVE  HandlerOK' /\ handler'[h] = r /\ \A g \in Handlers : g # h => handler'[g] = handler[g]
  BY DEF TypeInv, HandlerOK

LEMMA IdleIsRow == Idle \in HandlerRows
  BY DEF Idle, HandlerRows

\* The requests that a request's step leaves alone: payments only come further.
LEMMA OthersHandle ==
    ASSUME TypeInv, PaidInv, NEW h \in Handlers, handler'[h].pc # "grant",
           \A g \in Handlers : g # h => handler'[g] = handler[g],
           \A c \in Checkouts :
               /\ (event'[c] = "none" <=> event[c] = "none") /\ orders'[c].paid = orders[c].paid
               /\ orders[c].claimed => orders'[c].claimed
               /\ event[c] = "none" => invoices'[c] = invoices[c] \/ (handler[h].pc = "grant" /\ handler[h].of = c)
    PROVE  \A g \in Handlers : g # h => Handling(g)'
  <1> SUFFICES ASSUME NEW g \in Handlers, g # h PROVE Handling(g)'
    OBVIOUS
  <1>1. CASE handler[g].pc = "idle"
    BY <1>1 DEF Handling
  <1>2. CASE handler[g].pc # "idle"
    <2>1. PICK c \in Checkouts : c = handler[g].of /\ handler'[g].of = c /\ handler'[g].pc = handler[g].pc
      BY <1>2, OfCheckout
    <2>2. Handling(g)
      BY DEF PaidInv
    <2>3. handler[g].pc \in {"account", "claim", "remember", "answer"} => event'[c] # "none"
      BY <2>1, <2>2 DEF Handling
    <2>4. handler[g].pc \in {"remember", "answer"} => orders'[c].claimed
      BY <2>1, <2>2 DEF Handling
    <2>5. ASSUME handler[g].pc = "grant"
          PROVE  /\ event'[c] = "none" /\ orders'[c].paid /\ invoices'[c].count = 0
                 /\ \A f \in Handlers : handler'[f].pc = "grant" /\ handler'[f].of = c => f = g
      <3>1. /\ event[c] = "none" /\ orders[c].paid /\ invoices[c].count = 0
            /\ \A f \in Handlers : handler[f].pc = "grant" /\ handler[f].of = c => f = g
        BY <2>1, <2>2, <2>5 DEF Handling
      <3>2. ~(handler[h].pc = "grant" /\ handler[h].of = c)
        BY <3>1
      <3> QED
        BY <3>1, <3>2
    <2> QED
      BY <2>1, <2>3, <2>4, <2>5 DEF Handling
  <1> QED
    BY <1>1, <1>2

LEMMA StepDeliver == ASSUME Inv, NEW h \in Handlers, NEW c \in Checkouts, Deliver(h, c) PROVE Inv'
  <1>1. TypeInv /\ PaidInv
    BY DEF Inv
  <1>2. /\ handler[h] = Idle /\ event[c] = "sent"
        /\ since' = since /\ grants' = grants /\ plan' = plan /\ UNCHANGED <<usage, month, refunds, asked, bounds>>
        /\ orders' = orders /\ invoices' = invoices /\ seen' = seen
    BY DEF Deliver, owner
  <1>3. \/ c \in seen /\ event' = [event EXCEPT ![c] = "answered"] /\ handler' = handler
        \/ event' = event /\ handler' = [handler EXCEPT ![h] = [pc |-> "account", of |-> c, hook |-> TRUE]]
    BY DEF Deliver
  <1>4. /\ ((c \in seen /\ event'[c] = "answered") \/ event'[c] = event[c]) /\ event'[c] # "none" /\ EventsOK'
        /\ \A d \in Checkouts : d # c => event'[d] = event[d]
    BY <1>1, <1>2, <1>3 DEF TypeInv, EventsOK
  <1>5. /\ HandlerOK' /\ \A g \in Handlers : g # h => handler'[g] = handler[g]
        /\ handler'[h] = Idle \/ handler'[h] = [pc |-> "account", of |-> c, hook |-> TRUE]
    <2>1. CASE handler' = handler
      BY <1>1, <1>2, <2>1 DEF TypeInv, HandlerOK
    <2>2. CASE handler' = [handler EXCEPT ![h] = [pc |-> "account", of |-> c, hook |-> TRUE]]
      <3>1. [pc |-> "account", of |-> c, hook |-> TRUE] \in HandlerRows
        BY DEF HandlerRows
      <3> QED
        BY <1>1, <2>2, <3>1, HandlerMoves
    <2> QED
      BY <1>3, <2>1, <2>2
  <1>6. ASSUME NEW d \in Checkouts PROVE Payment(d)'
    BY <1>1, <1>2, <1>4 DEF PaidInv, Payment
  <1>7. \A g \in Handlers : g # h => Handling(g)'
    BY <1>1, <1>2, <1>4, <1>5, OthersHandle DEF Idle
  <1>8. Handling(h)'
    BY <1>4, <1>5 DEF Handling, Idle
  <1>9. Unread0'
    BY <1>1, <1>2 DEF PaidInv, Unread0
  <1>10. OwnerOK' /\ InvoicesOK' /\ OrdersOK' /\ Keeps(grants, grants')
    BY <1>1, <1>2, KeepsGrants DEF TypeInv, OwnerOK, InvoicesOK, OrdersOK
  <1> QED
    BY <1>2, <1>4, <1>5, <1>6, <1>7, <1>8, <1>9, <1>10, StepBuys

LEMMA StepVerify == ASSUME Inv, NEW h \in Handlers, NEW c \in Checkouts, Verify(h, c) PROVE Inv'
  <1>1. TypeInv /\ PaidInv
    BY DEF Inv
  <1>2. /\ handler[h] = Idle /\ orders[c].browser /\ orders' = [orders EXCEPT ![c].browser = FALSE]
        /\ handler' = [handler EXCEPT ![h] = [pc |-> "account", of |-> c, hook |-> FALSE]]
        /\ since' = since /\ grants' = grants /\ plan' = plan /\ UNCHANGED <<usage, month, refunds, asked, bounds>>
        /\ event' = event /\ invoices' = invoices /\ seen' = seen
    BY DEF Verify, owner
  <1>3. event[c] # "none" /\ orders[c] # Unopened
    BY <1>1, <1>2 DEF PaidInv, Payment, Unopened
  <1>4. /\ orders'[c] = [orders[c] EXCEPT !.browser = FALSE] /\ \A d \in Checkouts : d # c => orders'[d] = orders[d]
        /\ orders' \in [Checkouts -> OrderRows] /\ orders'[c].item = orders[c].item
        /\ orders'[c].paid = orders[c].paid /\ orders'[c].claimed = orders[c].claimed
    BY <1>1, <1>2 DEF TypeInv, OrdersOK, OrderRows
  <1>5. OrdersOK'
    BY <1>1, <1>3, <1>4 DEF TypeInv, OrdersOK
  <1>6. /\ HandlerOK' /\ \A g \in Handlers : g # h => handler'[g] = handler[g]
        /\ handler'[h] = [pc |-> "account", of |-> c, hook |-> FALSE]
    BY <1>1, <1>2 DEF TypeInv, HandlerOK, HandlerRows
  <1>7. ASSUME NEW d \in Checkouts PROVE Payment(d)'
    <2>1. Payment(d) /\ orders'[d].paid = orders[d].paid /\ orders'[d].claimed = orders[d].claimed
          /\ (orders'[d].browser = orders[d].browser \/ d = c)
      BY <1>1, <1>4 DEF PaidInv
    <2> QED
      BY <1>2, <1>3, <2>1 DEF Payment
  <1>8. \A g \in Handlers : g # h => Handling(g)'
    BY <1>1, <1>2, <1>4, <1>6, OthersHandle
  <1>9. Handling(h)'
    BY <1>2, <1>3, <1>6 DEF Handling
  <1>10. Unread0'
    BY <1>1, <1>2, <1>3 DEF PaidInv, Unread0
  <1>11. OwnerOK' /\ InvoicesOK' /\ EventsOK' /\ Keeps(grants, grants')
    BY <1>1, <1>2, KeepsGrants DEF TypeInv, OwnerOK, InvoicesOK, EventsOK
  <1> QED
    BY <1>2, <1>5, <1>6, <1>7, <1>8, <1>9, <1>10, <1>11, StepBuys

LEMMA StepFulfilReads == ASSUME Inv, NEW h \in Handlers, FulfilReads(h) PROVE Inv'
  <1>1. TypeInv /\ PaidInv
    BY DEF Inv
  <1>2. OwnerOK' /\ Keeps(grants, grants') /\ since' # None
    BY <1>1, ReadKeeps DEF FulfilReads
  <1>3. /\ handler[h].pc = "account" /\ handler' = [handler EXCEPT ![h].pc = "claim"]
        /\ UNCHANGED <<usage, month, refunds, asked, bounds>>
        /\ orders' = orders /\ event' = event /\ invoices' = invoices /\ seen' = seen
    BY DEF FulfilReads
  <1>4. handler[h].of \in Checkouts
    BY <1>1, <1>3, OfCheckout
  <1>5. /\ HandlerOK' /\ \A g \in Handlers : g # h => handler'[g] = handler[g]
        /\ handler'[h].pc = "claim" /\ handler'[h].of = handler[h].of
    BY <1>1, <1>3, <1>4 DEF TypeInv, HandlerOK, HandlerRows
  <1>6. \A d \in Checkouts : Payment(d)'
    BY <1>1, <1>3 DEF PaidInv, Payment
  <1>7. \A g \in Handlers : g # h => Handling(g)'
    BY <1>1, <1>3, <1>5, OthersHandle
  <1>8. Handling(h)'
    BY <1>1, <1>3, <1>5 DEF PaidInv, Handling
  <1>9. Unread0' /\ InvoicesOK' /\ EventsOK' /\ OrdersOK'
    BY <1>1, <1>2, <1>3 DEF Unread0, TypeInv, InvoicesOK, EventsOK, OrdersOK
  <1> QED
    BY <1>2, <1>3, <1>5, <1>6, <1>7, <1>8, <1>9, StepBuys

LEMMA StepRemember == ASSUME Inv, NEW h \in Handlers, Remember(h) PROVE Inv'
  <1>1. TypeInv /\ PaidInv
    BY DEF Inv
  <1>2. /\ handler[h].pc = "remember" /\ seen' = seen \cup {handler[h].of} /\ handler' = [handler EXCEPT ![h].pc = "answer"]
        /\ since' = since /\ grants' = grants /\ plan' = plan /\ UNCHANGED <<usage, month, refunds, asked, bounds>>
        /\ orders' = orders /\ event' = event /\ invoices' = invoices
    BY DEF Remember, owner
  <1>3. PICK c \in Checkouts : c = handler[h].of
    BY <1>1, <1>2, OfCheckout
  <1>4. event[c] # "none" /\ orders[c].claimed
    BY <1>1, <1>2, <1>3 DEF PaidInv, Handling
  <1>5. /\ HandlerOK' /\ \A g \in Handlers : g # h => handler'[g] = handler[g]
        /\ handler'[h].pc = "answer" /\ handler'[h].of = c
    BY <1>1, <1>2, <1>3 DEF TypeInv, HandlerOK, HandlerRows
  <1>6. ASSUME NEW d \in Checkouts PROVE Payment(d)'
    <2>1. Payment(d) /\ (d \in seen' => d \in seen \/ d = c)
      BY <1>1, <1>2, <1>3 DEF PaidInv
    <2> QED
      BY <1>2, <1>4, <2>1 DEF Payment
  <1>7. \A g \in Handlers : g # h => Handling(g)'
    BY <1>1, <1>2, <1>5, OthersHandle
  <1>8. Handling(h)'
    BY <1>2, <1>4, <1>5 DEF Handling
  <1>9. Unread0' /\ InvoicesOK' /\ EventsOK' /\ OrdersOK' /\ OwnerOK' /\ Keeps(grants, grants')
    BY <1>1, <1>2, <1>3, KeepsGrants DEF PaidInv, Unread0, TypeInv, InvoicesOK, EventsOK, OrdersOK, OwnerOK
  <1> QED
    BY <1>2, <1>5, <1>6, <1>7, <1>8, <1>9, StepBuys

LEMMA StepAnswer == ASSUME Inv, NEW h \in Handlers, Answer(h) PROVE Inv'
  <1>1. TypeInv /\ PaidInv
    BY DEF Inv
  <1>2. /\ handler[h].pc = "answer" /\ event' = [event EXCEPT ![handler[h].of] = "answered"] /\ handler' = [handler EXCEPT ![h] = Idle]
        /\ since' = since /\ grants' = grants /\ plan' = plan /\ UNCHANGED <<usage, month, refunds, asked, bounds>>
        /\ orders' = orders /\ seen' = seen /\ invoices' = invoices
    BY DEF Answer, owner
  <1>3. PICK c \in Checkouts : c = handler[h].of
    BY <1>1, <1>2, OfCheckout
  <1>4. event[c] # "none" /\ orders[c].claimed
    BY <1>1, <1>2, <1>3 DEF PaidInv, Handling
  <1>5. /\ HandlerOK' /\ \A g \in Handlers : g # h => handler'[g] = handler[g]
        /\ handler'[h] = Idle
    BY <1>1, <1>2, <1>3 DEF TypeInv, HandlerOK, HandlerRows, Idle
  <1>6. /\ event'[c] = "answered" /\ EventsOK' /\ \A d \in Checkouts : d # c => event'[d] = event[d]
    BY <1>1, <1>2, <1>3 DEF TypeInv, EventsOK
  <1>7. ASSUME NEW d \in Checkouts PROVE Payment(d)'
    BY <1>1, <1>2, <1>4, <1>6 DEF PaidInv, Payment
  <1>8. \A g \in Handlers : g # h => Handling(g)'
    BY <1>1, <1>2, <1>4, <1>5, <1>6, OthersHandle DEF Idle
  <1>9. Handling(h)'
    BY <1>5 DEF Handling, Idle
  <1>10. Unread0' /\ InvoicesOK' /\ OrdersOK' /\ OwnerOK' /\ Keeps(grants, grants')
    BY <1>1, <1>2, <1>3, KeepsGrants DEF PaidInv, Unread0, TypeInv, InvoicesOK, OrdersOK, OwnerOK
  <1> QED
    BY <1>2, <1>5, <1>6, <1>7, <1>8, <1>9, <1>10, StepBuys

\* The checkout a request may complete is opened, and its refund has not begun.
LEMMA ToComplete ==
    ASSUME Inv, NEW h \in Handlers, NEW c \in Checkouts, c = handler[h].of,
           (handler[h].pc = "claim" /\ ~orders[c].claimed) \/ handler[h].pc = "grant"
    PROVE  invoices[c].count = 0 /\ refunded[c] = "none" /\ orders[c].paid /\ orders[c].item \in Items
  <1>1. Handling(h) /\ Payment(c) /\ Refund(c)
    BY DEF Inv, PaidInv, RefundInv
  <1>2. invoices[c].count = 0 /\ orders[c].paid
    BY <1>1 DEF Handling, Payment
  <1>3. refunded[c] = "none"
    BY <1>1, <1>2 DEF Refund
  <1>4. orders[c].item \in Items
    BY <1>2 DEF Inv, TypeInv, OrdersOK, OrderRows, Unopened
  <1> QED
    BY <1>2, <1>3, <1>4

LEMMA StepClaim == ASSUME Inv, NEW h \in Handlers, Claim(h) PROVE Inv'
  <1>1. TypeInv /\ PaidInv
    BY DEF Inv
  <1>2. PICK c \in Checkouts : c = handler[h].of /\ handler[h].pc = "claim" /\ handler[h] \in HandlerRows
    BY <1>1, OfCheckout DEF Claim
  <1>3. /\ IF orders[c].claimed THEN UNCHANGED <<owner, invoices>> ELSE Complete(c, orders[c].item)
        /\ orders' = [orders EXCEPT ![c].claimed = TRUE] /\ handler' = [handler EXCEPT ![h] = AfterFulfil(h)]
        /\ UNCHANGED <<usage, month, refunds, asked, bounds>> /\ event' = event /\ seen' = seen
    BY <1>2 DEF Claim
  <1>4. event[c] # "none" /\ orders[c].paid /\ orders[c] # Unopened
    BY <1>1, <1>2 DEF PaidInv, Handling, Payment, Unopened
  <1>5. /\ OwnerOK' /\ Keeps(grants, grants') /\ InvoicesOK' /\ since' = since
        /\ \A d \in Checkouts : d # c => invoices'[d] = invoices[d]
        /\ invoices'[c].count = 1 /\ (invoices'[c] = invoices[c] \/ refunded[c] = "none")
    <2>1. CASE orders[c].claimed
      <3>1. invoices[c].count = 1
        BY <1>1, <1>4, <2>1 DEF PaidInv, Payment
      <3> QED
        BY <1>1, <1>3, <2>1, <3>1, KeepsGrants DEF owner, TypeInv, OwnerOK, InvoicesOK
    <2>2. CASE ~orders[c].claimed
      <3>1. invoices[c].count = 0 /\ refunded[c] = "none" /\ orders[c].item \in Items
        BY <1>2, <2>2, ToComplete
      <3>2. Complete(c, orders[c].item)
        BY <1>3, <2>2
      <3> QED
        BY <1>1, <3>1, <3>2, CompleteKeeps
    <2> QED
      BY <2>1, <2>2
  <1>6. /\ orders'[c] = [orders[c] EXCEPT !.claimed = TRUE] /\ \A d \in Checkouts : d # c => orders'[d] = orders[d]
        /\ orders' \in [Checkouts -> OrderRows] /\ orders'[c].item = orders[c].item
        /\ orders'[c].paid = orders[c].paid /\ orders'[c].claimed = TRUE
    BY <1>1, <1>3 DEF TypeInv, OrdersOK, OrderRows
  <1>7. OrdersOK'
    BY <1>1, <1>4, <1>6 DEF TypeInv, OrdersOK
  <1>8. handler'[h] = AfterFulfil(h) /\ (\A g \in Handlers : g # h => handler'[g] = handler[g])
    BY <1>1, <1>3 DEF TypeInv, HandlerOK
  <1>9. AfterFulfil(h) = Idle \/ (AfterFulfil(h).pc = "remember" /\ AfterFulfil(h).of = c /\ AfterFulfil(h) \in HandlerRows)
    BY <1>2 DEF AfterFulfil, HandlerRows
  <1>10. HandlerOK'
    BY <1>1, <1>3, <1>9, HandlerMoves, IdleIsRow
  <1>11. ASSUME NEW d \in Checkouts PROVE Payment(d)'
    <2>1. CASE d = c
      BY <1>3, <1>4, <1>5, <1>6, <2>1 DEF Payment
    <2>2. CASE d # c
      BY <1>1, <1>3, <1>5, <1>6, <2>2 DEF PaidInv, Payment
    <2> QED
      BY <2>1, <2>2
  <1>12. \A g \in Handlers : g # h => Handling(g)'
    BY <1>1, <1>3, <1>4, <1>5, <1>6, <1>8, <1>9, OthersHandle DEF Idle
  <1>13. Handling(h)'
    BY <1>3, <1>4, <1>6, <1>8, <1>9 DEF Handling, Idle
  <1>14. Unread0'
    BY <1>1, <1>4, <1>5 DEF PaidInv, Unread0
  <1>15. EventsOK'
    BY <1>1, <1>3 DEF TypeInv, EventsOK
  <1> QED
    BY <1>3, <1>5, <1>7, <1>10, <1>11, <1>12, <1>13, <1>14, <1>15, StepBuys

LEMMA StepCompleteAtOnce == ASSUME Inv, NEW h \in Handlers, CompleteAtOnce(h) PROVE Inv'
  <1>1. TypeInv /\ PaidInv
    BY DEF Inv
  <1>2. PICK c \in Checkouts : c = handler[h].of /\ handler[h].pc = "grant"
    BY <1>1, OfCheckout DEF CompleteAtOnce
  <1>3. /\ Complete(c, orders[c].item) /\ handler' = [handler EXCEPT ![h] = Idle]
        /\ UNCHANGED <<usage, month, refunds, asked, bounds>> /\ orders' = orders /\ event' = event /\ seen' = seen
    BY <1>2 DEF CompleteAtOnce
  <1>4. invoices[c].count = 0 /\ refunded[c] = "none" /\ orders[c].paid /\ orders[c].item \in Items
    BY <1>2, ToComplete
  <1>5. /\ OwnerOK' /\ Keeps(grants, grants') /\ InvoicesOK' /\ since' = since
        /\ \A d \in Checkouts : d # c => invoices'[d] = invoices[d]
        /\ invoices'[c].count = 1
    BY <1>1, <1>3, <1>4, CompleteKeeps
  <1>6. event[c] = "none"
    BY <1>1, <1>2 DEF PaidInv, Handling
  <1>7. /\ HandlerOK' /\ handler'[h] = Idle /\ \A g \in Handlers : g # h => handler'[g] = handler[g]
    BY <1>1, <1>3 DEF TypeInv, HandlerOK, HandlerRows, Idle
  <1>8. ASSUME NEW d \in Checkouts PROVE Payment(d)'
    <2>1. CASE d = c
      BY <1>1, <1>3, <1>4, <1>5, <1>6, <2>1 DEF PaidInv, Payment
    <2>2. CASE d # c
      BY <1>1, <1>3, <1>5, <2>2 DEF PaidInv, Payment
    <2> QED
      BY <2>1, <2>2
  <1>9. \A g \in Handlers : g # h => Handling(g)'
    BY <1>1, <1>2, <1>3, <1>5, <1>7, OthersHandle DEF Idle
  <1>10. Handling(h)'
    BY <1>7 DEF Handling, Idle
  <1>11. Unread0'
    <2>1. orders[c] # Unopened
      BY <1>4 DEF Unopened
    <2> QED
      BY <1>1, <1>5, <2>1 DEF PaidInv, Unread0
  <1>12. EventsOK' /\ OrdersOK'
    BY <1>1, <1>3 DEF TypeInv, EventsOK, OrdersOK
  <1> QED
    BY <1>3, <1>4, <1>5, <1>7, <1>8, <1>9, <1>10, <1>11, <1>12, StepBuys

------------------------------------------------------------------------------
(* The steps of a refund. *)

LEMMA OfRefund ==
    ASSUME TypeInv, NEW a \in Admins, admin[a].pc # "idle"
    PROVE  admin[a].of \in Checkouts /\ admin[a] \in AdminRows /\ admin[a] # Resting
  BY DEF TypeInv, RefundsOK, Resting

\* An administrator's next step.
LEMMA AdminMoves ==
    ASSUME TypeInv, NEW a \in Admins, NEW r \in AdminRows, r = Resting \/ (r.pc # "idle" /\ r.of \in Checkouts),
           admin' = [admin EXCEPT ![a] = r]
    PROVE  /\ admin'[a] = r /\ \A b \in Admins : b # a => admin'[b] = admin[b]
           /\ admin' \in [Admins -> AdminRows]
           /\ \A b \in Admins : admin'[b] = Resting \/ (admin'[b].pc # "idle" /\ admin'[b].of \in Checkouts)
  BY DEF TypeInv, RefundsOK

LEMMA RestingIsRow == Resting \in AdminRows /\ Resting.of = None /\ None \notin Checkouts
  BY BillingAssumption DEF Resting, AdminRows

\* A step of a refund keeps the rest.
LEMMA StepRefunds ==
    ASSUME Inv, UNCHANGED <<since, usage, month, payments, asked, bounds>>, OwnerOK', RefundsOK',
           Once(grants) => Once(grants'), since # None \/ grants' = grants, RefundInv'
    PROVE  Inv'
  <1>1. TypeInv /\ PaidInv /\ RefundInv
    BY DEF Inv
  <1>2. TypeInv'
    BY <1>1 DEF TypeInv, OrdersOK, EventsOK, InvoicesOK, HandlerOK, LedgerOK, BoundsOK, payments, bounds
  <1>3. orders' = orders /\ invoices' = invoices /\ event' = event /\ seen' = seen /\ handler' = handler
    BY DEF payments
  <1>4. Unread0'
    BY <1>1, <1>3 DEF PaidInv, Unread0
  <1>5. \A c \in Checkouts : Payment(c)'
    BY <1>1, <1>3 DEF PaidInv, Payment
  <1>6. \A h \in Handlers : Handling(h)'
    BY <1>1, <1>3 DEF PaidInv, Handling
  <1>7. PaidInv'
    BY <1>1, <1>4, <1>5, <1>6 DEF PaidInv
  <1> QED
    BY <1>2, <1>7 DEF Inv

\* A refund of another payment goes its own way.
LEMMA OtherRefunds ==
    ASSUME TypeInv, RefundInv, NEW c \in Checkouts, NEW a \in Admins, UNCHANGED <<invoices, crashes>>,
           admin[a].of \in {c, None},
           \A b \in Admins : b # a => admin'[b] = admin[b],
           \A d \in Checkouts : d # c => refunded'[d] = refunded[d] /\ sentBack'[d] = sentBack[d],
           \A d \in Checkouts : \A took \in Nat : d # c /\ Taken(grants, d, took) => Taken(grants', d, took)
    PROVE  \A d \in Checkouts : d # c => Refund(d)'
  <1> SUFFICES ASSUME NEW d \in Checkouts, d # c PROVE Refund(d)'
    OBVIOUS
  <1>1. Refund(d) /\ refunded'[d] = refunded[d] /\ sentBack'[d] = sentBack[d]
    BY DEF RefundInv
  <1>2. refunded[d] = "claimed" => crashes > 0 \/ \E b \in Admins : admin'[b].of = d
    <2>1. admin[a].of # d
      BY RestingIsRow
    <2> QED
      BY <1>1, <2>1 DEF Refund
  <1> DEFINE took == IF refunded[d] = "refunded" THEN invoices[d].credits ELSE 0
  <1>3. took \in Nat
    BY DEF TypeInv, InvoicesOK, InvoiceRows
  <1>4. Taken(grants, d, took)
    BY <1>1 DEF Refund
  <1>5. Taken(grants', d, took)
    BY <1>3, <1>4
  <1>6. took = IF refunded'[d] = "refunded" THEN invoices'[d].credits ELSE 0
    BY <1>1
  <1> HIDE DEF took
  <1>7. Taken(grants', d, IF refunded'[d] = "refunded" THEN invoices'[d].credits ELSE 0)
    BY <1>5, <1>6
  <1> QED
    BY <1>1, <1>2, <1>7 DEF Refund

LEMMA StepClaimRefund == ASSUME Inv, NEW a \in Admins, NEW c \in Checkouts, ClaimRefund(a, c) PROVE Inv'
  <1>1. TypeInv /\ PaidInv /\ RefundInv
    BY DEF Inv
  <1> DEFINE r == [pc |-> "ask", of |-> c]
  <1>2. /\ admin[a] = Resting /\ invoices[c].count > 0 /\ refunded[c] = "none"
        /\ refunded' = [refunded EXCEPT ![c] = "claimed"] /\ admin' = [admin EXCEPT ![a] = r]
        /\ since' = since /\ plan' = plan /\ grants' = grants /\ sentBack' = sentBack
        /\ UNCHANGED <<usage, month, payments, asked, bounds>> /\ invoices' = invoices /\ crashes' = crashes
    BY DEF ClaimRefund, owner, payments, bounds
  <1>3. r \in AdminRows /\ r.pc = "ask" /\ r.of = c /\ r # Resting
    BY DEF AdminRows, Resting
  <1> HIDE DEF r
  <1>4. /\ admin'[a] = r /\ (\A b \in Admins : b # a => admin'[b] = admin[b])
        /\ admin' \in [Admins -> AdminRows]
        /\ \A b \in Admins : admin'[b] = Resting \/ (admin'[b].pc # "idle" /\ admin'[b].of \in Checkouts)
    BY <1>1, <1>2, <1>3, AdminMoves
  <1>5. refunded'[c] = "claimed" /\ (\A d \in Checkouts : d # c => refunded'[d] = refunded[d])
        /\ refunded' \in [Checkouts -> {"none", "claimed", "refunded"}]
    BY <1>1, <1>2 DEF TypeInv, RefundsOK
  <1>6. OwnerOK' /\ RefundsOK'
    BY <1>1, <1>2, <1>4, <1>5 DEF TypeInv, OwnerOK, RefundsOK
  <1>7. invoices[c].count = 1
    BY <1>1, <1>2 DEF PaidInv, Payment, TypeInv, InvoicesOK, InvoiceRows
  <1>8. \A d \in Checkouts : d # c => Refund(d)'
    BY <1>1, <1>2, <1>4, <1>5, OtherRefunds, RestingIsRow
  <1>9. Refund(c)'
    <2>1. Taken(grants, c, 0)
      BY <1>1, <1>2 DEF RefundInv, Refund
    <2> QED
      BY <1>2, <1>3, <1>4, <1>5, <1>7, <2>1 DEF Refund
  <1>10. ASSUME NEW b \in Admins, b # a, admin[b] # Resting PROVE admin[b].of # c /\ Claims(b)'
    <2>1. Claims(b) /\ admin[b].of \in Checkouts
      BY <1>1, <1>10 DEF RefundInv, TypeInv, RefundsOK
    <2>2. admin[b].of # c
      BY <1>2, <1>10, <2>1 DEF Claims
    <2>3. \A d \in Admins : admin'[d].of = admin[b].of => d = b
      BY <1>3, <1>4, <1>10, <2>1, <2>2 DEF Claims
    <2> QED
      BY <1>2, <1>4, <1>5, <1>10, <2>1, <2>2, <2>3 DEF Claims
  <1>11. ASSUME NEW b \in Admins PROVE Claims(b)'
    <2>1. CASE b = a
      <3>1. \A d \in Admins : admin'[d].of = c => d = a
        BY <1>4, <1>10, RestingIsRow
      <3> QED
        BY <1>3, <1>4, <1>5, <2>1, <3>1 DEF Claims
    <2>2. CASE b # a /\ admin[b] = Resting
      BY <1>4, <2>2 DEF Claims
    <2>3. CASE b # a /\ admin[b] # Resting
      BY <1>10, <2>3
    <2> QED
      BY <2>1, <2>2, <2>3
  <1>12. RefundInv'
    BY <1>8, <1>9, <1>11 DEF RefundInv
  <1> QED
    BY <1>2, <1>6, <1>12, StepRefunds

\* The administrators that a step of `a` on its own refund leaves alone.
LEMMA OtherClaims ==
    ASSUME TypeInv, RefundInv, NEW a \in Admins, NEW c \in Checkouts, admin[a] # Resting, admin[a].of = c,
           admin'[a].of \in {c, None}, \A b \in Admins : b # a => admin'[b] = admin[b],
           \A d \in Checkouts : d # c => refunded'[d] = refunded[d] /\ sentBack'[d] = sentBack[d]
    PROVE  /\ \A b \in Admins : b # a => Claims(b)'
           /\ refunded[c] = "claimed" /\ \A b \in Admins : admin[b].of = c => b = a
  <1>1. refunded[c] = "claimed" /\ \A b \in Admins : admin[b].of = c => b = a
    BY DEF RefundInv, Claims
  <1>2. ASSUME NEW b \in Admins, b # a PROVE Claims(b)'
    <2>1. CASE admin[b] = Resting
      BY <1>2, <2>1 DEF Claims
    <2>2. CASE admin[b] # Resting
      <3>1. Claims(b) /\ admin[b].of \in Checkouts /\ admin[b].of # c
        BY <1>1, <1>2, <2>2 DEF RefundInv, TypeInv, RefundsOK
      <3>2. \A d \in Admins : admin'[d].of = admin[b].of => d = b
        BY <1>2, <2>2, <3>1, RestingIsRow DEF Claims
      <3> QED
        BY <1>2, <2>2, <3>1, <3>2 DEF Claims
    <2> QED
      BY <2>1, <2>2
  <1> QED
    BY <1>1, <1>2

LEMMA StepAskProvider == ASSUME Inv, NEW a \in Admins, AskProvider(a) PROVE Inv'
  <1>1. TypeInv /\ PaidInv /\ RefundInv
    BY DEF Inv
  <1>2. PICK c \in Checkouts : c = admin[a].of /\ admin[a].pc = "ask" /\ admin[a] # Resting /\ admin[a] \in AdminRows
    BY <1>1, OfRefund DEF AskProvider
  <1>3. PICK pc \in {"take", "undo"} :
            /\ admin' = [admin EXCEPT ![a].pc = pc]
            /\ GivesBack(c) \/ (pc = "undo" /\ sentBack' = sentBack)
    BY <1>2 DEF AskProvider
  <1>4. /\ since' = since /\ plan' = plan /\ grants' = grants /\ refunded' = refunded
        /\ UNCHANGED <<usage, month, payments, asked, bounds>> /\ invoices' = invoices /\ crashes' = crashes
    BY <1>2 DEF AskProvider, owner, payments, bounds
  <1> DEFINE r == [admin[a] EXCEPT !.pc = pc]
  <1>5. r \in AdminRows /\ r.pc = pc /\ r.of = c /\ r # Resting /\ pc # "idle" /\ admin' = [admin EXCEPT ![a] = r]
    BY <1>2, <1>3 DEF AdminRows, Resting
  <1> HIDE DEF r
  <1>6. /\ admin'[a] = r /\ (\A b \in Admins : b # a => admin'[b] = admin[b])
        /\ admin' \in [Admins -> AdminRows]
        /\ \A b \in Admins : admin'[b] = Resting \/ (admin'[b].pc # "idle" /\ admin'[b].of \in Checkouts)
    BY <1>1, <1>5, AdminMoves
  <1>7. /\ sentBack' \in [Checkouts -> {0, 1}] /\ (\A d \in Checkouts : d # c => sentBack'[d] = sentBack[d])
        /\ (pc = "take" => sentBack'[c] = 1) /\ (sentBack[c] = 1 => sentBack'[c] = 1)
    BY <1>1, <1>3 DEF TypeInv, RefundsOK, GivesBack
  <1>8. OwnerOK' /\ RefundsOK'
    BY <1>1, <1>4, <1>6, <1>7 DEF TypeInv, OwnerOK, RefundsOK
  <1>9. /\ \A b \in Admins : b # a => Claims(b)'
        /\ refunded[c] = "claimed" /\ \A b \in Admins : admin[b].of = c => b = a
    BY <1>1, <1>2, <1>4, <1>5, <1>6, <1>7, OtherClaims
  <1>10. Claims(a)'
    <2>1. \A b \in Admins : admin'[b].of = c => b = a
      BY <1>6, <1>9
    <2> QED
      BY <1>4, <1>5, <1>6, <1>7, <1>9, <2>1 DEF Claims
  <1>11. \A d \in Checkouts : d # c => Refund(d)'
    BY <1>1, <1>2, <1>4, <1>6, <1>7, OtherRefunds
  <1>12. Refund(c)'
    <2>1. Refund(c)
      BY <1>1 DEF RefundInv
    <2> QED
      BY <1>4, <1>5, <1>6, <1>9, <2>1 DEF Refund
  <1>13. RefundInv'
    BY <1>9, <1>10, <1>11, <1>12 DEF RefundInv
  <1> QED
    BY <1>4, <1>8, <1>13, StepRefunds

LEMMA StepUndo == ASSUME Inv, NEW a \in Admins, Undo(a) PROVE Inv'
  <1>1. TypeInv /\ PaidInv /\ RefundInv
    BY DEF Inv
  <1>2. PICK c \in Checkouts : c = admin[a].of /\ admin[a].pc = "undo" /\ admin[a] # Resting
    BY <1>1, OfRefund DEF Undo
  <1>3. /\ refunded' = [refunded EXCEPT ![c] = "none"] /\ admin' = [admin EXCEPT ![a] = Resting]
        /\ since' = since /\ plan' = plan /\ grants' = grants /\ sentBack' = sentBack
        /\ UNCHANGED <<usage, month, payments, asked, bounds>> /\ invoices' = invoices /\ crashes' = crashes
    BY <1>2 DEF Undo, owner, payments, bounds
  <1>4. /\ admin'[a] = Resting /\ (\A b \in Admins : b # a => admin'[b] = admin[b])
        /\ admin' \in [Admins -> AdminRows]
        /\ \A b \in Admins : admin'[b] = Resting \/ (admin'[b].pc # "idle" /\ admin'[b].of \in Checkouts)
    BY <1>1, <1>3, AdminMoves, RestingIsRow
  <1>5. refunded'[c] = "none" /\ (\A d \in Checkouts : d # c => refunded'[d] = refunded[d])
        /\ refunded' \in [Checkouts -> {"none", "claimed", "refunded"}]
    BY <1>1, <1>3 DEF TypeInv, RefundsOK
  <1>6. OwnerOK' /\ RefundsOK'
    BY <1>1, <1>3, <1>4, <1>5 DEF TypeInv, OwnerOK, RefundsOK
  <1>7. /\ \A b \in Admins : b # a => Claims(b)'
        /\ refunded[c] = "claimed" /\ \A b \in Admins : admin[b].of = c => b = a
    BY <1>1, <1>2, <1>3, <1>4, <1>5, OtherClaims, RestingIsRow
  <1>8. Claims(a)'
    BY <1>4 DEF Claims
  <1>9. \A d \in Checkouts : d # c => Refund(d)'
    BY <1>1, <1>2, <1>3, <1>4, <1>5, OtherRefunds
  <1>10. Refund(c)'
    <2>1. Taken(grants, c, 0)
      BY <1>1, <1>7 DEF RefundInv, Refund
    <2> QED
      BY <1>3, <1>5, <2>1 DEF Refund
  <1>11. RefundInv'
    BY <1>7, <1>8, <1>9, <1>10 DEF RefundInv
  <1> QED
    BY <1>3, <1>6, <1>11, StepRefunds

LEMMA StepTakeBack == ASSUME Inv, NEW a \in Admins, TakeBack(a) PROVE Inv'
  <1>1. TypeInv /\ PaidInv /\ RefundInv
    BY DEF Inv
  <1>2. PICK c \in Checkouts : c = admin[a].of /\ admin[a].pc = "take" /\ admin[a] # Resting
    BY <1>1, OfRefund DEF TakeBack
  <1> DEFINE g == Grant("refund", -invoices[c].credits, c)
  <1>3. PICK took \in Nat : took = invoices[c].credits
    BY <1>1 DEF TypeInv, InvoicesOK, InvoiceRows
  <1>4. /\ refunded' = [refunded EXCEPT ![c] = "refunded"] /\ admin' = [admin EXCEPT ![a] = Resting]
        /\ grants' = IF took = 0 THEN grants ELSE Append(grants, g)
        /\ plan' = IF invoices[c].plan = plan THEN None ELSE plan
        /\ since' = since /\ sentBack' = sentBack
        /\ UNCHANGED <<usage, month, payments, asked, bounds>> /\ invoices' = invoices /\ crashes' = crashes
    BY <1>2, <1>3 DEF TakeBack, payments, bounds
  <1>5. /\ admin'[a] = Resting /\ (\A b \in Admins : b # a => admin'[b] = admin[b])
        /\ admin' \in [Admins -> AdminRows]
        /\ \A b \in Admins : admin'[b] = Resting \/ (admin'[b].pc # "idle" /\ admin'[b].of \in Checkouts)
    BY <1>1, <1>4, AdminMoves, RestingIsRow
  <1>6. refunded'[c] = "refunded" /\ (\A d \in Checkouts : d # c => refunded'[d] = refunded[d])
        /\ refunded' \in [Checkouts -> {"none", "claimed", "refunded"}]
    BY <1>1, <1>4 DEF TypeInv, RefundsOK
  <1>7. /\ \A b \in Admins : b # a => Claims(b)'
        /\ refunded[c] = "claimed" /\ \A b \in Admins : admin[b].of = c => b = a
    BY <1>1, <1>2, <1>4, <1>5, <1>6, OtherClaims, RestingIsRow
  <1>8. sentBack[c] = 1 /\ invoices[c].count = 1 /\ Taken(grants, c, 0)
    BY <1>1, <1>2, <1>7 DEF RefundInv, Claims, Refund
  <1>9. grants \in Seq(GrantRows)
    BY <1>1 DEF TypeInv, OwnerOK
  <1>10. took # 0 => g \in GrantRows /\ g.kind = "refund" /\ g.for = c /\ g.credits = -took
    BY <1>1, <1>3, GrantIsRow DEF Kinds
  <1> HIDE DEF g
  <1>11. grants' \in Seq(GrantRows) /\ (Once(grants) => Once(grants')) /\ Taken(grants', c, took)
         /\ \A d \in Checkouts : \A n \in Nat : d # c /\ Taken(grants, d, n) => Taken(grants', d, n)
    <2>1. CASE took = 0
      BY <1>4, <1>8, <1>9, <2>1
    <2>2. CASE took # 0
      <3>1. grants' = Append(grants, g) /\ g \in GrantRows
        BY <1>4, <1>10, <2>2
      <3>2. NewMonth(grants, g)
        BY <1>10, <2>2 DEF NewMonth, SameMonth
      <3>3. Taken(grants', c, took)
        <4>1. took \in Int \ {0}
          BY <2>2
        <4>2. g.kind = "refund" /\ g.for = c /\ g.credits = -took
          BY <1>10, <2>2
        <4> QED
          BY <1>8, <1>9, <3>1, <4>1, <4>2, TakenOne
      <3>4. grants' \in Seq(GrantRows) /\ (Once(grants) => Once(grants'))
        BY <1>9, <3>1, <3>2, RowMore, OnceMore
      <3>5. ASSUME NEW d \in Checkouts, NEW n \in Nat, d # c, Taken(grants, d, n) PROVE Taken(grants', d, n)
        BY <1>9, <1>10, <2>2, <3>1, <3>5, TakenMore
      <3> QED
        BY <3>3, <3>4, <3>5
    <2> QED
      BY <2>1, <2>2
  <1>12. OwnerOK' /\ RefundsOK'
    BY <1>1, <1>4, <1>5, <1>6, <1>11 DEF TypeInv, OwnerOK, RefundsOK
  <1>13. Claims(a)'
    BY <1>5 DEF Claims
  <1>14. \A d \in Checkouts : d # c => Refund(d)'
    BY <1>1, <1>2, <1>4, <1>5, <1>6, <1>11, OtherRefunds
  <1>15. Refund(c)'
    BY <1>3, <1>4, <1>6, <1>8, <1>11 DEF Refund
  <1>16. RefundInv'
    BY <1>7, <1>13, <1>14, <1>15 DEF RefundInv
  <1>17. since # None
    <2>1. orders[c] # Unopened
      BY <1>1, <1>8 DEF PaidInv, Payment, Unopened
    <2> QED
      BY <1>1, <2>1 DEF PaidInv, Unread0
  <1> QED
    BY <1>4, <1>11, <1>12, <1>16, <1>17, StepRefunds

LEMMA StepCrash == ASSUME Inv, Crash PROVE Inv'
  <1>1. TypeInv /\ PaidInv /\ RefundInv
    BY DEF Inv
  <1>2. /\ crashes < MaxCrashes /\ crashes' = crashes + 1 /\ given' = given
        /\ handler' = [h \in Handlers |-> Idle] /\ admin' = [a \in Admins |-> Resting] /\ asked' = {}
        /\ since' = since /\ plan' = plan /\ grants' = grants /\ UNCHANGED <<usage, month>>
        /\ orders' = orders /\ invoices' = invoices /\ event' = event /\ seen' = seen
        /\ refunded' = refunded /\ sentBack' = sentBack
    BY DEF Crash, owner
  <1>3. crashes' \in 0..MaxCrashes /\ crashes' > 0
    BY <1>1, <1>2, BillingAssumption DEF TypeInv, BoundsOK
  <1>4. TypeInv'
    <2>1. HandlerOK' /\ RefundsOK'
      BY <1>1, <1>2, IdleIsRow, RestingIsRow DEF TypeInv, HandlerOK, RefundsOK
    <2>2. OwnerOK' /\ OrdersOK' /\ EventsOK' /\ InvoicesOK' /\ LedgerOK' /\ BoundsOK'
      BY <1>1, <1>2, <1>3 DEF TypeInv, OwnerOK, OrdersOK, EventsOK, InvoicesOK, LedgerOK, BoundsOK
    <2> QED
      BY <2>1, <2>2 DEF TypeInv
  <1>5. PaidInv'
    <2>1. \A h \in Handlers : Handling(h)'
      BY <1>2 DEF Handling, Idle
    <2>2. Unread0' /\ \A c \in Checkouts : Payment(c)'
      BY <1>1, <1>2 DEF PaidInv, Unread0, Payment
    <2> QED
      BY <1>1, <1>2, <2>1, <2>2 DEF PaidInv
  <1>6. \A c \in Checkouts : Refund(c)'
    BY <1>1, <1>2, <1>3 DEF RefundInv, Refund
  <1>7. \A a \in Admins : Claims(a)'
    BY <1>2 DEF Claims
  <1> QED
    BY <1>4, <1>5, <1>6, <1>7 DEF Inv, RefundInv

------------------------------------------------------------------------------
(* The theorems. *)

LEMMA InitInv == ASSUME Init PROVE Inv
  <1>1. OwnerOK /\ LedgerOK
    BY BillingAssumption DEF Init, Unread, OwnerOK, LedgerOK
  <1>2. OrdersOK /\ EventsOK /\ InvoicesOK
    BY DEF Init, Unread, OrdersOK, EventsOK, InvoicesOK, OrderRows, InvoiceRows, Unopened
  <1>3. HandlerOK /\ RefundsOK
    BY IdleIsRow, RestingIsRow DEF Init, Unread, HandlerOK, RefundsOK
  <1>4. BoundsOK
    BY BillingAssumption DEF Init, Unread, BoundsOK
  <1>5. PaidInv
    BY DEF Init, Unread, PaidInv, Unread0, Payment, Handling, Once, Unopened, Idle
  <1>6. \A a \in Admins : Claims(a)
    BY DEF Init, Unread, Claims
  <1>7. ASSUME NEW c \in Checkouts PROVE Refund(c)
    <2>1. refunded[c] = "none" /\ RefundRows(grants, c) = {}
      BY DEF Init, Unread, RefundRows
    <2> QED
      BY <2>1 DEF Refund, Taken
  <1> QED
    BY <1>1, <1>2, <1>3, <1>4, <1>5, <1>6, <1>7 DEF Inv, TypeInv, RefundInv

LEMMA StepInv == ASSUME Inv, [Next]_vars PROVE Inv'
  <1>1. CASE View
    BY <1>1, StepView
  <1>2. CASE Tick
    BY <1>2, StepTick
  <1>3. CASE RefundCall
    BY <1>3, StepRefundCall
  <1>4. CASE Crash
    BY <1>4, StepCrash
  <1>5. ASSUME NEW c \in Checkouts, Pay(c) \/ \E item \in Items : Open(c, item) PROVE Inv'
    BY <1>5, StepPay, StepOpen
  <1>6. ASSUME NEW h \in Handlers, NEW c \in Checkouts,
               Deliver(h, c) \/ Verify(h, c) \/ \E item \in Items : BuyAtOnce(h, c, item)
        PROVE  Inv'
    BY <1>6, StepDeliver, StepVerify, StepBuyAtOnce
  <1>7. ASSUME NEW h \in Handlers, Handle(h) PROVE Inv'
    BY <1>7, StepFulfilReads, StepClaim, StepCompleteAtOnce, StepRemember, StepAnswer DEF Handle
  <1>8. ASSUME NEW a \in Admins, Refunding(a) PROVE Inv'
    BY <1>8, StepAskProvider, StepTakeBack, StepUndo DEF Refunding
  <1>9. ASSUME NEW a \in Admins, NEW c \in Checkouts, ClaimRefund(a, c) PROVE Inv'
    BY <1>9, StepClaimRefund
  <1>10. ASSUME NEW credits \in {GivenCredits, -GivenCredits}, AdminGrant(credits) PROVE Inv'
    BY <1>10, StepAdminGrant
  <1>11. ASSUME NEW j \in Jobs, CanSpend(j) \/ Spend(j) PROVE Inv'
    BY <1>11, StepCanSpend, StepSpend
  <1>12. CASE UNCHANGED vars
    <2>1. UNCHANGED <<owner, payments, refunds, bounds>> /\ LedgerOK'
      BY <1>12 DEF vars, Inv, TypeInv, LedgerOK
    <2> QED
      BY <2>1, StepLedger
  <1> QED
    BY <1>1, <1>2, <1>3, <1>4, <1>5, <1>6, <1>7, <1>8, <1>9, <1>10, <1>11, <1>12 DEF Next

LEMMA AlwaysInv == Spec => []Inv
  <1> QED
    BY InitInv, StepInv, PTL DEF Spec

\* The credits of no row and of one.
LEMMA CreditsOfNone == Credits({}) = 0
  BY TotalOfNone DEF Credits

LEMMA CreditsOfOne ==
    ASSUME NEW i \in DOMAIN grants, grants[i].credits \in Int
    PROVE  Credits({i}) = grants[i].credits
  <1> DEFINE f == [k \in DOMAIN grants |-> grants[k].credits]
  <1>1. IsFiniteSet({i}) /\ f[i] = grants[i].credits
    BY FS_Singleton
  <1>2. Total({i}, f) = f[i] + Total({i} \ {i}, f)
    BY <1>1, TotalWithout
  <1>3. Total({i} \ {i}, f) = 0
    <2>1. {i} \ {i} = {}
      OBVIOUS
    <2> QED
      BY <2>1, TotalOfNone
  <1> QED
    BY <1>1, <1>2, <1>3 DEF Credits

\* Type correctness: the rows, orders, invoices, events and claims have the values the code writes.
THEOREM TypeCorrect == Spec => [](TypeOK /\ TypeInv)
  <1>1. Inv => TypeOK /\ TypeInv
    <2> SUFFICES ASSUME Inv PROVE TypeOK
      BY DEF Inv
    <2>1. \A i \in DOMAIN grants : grants[i] \in GrantRows
      BY DEF Inv, TypeInv, OwnerOK
    <2>2. \A i \in DOMAIN grants : grants[i].credits \in Int \ {0} /\ grants[i].at \in 0..LastMonth
      BY <2>1 DEF GrantRows
    <2>3. \A a \in Admins : admin[a] = Resting \/ admin[a].of \in Checkouts
      BY DEF Inv, TypeInv, RefundsOK
    <2>4. sentBack \in [Checkouts -> Nat] /\ refunded \in [Checkouts -> {"none", "claimed", "refunded"}]
      BY DEF Inv, TypeInv, RefundsOK
    <2>5. invoices \in [Checkouts -> [count : Nat, credits : Nat, plan : Plans \cup {None}]]
      BY DEF Inv, TypeInv, InvoicesOK, InvoiceRows
    <2> QED
      BY <2>2, <2>3, <2>4, <2>5 DEF Inv, TypeInv, TypeOK, OwnerOK, OrdersOK, EventsOK, HandlerOK, LedgerOK, BoundsOK
  <1> QED
    BY <1>1, AlwaysInv, PTL

LEMMA InvPaidOnce == Inv => PaidOnce
  <1> SUFFICES ASSUME Inv PROVE PaidOnce
    OBVIOUS
  <1>1. ASSUME NEW c \in Checkouts
        PROVE  /\ invoices[c].count <= 1
               /\ invoices[c].count = 1 => orders[c].paid
               /\ event[c] = "answered" => invoices[c].count = 1
    BY DEF Inv, PaidInv, Payment
  <1>2. Once(grants)
    BY DEF Inv, PaidInv
  <1> QED
    BY <1>1, <1>2 DEF PaidOnce, Once, SameMonth

\* A payment is granted once, whatever arrives twice, crosses or is cut off by a crash, for any plans,
\* checkouts, requests at a time and crashes: fulfil's billing_paid, _complete's look for the month's
\* grant, and account's.
THEOREM GrantedOnce == Spec => []PaidOnce
  BY AlwaysInv, InvPaidOnce, PTL

LEMMA InvRefundIsWhole == Inv => RefundIsWhole
  <1> SUFFICES ASSUME Inv, NEW c \in Checkouts
               PROVE  /\ sentBack[c] <= 1
                      /\ refunded[c] = "refunded" => sentBack[c] = 1
                      /\ Credits(GrantsOf("refund", c)) = IF refunded[c] = "refunded" THEN -invoices[c].credits ELSE 0
                      /\ refunded[c] = "claimed" => crashes > 0 \/ \E a \in Admins : admin[a].of = c
    BY DEF RefundIsWhole
  <1>1. Refund(c)
    BY DEF Inv, RefundInv
  <1>2. sentBack[c] <= 1
    BY DEF Inv, TypeInv, RefundsOK
  <1>3. RefundRows(grants, c) = GrantsOf("refund", c)
    BY DEF RefundRows, GrantsOf
  <1>4. PICK took \in Nat : took = IF refunded[c] = "refunded" THEN invoices[c].credits ELSE 0
    BY DEF Inv, TypeInv, InvoicesOK, InvoiceRows
  <1>5. Taken(grants, c, took)
    BY <1>1, <1>4 DEF Refund
  <1>6. Credits(GrantsOf("refund", c)) = -took
    <2>1. CASE took = 0
      <3>1. GrantsOf("refund", c) = {}
        BY <1>3, <1>5, <2>1 DEF Taken
      <3> QED
        BY <2>1, <3>1, CreditsOfNone
    <2>2. CASE took # 0
      <3>1. PICK i \in DOMAIN grants : RefundRows(grants, c) = {i} /\ grants[i].credits = -took
        BY <1>5, <2>2 DEF Taken
      <3>2. Credits({i}) = -took
        BY <3>1, CreditsOfOne
      <3> QED
        BY <1>3, <3>1, <3>2
    <2> QED
      BY <2>1, <2>2
  <1>7. Credits(GrantsOf("refund", c)) = IF refunded[c] = "refunded" THEN -invoices[c].credits ELSE 0
    <2>1. CASE refunded[c] = "refunded"
      BY <1>4, <1>6, <2>1
    <2>2. CASE refunded[c] # "refunded"
      <3>1. took = 0
        BY <1>4, <2>2
      <3> QED
        BY <1>6, <2>2, <3>1
    <2> QED
      BY <2>1, <2>2
  <1> QED
    BY <1>1, <1>2, <1>7 DEF Refund

\* A refund is whole and happens once, through refusals, lost answers, retries and crashes, for any
\* number of administrators: refund's claim, the provider's idempotency key, and the row that takes
\* back what the invoice granted.
THEOREM RefundsAreWhole == Spec => []RefundIsWhole
  BY AlwaysInv, InvRefundIsWhole, PTL
------------------------------------------------------------------------------
(* The balance is exact. *)

\* No row is of a month to come, and the account is not younger than now.
Dated(rows, m) == rows \in Seq(GrantRows) /\ \A i \in DOMAIN rows : rows[i].at <= m
Calendar == (since # None => since <= month) /\ Dated(grants, month)

\* No row more, or one of this month.
OneMore(rows, more) == more = rows \/ \E g \in GrantRows : g.at = month /\ more = Append(rows, g)

LEMMA OneMoreDated ==
    ASSUME TypeInv, NEW rows, Dated(rows, month), NEW more, OneMore(rows, more)
    PROVE  Dated(more, month)
  <1> SUFFICES ASSUME NEW g \in GrantRows, g.at = month PROVE Dated(Append(rows, g), month)
    BY DEF OneMore
  <1>1. rows \in Seq(GrantRows) /\ month \in Int
    BY DEF Dated, TypeInv, LedgerOK
  <1> DEFINE most == Append(rows, g)
             n == Len(rows) + 1
  <1>2. most \in Seq(GrantRows) /\ DOMAIN most = DOMAIN rows \cup {n} /\ most[n] = g /\ \A i \in DOMAIN rows : most[i] = rows[i]
    BY <1>1, RowMore
  <1> HIDE DEF most, n
  <1>3. Dated(most, month)
    BY <1>1, <1>2 DEF Dated
  <1> QED
    BY <1>3 DEF most

LEMMA GrantIsOneMore ==
    ASSUME TypeInv, NEW rows, NEW kind \in Kinds, NEW credits \in Int \ {0}, NEW what \in Items \cup Checkouts \cup {None}
    PROVE  OneMore(rows, Append(rows, Grant(kind, credits, what)))
  BY GrantIsRow DEF OneMore

LEMMA AccountIsOneMore == ASSUME TypeInv, PaidInv PROVE OneMore(grants, Account)
  <1>1. plan \in Plans \cup {None}
    BY DEF TypeInv, OwnerOK
  <1>2. CASE since = None
    <2>1. grants = <<>> /\ Account = <<Grant("trial", TrialCredits, None)>>
      BY <1>2 DEF PaidInv, Unread0, Account
    <2>2. "trial" \in Kinds /\ TrialCredits \in Int \ {0} /\ None \in Items \cup Checkouts \cup {None}
      BY BillingAssumption DEF Kinds
    <2>3. OneMore(grants, Append(grants, Grant("trial", TrialCredits, None)))
      BY <2>2, GrantIsOneMore
    <2>4. Append(<<>>, Grant("trial", TrialCredits, None)) = <<Grant("trial", TrialCredits, None)>>
      OBVIOUS
    <2> QED
      BY <2>1, <2>3, <2>4
  <1>3. CASE since # None /\ plan # None /\ PlanGrantsNow = {}
    <2>1. "plan" \in Kinds /\ PlanCredits[plan] \in Int \ {0} /\ plan \in Items \cup Checkouts \cup {None}
      BY <1>1, <1>3, BillingAssumption DEF Kinds, Items
    <2>2. OneMore(grants, Append(grants, Grant("plan", PlanCredits[plan], plan)))
      BY <2>1, GrantIsOneMore
    <2> QED
      BY <1>3, <2>2 DEF Account
  <1>4. CASE since # None /\ ~(plan # None /\ PlanGrantsNow = {})
    BY <1>4 DEF Account, OneMore
  <1> QED
    BY <1>2, <1>3, <1>4

LEMMA BoughtIsOneMore ==
    ASSUME TypeInv, NEW c \in Checkouts, NEW item \in Items, Complete(c, item)
    PROVE  OneMore(grants, grants') /\ since' = since
  <1> DEFINE credits == Granted(item)
             bought == IF item \in Plans THEN item ELSE None
             kind == IF item \in Plans THEN "plan" ELSE "topup"
  <1>1. since' = since /\ grants' = IF credits = 0 THEN grants ELSE Append(grants, Grant(kind, credits, bought))
    BY DEF Complete
  <1>2. kind \in Kinds /\ bought \in Items \cup Checkouts \cup {None}
    BY DEF Kinds, Items
  <1>3. credits \in Int
    BY BillingAssumption DEF Granted, Items
  <1> HIDE DEF credits, bought, kind
  <1>4. credits # 0 => OneMore(grants, Append(grants, Grant(kind, credits, bought)))
    BY <1>2, <1>3, GrantIsOneMore
  <1> QED
    BY <1>1, <1>4 DEF OneMore

\* What a step does to the account: nothing; or it makes the account, or writes a row or two.
Still == UNCHANGED <<since, grants>> /\ month' \in {month, month + 1}
Grows ==
    /\ month' = month /\ usage' = usage /\ (since' = since \/ (since = None /\ since' = month))
    /\ \E mid : OneMore(grants, mid) /\ OneMore(mid, grants')

LEMMA OneGrows ==
    ASSUME month' = month, usage' = usage, since' = since \/ (since = None /\ since' = month), OneMore(grants, grants')
    PROVE  Grows
  BY DEF Grows, OneMore

LEMMA ReadGrows == ASSUME Inv, ReadAccount(Account), UNCHANGED <<month, usage>> PROVE Grows
  <1>1. OneMore(grants, grants')
    BY AccountIsOneMore DEF Inv, ReadAccount
  <1>2. since' = since \/ (since = None /\ since' = month)
    BY DEF ReadAccount
  <1> QED
    BY <1>1, <1>2, OneGrows

LEMMA StepGrows == ASSUME Inv, [Next]_vars PROVE Still \/ Grows
  <1>1. CASE View
    BY <1>1, ReadGrows DEF View
  <1>2. CASE Tick \/ RefundCall \/ Crash
    BY <1>2 DEF Still, Tick, RefundCall, Crash, owner
  <1>3. ASSUME NEW c \in Checkouts, Pay(c) \/ \E item \in Items : Open(c, item) PROVE Still \/ Grows
    <2>1. CASE Pay(c)
      BY <2>1 DEF Still, Pay, owner
    <2>2. CASE \E item \in Items : Open(c, item)
      BY <2>2, ReadGrows DEF Open
    <2> QED
      BY <1>3, <2>1, <2>2
  <1>4. ASSUME NEW h \in Handlers, NEW c \in Checkouts,
               Deliver(h, c) \/ Verify(h, c) \/ \E item \in Items : BuyAtOnce(h, c, item)
        PROVE  Still \/ Grows
    <2>1. CASE Deliver(h, c) \/ Verify(h, c)
      BY <2>1 DEF Still, Deliver, Verify, owner
    <2>2. CASE \E item \in Items : BuyAtOnce(h, c, item)
      BY <2>2, ReadGrows DEF BuyAtOnce
    <2> QED
      BY <1>4, <2>1, <2>2
  <1>5. ASSUME NEW h \in Handlers, Handle(h) PROVE Still \/ Grows
    <2>1. CASE FulfilReads(h)
      BY <2>1, ReadGrows DEF FulfilReads
    <2>2. CASE Claim(h)
      <3>1. TypeInv /\ handler[h].pc = "claim" /\ handler[h].of \in Checkouts
        BY <2>2, OfCheckout DEF Claim, Inv
      <3>2. CASE orders[handler[h].of].claimed
        BY <2>2, <3>2 DEF Still, Claim, owner
      <3>3. CASE ~orders[handler[h].of].claimed
        <4>1. orders[handler[h].of].item \in Items
          BY <3>1, <3>3, ToComplete
        <4>2. Complete(handler[h].of, orders[handler[h].of].item) /\ month' = month /\ usage' = usage
          BY <2>2, <3>3 DEF Claim
        <4> QED
          BY <3>1, <4>1, <4>2, BoughtIsOneMore, OneGrows
      <3> QED
        BY <3>2, <3>3
    <2>3. CASE CompleteAtOnce(h)
      <3>1. TypeInv /\ handler[h].pc = "grant" /\ handler[h].of \in Checkouts
        BY <2>3, OfCheckout DEF CompleteAtOnce, Inv
      <3>2. orders[handler[h].of].item \in Items
        BY <3>1, ToComplete
      <3>3. Complete(handler[h].of, orders[handler[h].of].item) /\ month' = month /\ usage' = usage
        BY <2>3 DEF CompleteAtOnce
      <3> QED
        BY <3>1, <3>2, <3>3, BoughtIsOneMore, OneGrows
    <2>4. CASE Remember(h) \/ Answer(h)
      BY <2>4 DEF Still, Remember, Answer, owner
    <2> QED
      BY <1>5, <2>1, <2>2, <2>3, <2>4 DEF Handle
  <1>6. ASSUME NEW a \in Admins, Refunding(a) PROVE Still \/ Grows
    <2>1. CASE AskProvider(a) \/ Undo(a)
      BY <2>1 DEF Still, AskProvider, Undo, owner
    <2>2. CASE TakeBack(a)
      <3> DEFINE c == admin[a].of
                 took == invoices[c].credits
      <3>1. c \in Checkouts /\ took \in Nat
        <4>1. admin[a] # Resting
          BY <2>2 DEF TakeBack, Resting
        <4>2. c \in Checkouts
          BY <4>1 DEF Inv, TypeInv, RefundsOK
        <4> QED
          BY <4>2 DEF Inv, TypeInv, InvoicesOK, InvoiceRows
      <3>2. /\ since' = since /\ month' = month /\ usage' = usage
            /\ grants' = IF took = 0 THEN grants ELSE Append(grants, Grant("refund", -took, c))
        BY <2>2 DEF TakeBack
      <3>3. TypeInv /\ "refund" \in Kinds
        BY DEF Inv, Kinds
      <3> HIDE DEF took, c
      <3>4. took # 0 => OneMore(grants, Append(grants, Grant("refund", -took, c)))
        BY <3>1, <3>3, GrantIsOneMore
      <3>5. OneMore(grants, grants')
        BY <3>2, <3>4 DEF OneMore
      <3> QED
        BY <3>2, <3>5, OneGrows
    <2> QED
      BY <1>6, <2>1, <2>2 DEF Refunding
  <1>7. ASSUME NEW a \in Admins, NEW c \in Checkouts, ClaimRefund(a, c) PROVE Still \/ Grows
    BY <1>7 DEF Still, ClaimRefund, owner
  <1>8. ASSUME NEW credits \in {GivenCredits, -GivenCredits}, AdminGrant(credits) PROVE Still \/ Grows
    <2>1. credits \in Int \ {0} /\ (IF credits > 0 THEN "admin" ELSE "refund") \in Kinds
      BY BillingAssumption DEF Kinds
    <2>2. OneMore(grants, Account) /\ OneMore(Account, grants')
      BY <1>8, <2>1, AccountIsOneMore, GrantIsOneMore DEF AdminGrant, Inv
    <2>3. month' = month /\ usage' = usage /\ since' = IF since = None THEN month ELSE since
      BY <1>8 DEF AdminGrant
    <2> QED
      BY <2>2, <2>3 DEF Grows
  <1>9. ASSUME NEW j \in Jobs, CanSpend(j) \/ Spend(j) PROVE Still \/ Grows
    <2>1. CASE CanSpend(j)
      BY <2>1, ReadGrows DEF CanSpend
    <2>2. CASE Spend(j)
      BY <2>2 DEF Still, Spend, owner
    <2> QED
      BY <1>9, <2>1, <2>2
  <1>10. CASE UNCHANGED vars
    BY <1>10 DEF Still, vars, owner
  <1> QED
    BY <1>1, <1>2, <1>3, <1>4, <1>5, <1>6, <1>7, <1>8, <1>9, <1>10 DEF Next

LEMMA StepCalendar == ASSUME Inv, Calendar, [Next]_vars PROVE Calendar'
  <1>1. TypeInv /\ month \in Nat /\ (since # None => since \in Nat /\ since <= month) /\ Dated(grants, month)
    BY DEF Inv, TypeInv, OwnerOK, LedgerOK, Calendar
  <1>2. CASE Still
    <2>1. \A i \in DOMAIN grants : grants[i] \in GrantRows
      BY <1>1 DEF Dated
    <2>2. \A i \in DOMAIN grants : grants[i].at \in Nat
      BY <2>1 DEF GrantRows
    <2> QED
      BY <1>1, <1>2, <2>2 DEF Still, Calendar, Dated
  <1>3. CASE Grows
    <2>1. PICK mid : OneMore(grants, mid) /\ OneMore(mid, grants')
      BY <1>3 DEF Grows
    <2>2. Dated(mid, month)
      BY <1>1, <2>1, OneMoreDated
    <2>3. Dated(grants', month)
      BY <1>1, <2>1, <2>2, OneMoreDated
    <2> QED
      BY <1>1, <1>3, <2>3 DEF Grows, Calendar
  <1> QED
    BY <1>2, <1>3, StepGrows

LEMMA InvBalanceIsExact == ASSUME Inv, Calendar PROVE BalanceIsExact
  <1> SUFFICES ASSUME since # None
               PROVE  /\ Balance.left + Balance.lapsed + Balance.used = Credits(DOMAIN grants)
                      /\ (\A t \in DOMAIN usage : usage[t] >= 0) => Balance = MonthByMonth(grants, usage, since, month)
    BY DEF BalanceIsExact
  <1>1. Rows(grants) /\ \A i \in DOMAIN grants : grants[i].at <= month
    <2>1. grants \in Seq(GrantRows) /\ \A i \in DOMAIN grants : grants[i].at <= month
      BY DEF Calendar, Dated
    <2>2. \A i \in DOMAIN grants : grants[i] \in GrantRows
      BY <2>1
    <2>3. \A i \in DOMAIN grants : grants[i].credits \in Int /\ grants[i].at \in Nat
      BY <2>2 DEF GrantRows
    <2> QED
      BY <2>1, <2>3 DEF Rows
  <1>2. Ledger(usage)
    <2>1. usage \in [0..LastMonth -> Int] /\ LastMonth \in Nat
      BY BillingAssumption DEF Inv, TypeInv, LedgerOK
    <2>2. IsFiniteSet(0..LastMonth)
      BY <2>1, FS_Interval
    <2> QED
      BY <2>1, <2>2 DEF Ledger
  <1>3. since \in Nat /\ month \in Nat /\ since <= month /\ month < Never
    BY BillingAssumption, TopupAssumption DEF Inv, TypeInv, OwnerOK, LedgerOK, Calendar
  <1>4. Spans(Points(grants, since, month), since, month)
    BY <1>1, <1>3, PointsSpan
  <1>5. Balance.left + Balance.lapsed + Balance.used = Total(DOMAIN grants, Amounts(grants))
    BY <1>1, <1>2, <1>4, BalancesOut DEF Balance, balance
  <1>6. (\A t \in DOMAIN usage : usage[t] >= 0) => Balance = MonthByMonth(grants, usage, since, month)
    BY <1>1, <1>2, <1>3, PointsAreEnough DEF Balance
  <1> QED
    BY <1>5, <1>6 DEF Credits, Amounts

\* No credit is lost or made, whatever is bought, refunded, given, spent and given back, for any plans,
\* prices and calendar; and the points balance works at are enough (billing/__init__.py's balance).
THEOREM BalanceHolds == Spec => []BalanceIsExact
  <1>1. Init => Calendar
    <2> SUFFICES ASSUME Init PROVE Calendar
      OBVIOUS
    <2>1. since = None /\ grants = <<>>
      BY DEF Init, Unread
    <2> QED
      BY <2>1 DEF Calendar, Dated
  <1> QED
    BY <1>1, AlwaysInv, StepCalendar, InvBalanceIsExact, PTL DEF Spec
------------------------------------------------------------------------------
(* What is left, from one month and one row to the next. *)

\* How the account stands at p, before what was spent then is taken.
Dawn(gs, us, points, p) ==
    IF Earlier(points, p) = {} THEN Ready(gs, Nothing(gs), -1, p)
    ELSE Ready(gs, Rounds(gs, us, points)[Max(Earlier(points, p))], Max(Earlier(points, p)), p)

LEMMA DawnIs ==
    ASSUME NEW gs, Rows(gs), NEW us, Ledger(us), NEW points, NEW start, NEW now, Spans(points, start, now),
           NEW p \in points
    PROVE  /\ Dawn(gs, us, points, p) \in Standing(gs)
           /\ (\A t \in DOMAIN us : us[t] >= 0) => Covered(Dawn(gs, us, points, p))
           /\ Rounds(gs, us, points)[p] = Take(gs, Dawn(gs, us, points, p), SpentIn(us, p, Until(points, p)))
           /\ SpentIn(us, p, Until(points, p)) \in Int
           /\ (\A t \in DOMAIN us : us[t] >= 0) => SpentIn(us, p, Until(points, p)) \in Nat
           /\ Rounds(gs, us, points)[p].lapsed = Dawn(gs, us, points, p).lapsed
  <1> DEFINE S == Rounds(gs, us, points)
             d == Dawn(gs, us, points, p)
             spent == SpentIn(us, p, Until(points, p))
  <1>1. S[p] = Stand(gs, us, points, S, p) /\ p \in Nat
    BY RoundsAre, TimesAre DEF Spans
  <1> HIDE DEF S
  <1>2. spent \in Int /\ ((\A t \in DOMAIN us : us[t] >= 0) => spent \in Nat)
    <2>1. Until(points, p) \in Int
      BY PointAfter DEF Spans
    <2> QED
      BY <1>1, <2>1, SpentTypes
  <1>3. d \in Standing(gs) /\ ((\A t \in DOMAIN us : us[t] >= 0) => Covered(d)) /\ S[p] = Take(gs, d, spent)
    <2>1. CASE Earlier(points, p) = {}
      <3>1. d = Ready(gs, Nothing(gs), -1, p) /\ S[p] = Round(gs, us, Nothing(gs), -1, points, p)
        BY <1>1, <2>1 DEF Dawn, Stand
      <3>2. \A i \in Nothing(gs).active : gs[i].at <= -1
        BY NothingStands
      <3>3. -1 \in Int /\ -1 <= p
        BY <1>1
      <3> HIDE DEF d
      <3>4. d \in Standing(gs) /\ Covered(d)
        BY <1>1, <3>1, <3>2, <3>3, NothingStands, ReadyKeeps
      <3> QED
        BY <3>1, <3>4 DEF Round, Ready
    <2>2. CASE Earlier(points, p) # {}
      <3>1. PICK last : last = Max(Earlier(points, p))
        OBVIOUS
      <3>2. last \in points /\ last \in Nat /\ last < p
        BY <2>2, <3>1, PointBefore DEF Spans
      <3>3. d = Ready(gs, S[last], last, p) /\ S[p] = Round(gs, us, S[last], last, points, p)
        BY <1>1, <2>2, <3>1 DEF Dawn, Stand, S
      <3>4. Stood(gs, us, points, start, S[last], last)
        BY <3>2, RoundsStand DEF S
      <3>5. /\ S[last] \in Standing(gs) /\ (\A i \in S[last].active : gs[i].at <= last)
            /\ ((\A t \in DOMAIN us : us[t] >= 0) => Covered(S[last]))
        BY <3>4 DEF Stood
      <3> HIDE DEF d
      <3>6. d \in Standing(gs) /\ (Covered(S[last]) => Covered(d))
        BY <1>1, <3>2, <3>3, <3>5, ReadyKeeps
      <3> QED
        BY <3>3, <3>5, <3>6 DEF Round, Ready
    <2> QED
      BY <2>1, <2>2
  <1>4. S[p].lapsed = d.lapsed
    <2> HIDE DEF d, spent
    <2>1. d \in Standing(gs) /\ spent \in Int /\ S[p] = Take(gs, d, spent)
      BY <1>2, <1>3
    <2>2. Take(gs, d, spent).lapsed = d.lapsed
      BY <2>1, TakeParts, ZenonT(40)
    <2> QED
      BY <2>1, <2>2
  <1> QED
    BY <1>2, <1>3, <1>4 DEF S

\* What was spent at the last point changes nothing before it.
LEMMA RoundsBefore ==
    ASSUME NEW gs, NEW us, Ledger(us), NEW vs, Ledger(vs), DOMAIN us = DOMAIN vs,
           NEW points, NEW now, Times(points, now), \A t \in DOMAIN us : t < now => us[t] = vs[t]
    PROVE  \A p \in points : p < now => Rounds(gs, us, points)[p] = Rounds(gs, vs, points)[p]
  <1> DEFINE S == Rounds(gs, us, points)
             T == Rounds(gs, vs, points)
             H == {n \in Nat : \A p \in points : p < n /\ p < now => S[p] = T[p]}
  <1>1. \A p \in points : S[p] = Stand(gs, us, points, S, p) /\ T[p] = Stand(gs, vs, points, T, p) /\ p \in Nat
    BY RoundsAre, TimesAre
  <1>n. now \in Nat /\ now \in points
    BY TimesAre
  <1> HIDE DEF S, T
  <1>2. 0 \in H
    BY <1>1
  <1>3. ASSUME NEW n \in Nat, n \in H PROVE n + 1 \in H
    <2> SUFFICES ASSUME NEW p \in points, p < n + 1, p < now PROVE S[p] = T[p]
      OBVIOUS
    <2>1. SpentIn(us, p, Until(points, p)) = SpentIn(vs, p, Until(points, p))
      <3>1. Until(points, p) \in Nat /\ Until(points, p) <= now
        <4>1. PICK L : L = {q \in points : p < q}
          OBVIOUS
        <4>2. L \subseteq points /\ now \in L
          BY <1>n, <4>1
        <4>3. IsFiniteSet(L) /\ L \subseteq Int /\ L # {}
          BY <4>2, TimesAre
        <4>4. Min(L) \in L /\ Min(L) <= now
          BY <4>2, <4>3, HasFirst
        <4>5. Until(points, p) = Min(L)
          BY <4>1, <4>3 DEF Until
        <4> QED
          BY <1>1, <4>2, <4>4, <4>5
      <3>2. PICK W : W = {t \in DOMAIN us : p <= t /\ t < Until(points, p)}
        OBVIOUS
      <3>3. IsFiniteSet(W) /\ \A t \in W : us[t] \in Int /\ us[t] = vs[t]
        <4>1. W \subseteq DOMAIN us
          BY <3>2
        <4>2. IsFiniteSet(W)
          BY <4>1, FS_Subset DEF Ledger
        <4>3. \A t \in W : t \in Int /\ us[t] \in Int /\ t < Until(points, p)
          BY <3>2 DEF Ledger
        <4>4. \A t \in W : t < now
          BY <1>n, <3>1, <4>3
        <4> QED
          BY <4>1, <4>2, <4>3, <4>4
      <3>4. Total(W, us) = Total(W, vs)
        BY <3>3, TotalSame
      <3> QED
        BY <3>2, <3>4 DEF SpentIn
    <2>2. CASE Earlier(points, p) = {}
      BY <1>1, <2>1, <2>2 DEF Stand, Round
    <2>3. CASE Earlier(points, p) # {}
      <3>1. PICK last : last = Max(Earlier(points, p))
        OBVIOUS
      <3>2. last \in points /\ last \in Nat /\ last < p
        BY <2>3, <3>1, PointBefore
      <3>3. last < n /\ last < now
        BY <1>1, <1>n, <3>2
      <3>4. S[last] = T[last]
        BY <1>3, <3>2, <3>3
      <3>5. S[p] = Round(gs, us, S[last], last, points, p) /\ T[p] = Round(gs, vs, T[last], last, points, p)
        BY <1>1, <2>3, <3>1 DEF Stand
      <3> QED
        BY <2>1, <3>4, <3>5 DEF Round
    <2> QED
      BY <2>2, <2>3
  <1>4. ASSUME NEW p \in points, p < now PROVE S[p] = T[p]
    <2>1. p + 1 \in Nat /\ p < p + 1
      BY <1>1
    <2>2. p + 1 \in H
      <3> HIDE DEF H
      <3>1. Nat \subseteq H
        BY <1>2, <1>3, Counting
      <3> QED
        BY <2>1, <3>1
    <2> QED
      BY <1>4, <2>1, <2>2
  <1> QED
    BY <1>4 DEF S, T

LEMMA DawnBefore ==
    ASSUME NEW gs, NEW us, Ledger(us), NEW vs, Ledger(vs), DOMAIN us = DOMAIN vs,
           NEW points, NEW now, Times(points, now), \A t \in DOMAIN us : t < now => us[t] = vs[t]
    PROVE  Dawn(gs, us, points, now) = Dawn(gs, vs, points, now)
  <1>1. CASE Earlier(points, now) = {}
    BY <1>1 DEF Dawn
  <1>2. CASE Earlier(points, now) # {}
    <2>1. PICK last : last = Max(Earlier(points, now))
      OBVIOUS
    <2>2. last \in points /\ last < now
      <3>1. now \in points
        BY TimesAre
      <3> QED
        BY <1>2, <2>1, <3>1, PointBefore
    <2>3. Rounds(gs, us, points)[last] = Rounds(gs, vs, points)[last]
      BY <2>2, RoundsBefore
    <2> QED
      BY <1>2, <2>1, <2>3 DEF Dawn
  <1> QED
    BY <1>1, <1>2

\* So what lapsed by now does not depend on what was spent now.
LEMMA LapsedBefore ==
    ASSUME NEW gs, Rows(gs), NEW us, Ledger(us), NEW vs, Ledger(vs), DOMAIN us = DOMAIN vs,
           NEW start \in Nat, NEW now \in Nat, start <= now, now < Never,
           \A t \in DOMAIN us : t < now => us[t] = vs[t]
    PROVE  balance(gs, us, start, now).lapsed = balance(gs, vs, start, now).lapsed
  <1>1. PICK points : points = Points(gs, start, now)
    OBVIOUS
  <1>2. Spans(points, start, now) /\ Times(points, now) /\ now \in points
    BY <1>1, PointsSpan, TimesAre DEF Spans
  <1>3. Dawn(gs, us, points, now) = Dawn(gs, vs, points, now)
    BY <1>2, DawnBefore
  <1>4. /\ Rounds(gs, us, points)[now].lapsed = Dawn(gs, us, points, now).lapsed
        /\ Rounds(gs, vs, points)[now].lapsed = Dawn(gs, vs, points, now).lapsed
    BY <1>2, DawnIs
  <1>5. /\ balance(gs, us, start, now).lapsed = Rounds(gs, us, points)[now].lapsed
        /\ balance(gs, vs, start, now).lapsed = Rounds(gs, vs, points)[now].lapsed
    BY <1>1 DEF balance, Result
  <1> QED
    BY <1>3, <1>4, <1>5

\* Credits are owed only when none is left.
Tight(st) == st.debt > 0 => Total(st.active, st.left) = 0

LEMMA LeftOf ==
    ASSUME NEW gs, Rows(gs), NEW st \in Standing(gs)
    PROVE  /\ Total(st.active, st.left) \in Int /\ st.debt \in Int /\ st.lapsed \in Int
           /\ Total(st.active, st.left) = Value(st) + st.debt - st.lapsed /\ Value(st) \in Int
           /\ Covered(st) => st.debt >= 0 /\ Total(st.active, st.left) >= 0
  <1>1. /\ st.left \in [DOMAIN gs -> Int] /\ st.active \in SUBSET DOMAIN gs /\ st.debt \in Int /\ st.lapsed \in Int
        /\ Total(st.active, st.left) \in Int /\ Value(st) \in Int
    BY StandingParts
  <1>2. Total(st.active, st.left) = Value(st) + st.debt - st.lapsed
    BY <1>1 DEF Value
  <1>3. ASSUME Covered(st) PROVE st.debt >= 0 /\ Total(st.active, st.left) >= 0
    <2>1. IsFiniteSet(st.active) /\ \A i \in st.active : st.left[i] \in Int /\ st.left[i] >= 0
      BY <1>1, <1>3, RowNumbers DEF Covered
    <2>2. Total(st.active, st.left) >= 0
      BY <2>1, TotalAtLeast
    <2> QED
      BY <1>3, <2>2 DEF Covered
  <1> QED
    BY <1>1, <1>2, <1>3

LEMMA TakeDebt ==
    ASSUME NEW gs, Rows(gs), NEW st \in Standing(gs), NEW amount \in Int
    PROVE  /\ Take(gs, st, amount) \in Standing(gs) /\ Take(gs, st, amount).lapsed = st.lapsed
           /\ Take(gs, st, amount).active = st.active
           /\ Total(st.active, Took(gs, st, amount)) \in Int
           /\ Take(gs, st, amount).debt = st.debt + amount - Total(st.active, Took(gs, st, amount))
           /\ \A i \in DOMAIN gs : Take(gs, st, amount).left[i] = st.left[i] - Took(gs, st, amount)[i]
  <1> DEFINE t == Take(gs, st, amount)
             took == Took(gs, st, amount)
  <1>1. /\ t \in Standing(gs) /\ t.active = st.active /\ t.lapsed = st.lapsed
        /\ t.left = [i \in DOMAIN gs |-> st.left[i] - took[i]]
        /\ Total(st.active, took) \in Int
        /\ t.debt = st.debt + amount - Total(st.active, took)
    BY TakeParts
  <1> QED
    BY <1>1

LEMMA TightTake ==
    ASSUME NEW gs, Rows(gs), NEW st \in Standing(gs), Covered(st), Tight(st), NEW amount \in Nat
    PROVE  Tight(Take(gs, st, amount))
  <1>1. PICK t, tk, tl : t = Take(gs, st, amount) /\ tk = Total(st.active, Took(gs, st, amount)) /\ tl = Total(st.active, st.left)
    OBVIOUS
  <1>2. t \in Standing(gs) /\ t.lapsed = st.lapsed /\ tk \in Int /\ t.debt = st.debt + amount - tk
    <2>1. /\ Take(gs, st, amount) \in Standing(gs) /\ Take(gs, st, amount).lapsed = st.lapsed
          /\ Total(st.active, Took(gs, st, amount)) \in Int
          /\ Take(gs, st, amount).debt = st.debt + amount - Total(st.active, Took(gs, st, amount))
      <3>1. amount \in Int
        OBVIOUS
      <3> QED
        BY <3>1, TakeDebt
    <2> QED
      BY <1>1, <2>1
  <1>3. tk = Least(amount, tl)
    <2>1. st.active \in SUBSET st.active /\ Closed(gs, st, st.active)
      BY DEF Closed
    <2> QED
      BY <1>1, <2>1, FirstGive
  <1>4. Value(t) = Value(st) - amount
    BY <1>1, TakeValue
  <1>5. tl \in Int /\ st.debt \in Int /\ st.lapsed \in Int /\ tl = Value(st) + st.debt - st.lapsed /\ Value(st) \in Int /\ tl >= 0 /\ st.debt >= 0
    BY <1>1, LeftOf
  <1>6. Total(t.active, t.left) = Value(t) + t.debt - t.lapsed
    BY <1>2, LeftOf
  <1>7. Total(t.active, t.left) = tl - tk
    BY <1>2, <1>4, <1>5, <1>6
  <1>8. ASSUME t.debt > 0 PROVE tk = tl
    <2>1. st.debt > 0 => tl = 0
      BY <1>1 DEF Tight
    <2> QED
      BY <1>2, <1>3, <1>5, <1>8, <2>1 DEF Least
  <1> QED
    BY <1>1, <1>5, <1>7, <1>8 DEF Tight

\* What comes of a grant: one taken back is taken with what is owed; one to pay with pays that first.
Freed(st) == [left |-> st.left, active |-> st.active, debt |-> 0, lapsed |-> st.lapsed]
Pays(gs, st, i) == Least(st.debt, gs[i].credits)
Paid(gs, st, i) ==
    [left |-> [st.left EXCEPT ![i] = gs[i].credits - Pays(gs, st, i)], active |-> st.active \cup {i},
     debt |-> st.debt - Pays(gs, st, i), lapsed |-> st.lapsed]

LEMMA ArriveParts ==
    ASSUME NEW gs, Rows(gs), NEW st \in Standing(gs), NEW i \in DOMAIN gs
    PROVE  /\ gs[i].credits < 0 =>
                 Freed(st) \in Standing(gs) /\ Arrive(gs, st, i) = Take(gs, Freed(st), st.debt - gs[i].credits)
                 /\ st.debt - gs[i].credits \in Int
           /\ ~(gs[i].credits < 0) => Pays(gs, st, i) \in Int /\ Arrive(gs, st, i) = Paid(gs, st, i)
           /\ Arrive(gs, st, i) \in Standing(gs)
           /\ Arrive(gs, st, i).lapsed = st.lapsed
  <1> DEFINE t == Arrive(gs, st, i)
             pays == Least(st.debt, gs[i].credits)
             u == [left |-> st.left, active |-> st.active, debt |-> 0, lapsed |-> st.lapsed]
  <1>1. gs[i].credits \in Int
    BY DEF Rows
  <1>2. /\ st.left \in [DOMAIN gs -> Int] /\ st.active \in SUBSET DOMAIN gs /\ st.debt \in Int /\ st.lapsed \in Int
        /\ st = [left |-> st.left, active |-> st.active, debt |-> st.debt, lapsed |-> st.lapsed]
    BY StandingParts DEF Standing
  <1>3. CASE gs[i].credits < 0
    <2>1. [st EXCEPT !.debt = 0] = u
      BY <1>2
    <2>2. t = Take(gs, u, st.debt - gs[i].credits)
      BY <1>3, <2>1 DEF Arrive
    <2>3. u \in Standing(gs) /\ st.debt - gs[i].credits \in Int /\ u.lapsed = st.lapsed
      BY <1>1, <1>2 DEF Standing
    <2> HIDE DEF t, u
    <2>4. t \in Standing(gs) /\ t.lapsed = st.lapsed
      BY <2>2, <2>3, TakeParts, ZenonT(40)
    <2> QED
      BY <1>3, <2>2, <2>3, <2>4 DEF t, u, Freed
  <1>4. CASE ~(gs[i].credits < 0)
    <2>p. pays \in Int
      BY <1>1, <1>2 DEF Least
    <2>1. t = [st EXCEPT !.left[i] = gs[i].credits - pays, !.debt = st.debt - pays, !.active = st.active \cup {i}]
      BY <1>4 DEF Arrive
    <2> HIDE DEF pays, t
    <2>2. t = [left |-> [st.left EXCEPT ![i] = gs[i].credits - pays], active |-> st.active \cup {i},
               debt |-> st.debt - pays, lapsed |-> st.lapsed]
      BY <1>2, <2>1
    <2>3. [st.left EXCEPT ![i] = gs[i].credits - pays] \in [DOMAIN gs -> Int]
      BY <1>1, <1>2, <2>p
    <2>4. t \in Standing(gs) /\ t.lapsed = st.lapsed
      BY <1>2, <2>2, <2>3, <2>p DEF Standing
    <2> QED
      BY <1>4, <2>2, <2>4, <2>p DEF t, pays, Paid, Pays
  <1> QED
    BY <1>3, <1>4

LEMMA TightArrive ==
    ASSUME NEW gs, Rows(gs), NEW st \in Standing(gs), NEW i \in DOMAIN gs, i \notin st.active, Covered(st), Tight(st)
    PROVE  Tight(Arrive(gs, st, i))
  <1>1. gs[i].credits \in Int /\ st.debt \in Int /\ st.debt >= 0
    BY LeftOf DEF Rows
  <1>2. CASE gs[i].credits < 0
    <2>1. PICK u : u = Freed(st)
      OBVIOUS
    <2>2. u \in Standing(gs) /\ Arrive(gs, st, i) = Take(gs, u, st.debt - gs[i].credits)
      BY <1>2, <2>1, ArriveParts
    <2>3. Covered(u) /\ Tight(u) /\ st.debt - gs[i].credits \in Nat
      BY <1>1, <1>2, <2>1 DEF Covered, Tight, Freed
    <2> QED
      BY <2>2, <2>3, TightTake
  <1>3. CASE ~(gs[i].credits < 0)
    <2>1. PICK pays, t : pays = Pays(gs, st, i) /\ t = Arrive(gs, st, i)
      OBVIOUS
    <2>2. t = Paid(gs, st, i) /\ t \in Standing(gs)
      BY <1>3, <2>1, ArriveParts
    <2>3. t.debt = st.debt - pays /\ t.lapsed = st.lapsed
      BY <2>1, <2>2 DEF Paid
    <2>4. Value(t) = Value(st) + gs[i].credits
      BY <2>1, ArriveKeeps
    <2>5. Total(t.active, t.left) = Value(t) + t.debt - t.lapsed
      BY <2>2, LeftOf
    <2>6. Total(st.active, st.left) = Value(st) + st.debt - st.lapsed /\ Value(st) \in Int /\ st.lapsed \in Int
      BY LeftOf
    <2>7. ASSUME t.debt > 0 PROVE Total(t.active, t.left) = 0
      <3>1. pays = gs[i].credits /\ st.debt > 0
        BY <1>1, <1>3, <2>1, <2>3, <2>7 DEF Least, Pays
      <3>2. Total(st.active, st.left) = 0
        BY <3>1 DEF Tight
      <3> QED
        BY <1>1, <2>3, <2>4, <2>5, <2>6, <3>1, <3>2
    <2> QED
      BY <2>1, <2>7 DEF Tight
  <1> QED
    BY <1>2, <1>3

Gone(gs, st, point) == {i \in st.active : ExpiresAt(gs[i]) <= point}

LEMMA LapseParts ==
    ASSUME NEW gs, Rows(gs), NEW st \in Standing(gs), NEW point \in Int
    PROVE  /\ Lapse(gs, st, point).debt = st.debt
           /\ Lapse(gs, st, point).lapsed = st.lapsed + Total(Gone(gs, st, point), st.left)
           /\ Total(Gone(gs, st, point), st.left) \in Int
           /\ Lapse(gs, st, point).active = st.active \ Gone(gs, st, point)
           /\ \A i \in DOMAIN gs : Lapse(gs, st, point).left[i] = IF i \in Gone(gs, st, point) THEN 0 ELSE st.left[i]
           /\ (Covered(st) => Total(Gone(gs, st, point), st.left) >= 0)
  <1> DEFINE t == Lapse(gs, st, point)
             gone == Gone(gs, st, point)
             left == [i \in DOMAIN gs |-> IF i \in gone THEN 0 ELSE st.left[i]]
  <1>1. /\ st.left \in [DOMAIN gs -> Int] /\ st.active \in SUBSET DOMAIN gs
        /\ st = [left |-> st.left, active |-> st.active, debt |-> st.debt, lapsed |-> st.lapsed]
    BY StandingParts DEF Standing
  <1>2. t = [st EXCEPT !.lapsed = st.lapsed + Total(gone, st.left), !.left = left, !.active = st.active \ gone]
    BY DEF Lapse, Gone
  <1>3. gone \in SUBSET DOMAIN gs /\ gone \subseteq st.active
    BY <1>1 DEF Gone
  <1> HIDE DEF t, gone, left
  <1>4. t = [left |-> left, active |-> st.active \ gone, debt |-> st.debt, lapsed |-> st.lapsed + Total(gone, st.left)]
    BY <1>1, <1>2
  <1>5. Total(gone, st.left) \in Int
    BY <1>3, StandingParts
  <1>6. ASSUME Covered(st) PROVE Total(gone, st.left) >= 0
    <2>1. IsFiniteSet(gone) /\ \A i \in gone : st.left[i] \in Int /\ st.left[i] >= 0
      BY <1>1, <1>3, <1>6, RowNumbers DEF Covered
    <2> QED
      BY <2>1, TotalAtLeast
  <1>7. t.debt = st.debt /\ t.lapsed = st.lapsed + Total(gone, st.left) /\ t.active = st.active \ gone
        /\ \A i \in DOMAIN gs : t.left[i] = IF i \in gone THEN 0 ELSE st.left[i]
    BY <1>4 DEF left
  <1> QED
    BY <1>5, <1>6, <1>7 DEF t, gone

LEMMA TightLapse ==
    ASSUME NEW gs, Rows(gs), NEW st \in Standing(gs), NEW point \in Int, Covered(st), Tight(st)
    PROVE  Tight(Lapse(gs, st, point))
  <1>1. PICK t, lost : t = Lapse(gs, st, point) /\ lost = Total(Gone(gs, st, point), st.left)
    OBVIOUS
  <1>2. t.debt = st.debt /\ t.lapsed = st.lapsed + lost /\ lost \in Int /\ lost >= 0
    BY <1>1, LapseParts
  <1>3. t \in Standing(gs) /\ Value(t) = Value(st) /\ Covered(t)
    BY <1>1, LapseKeeps
  <1>4. Total(t.active, t.left) = Value(t) + t.debt - t.lapsed /\ Total(t.active, t.left) >= 0
    BY <1>3, LeftOf
  <1>5. Total(st.active, st.left) = Value(st) + st.debt - st.lapsed /\ Value(st) \in Int /\ st.lapsed \in Int /\ st.debt \in Int
    BY LeftOf
  <1>6. ASSUME t.debt > 0 PROVE Total(t.active, t.left) = 0
    <2>1. Total(st.active, st.left) = 0
      BY <1>2, <1>6 DEF Tight
    <2> QED
      BY <1>2, <1>3, <1>4, <1>5, <2>1
  <1> QED
    BY <1>1, <1>6 DEF Tight

LEMMA TightCome ==
    ASSUME NEW gs, Rows(gs), NEW st \in Standing(gs), Covered(st), Tight(st), NEW last \in Int, NEW point \in Int,
           \A i \in st.active : gs[i].at <= last
    PROVE  Tight(Come(gs, st, last, point))
  <1>1. PICK g, came : /\ came = Came(gs, last, point) /\ Come(gs, st, last, point) = g[Len(gs)] /\ g[0] = st
                       /\ \A n \in 1..Len(gs) : g[n] = IF n \in came THEN Arrive(gs, g[n - 1], n) ELSE g[n - 1]
    BY ComeIs DEF CameBy
  <1>2. Len(gs) \in Nat /\ DOMAIN gs = 1..Len(gs) /\ \A i \in came : i \notin st.active
    <2>1. \A i \in DOMAIN gs : gs[i].at \in Nat
      BY DEF Rows
    <2> QED
      BY <1>1, <2>1 DEF Rows, Came
  <1> DEFINE Fine(n) == /\ g[n] \in Standing(gs) /\ Covered(g[n]) /\ Tight(g[n])
                        /\ \A i \in g[n].active : i \in st.active \/ i <= n
             H == {n \in Nat : n <= Len(gs) => Fine(n)}
  <1>3. 0 \in H
    BY <1>1
  <1>4. ASSUME NEW n \in Nat, n \in H PROVE n + 1 \in H
    <2> SUFFICES ASSUME n + 1 <= Len(gs) PROVE Fine(n + 1)
      OBVIOUS
    <2>1. Fine(n) /\ n + 1 \in 1..Len(gs) /\ (n + 1) - 1 = n
      BY <1>2, <1>4
    <2>2. g[n + 1] = IF n + 1 \in came THEN Arrive(gs, g[n], n + 1) ELSE g[n]
      BY <1>1, <2>1
    <2>3. g[n].active \in SUBSET DOMAIN gs
      BY <2>1, StandingParts
    <2>4. CASE n + 1 \in came
      <3>1. n + 1 \in DOMAIN gs /\ n + 1 \notin g[n].active
        BY <1>2, <2>1, <2>4
      <3>2. /\ Arrive(gs, g[n], n + 1) \in Standing(gs) /\ Covered(Arrive(gs, g[n], n + 1))
            /\ Arrive(gs, g[n], n + 1).active \subseteq g[n].active \cup {n + 1}
        BY <2>1, <3>1, ArriveKeeps
      <3>3. Tight(Arrive(gs, g[n], n + 1))
        BY <2>1, <3>1, TightArrive
      <3>4. \A i \in Arrive(gs, g[n], n + 1).active : i \in st.active \/ i <= n + 1
        BY <1>2, <2>1, <2>3, <3>1, <3>2
      <3> QED
        BY <2>2, <2>4, <3>2, <3>3, <3>4
    <2>5. CASE n + 1 \notin came
      <3>1. \A i \in g[n].active : i \in st.active \/ i <= n + 1
        BY <1>2, <2>1, <2>3
      <3> QED
        BY <2>1, <2>2, <2>5, <3>1
    <2> QED
      BY <2>4, <2>5
  <1>5. Fine(Len(gs))
    <2> HIDE DEF H
    <2>1. Nat \subseteq H
      BY <1>3, <1>4, Counting
    <2>2. Len(gs) \in H /\ Len(gs) <= Len(gs)
      BY <1>2, <2>1
    <2> HIDE DEF Fine
    <2> QED
      BY <2>2 DEF H
  <1> QED
    BY <1>1, <1>5

LEMMA TightReady ==
    ASSUME NEW gs, Rows(gs), NEW st \in Standing(gs), Covered(st), Tight(st), NEW last \in Int, NEW p \in Int, last <= p,
           \A i \in st.active : gs[i].at <= last
    PROVE  Tight(Ready(gs, st, last, p))
  <1>1. PICK b : b = Come(gs, st, last, p)
    OBVIOUS
  <1>2. b \in Standing(gs) /\ Covered(b) /\ Tight(b)
    BY <1>1, ComeKeeps, TightCome
  <1>3. Tight(Lapse(gs, b, p))
    BY <1>2, TightLapse
  <1> QED
    BY <1>1, <1>3 DEF Ready

LEMMA TightRounds ==
    ASSUME NEW gs, Rows(gs), NEW us, Ledger(us), \A t \in DOMAIN us : us[t] >= 0,
           NEW points, NEW start, NEW now, Spans(points, start, now)
    PROVE  \A p \in points : Tight(Rounds(gs, us, points)[p]) /\ Tight(Dawn(gs, us, points, p))
  <1> DEFINE S == Rounds(gs, us, points)
             D(p) == Dawn(gs, us, points, p)
             H == {n \in Nat : \A p \in points : p < n => Tight(S[p]) /\ Tight(D(p))}
  <1>t. \A p \in points : p \in Nat
    BY TimesAre DEF Spans
  <1>r. \A p \in points : D(p) \in Standing(gs) /\ Covered(D(p)) /\ \E spent \in Nat : S[p] = Take(gs, D(p), spent)
    BY DawnIs
  <1>s. \A p \in points : S[p] \in Standing(gs) /\ Covered(S[p]) /\ \A i \in S[p].active : gs[i].at <= p
    BY RoundsStand DEF Stood
  <1> HIDE DEF S
  <1>1. 0 \in H
    BY <1>t
  <1>2. ASSUME NEW n \in Nat, n \in H PROVE n + 1 \in H
    <2> SUFFICES ASSUME NEW p \in points, p < n + 1 PROVE Tight(S[p]) /\ Tight(D(p))
      OBVIOUS
    <2>1. Tight(D(p))
      <3>1. CASE Earlier(points, p) = {}
        <4>1. D(p) = Ready(gs, Nothing(gs), -1, p)
          BY <3>1 DEF Dawn
        <4>2. -1 \in Int /\ p \in Int /\ -1 <= p /\ (\A i \in Nothing(gs).active : gs[i].at <= -1) /\ Tight(Nothing(gs))
          BY <1>t, NothingStands DEF Tight, Nothing
        <4> QED
          BY <4>1, <4>2, NothingStands, TightReady
      <3>2. CASE Earlier(points, p) # {}
        <4>1. PICK last : last = Max(Earlier(points, p))
          OBVIOUS
        <4>2. last \in points /\ last \in Nat /\ last < p
          BY <3>2, <4>1, PointBefore DEF Spans
        <4>3. D(p) = Ready(gs, S[last], last, p)
          BY <3>2, <4>1 DEF Dawn, S
        <4>4. last < n /\ last <= p /\ p \in Int /\ last \in Int
          BY <1>t, <4>2
        <4>5. Tight(S[last])
          BY <1>2, <4>2, <4>4
        <4> QED
          BY <1>s, <4>2, <4>3, <4>4, <4>5, TightReady
      <3> QED
        BY <3>1, <3>2
    <2>2. Tight(S[p])
      <3> HIDE DEF D
      <3>1. PICK spent \in Nat : S[p] = Take(gs, D(p), spent)
        BY <1>r
      <3> QED
        BY <1>r, <2>1, <3>1, TightTake
    <2> QED
      BY <2>1, <2>2
  <1>3. ASSUME NEW p \in points PROVE Tight(S[p]) /\ Tight(D(p))
    <2>1. p + 1 \in Nat /\ p < p + 1
      BY <1>t
    <2>2. p + 1 \in H
      <3> HIDE DEF H
      <3>1. Nat \subseteq H
        BY <1>1, <1>2, Counting
      <3> QED
        BY <2>1, <3>1
    <2> QED
      BY <2>1, <2>2
  <1> QED
    BY <1>3 DEF S

\* A month more changes nothing of the months before, while nothing is spent ahead.
LEMMA MonthsBefore ==
    ASSUME NEW gs, NEW us, Ledger(us), NEW start \in Nat, NEW m \in Nat, start <= m, m + 1 < Never,
           \A t \in DOMAIN us : m < t => us[t] = 0
    PROVE  \A p \in start..m : Rounds(gs, us, start..(m + 1))[p] = Rounds(gs, us, start..m)[p]
  <1> DEFINE S == Rounds(gs, us, start..m)
             T == Rounds(gs, us, start..(m + 1))
             H == {n \in Nat : start + n <= m => T[start + n] = S[start + n]}
  <1>1. Times(start..m, m) /\ Times(start..(m + 1), m + 1) /\ m < Never /\ Never \in Nat /\ m + 1 \in Nat
    BY TopupAssumption DEF Times
  <1>2. ASSUME NEW p \in start..m
        PROVE  S[p] = Stand(gs, us, start..m, S, p) /\ T[p] = Stand(gs, us, start..(m + 1), T, p)
    <2>1. p \in start..(m + 1)
      OBVIOUS
    <2> QED
      BY <1>1, <2>1, RoundsAre
  <1> HIDE DEF S, T
  <1>3. ASSUME NEW p \in start..m
        PROVE  SpentIn(us, p, Until(start..m, p)) = SpentIn(us, p, Until(start..(m + 1), p))
    <2>1. p \in start..(m + 1) /\ p # m + 1
      OBVIOUS
    <2>2. Until(start..m, p) = (IF p = m THEN Never ELSE p + 1) /\ Until(start..(m + 1), p) = p + 1
      BY <1>1, <2>1, MonthAfter
    <2>3. CASE p = m
      <3>1. SpentIn(us, p, Never) = SpentIn(us, p, p + 1) + SpentIn(us, p + 1, Never)
        <4>1. p \in Int /\ p + 1 \in Int /\ Never \in Int /\ p <= p + 1 /\ p + 1 <= Never
          BY <1>1, <2>3
        <4> QED
          BY <4>1, SpentJoins
      <3>2. SpentIn(us, p + 1, Never) = 0
        <4>1. PICK W : W = {t \in DOMAIN us : p + 1 <= t /\ t < Never}
          OBVIOUS
        <4>2. IsFiniteSet(W)
          BY <4>1, FS_Subset DEF Ledger
        <4>3. \A t \in W : us[t] = 0
          BY <2>3, <4>1 DEF Ledger
        <4>4. Total(W, us) = 0
          BY <4>2, <4>3, TotalOfZero
        <4> QED
          BY <4>1, <4>4 DEF SpentIn
      <3>3. SpentIn(us, p, p + 1) \in Int
        BY SpentTypes
      <3> QED
        BY <2>2, <2>3, <3>1, <3>2, <3>3
    <2>4. CASE p # m
      BY <2>2, <2>4
    <2> QED
      BY <2>3, <2>4
  <1>4. 0 \in H
    <2>1. start \in start..m /\ start + 0 = start /\ start \in start..(m + 1)
      OBVIOUS
    <2>2. Earlier(start..m, start) = {} /\ Earlier(start..(m + 1), start) = {}
      BY <1>1, <2>1, MonthAfter
    <2>3. T[start] = S[start]
      BY <1>2, <1>3, <2>1, <2>2 DEF Stand, Round
    <2> QED
      BY <2>1, <2>3
  <1>5. ASSUME NEW n \in Nat, n \in H PROVE n + 1 \in H
    <2> SUFFICES ASSUME start + (n + 1) <= m PROVE T[start + (n + 1)] = S[start + (n + 1)]
      OBVIOUS
    <2>1. PICK q : q = start + n
      OBVIOUS
    <2>2. /\ q \in start..m /\ q < m /\ q \in start..(m + 1) /\ q < m + 1 /\ q + 1 \in start..m /\ start + (n + 1) = q + 1
      BY <2>1
    <2>3. T[q] = S[q]
      BY <1>5, <2>1, <2>2
    <2>4. /\ Earlier(start..m, q + 1) # {} /\ Max(Earlier(start..m, q + 1)) = q
          /\ Earlier(start..(m + 1), q + 1) # {} /\ Max(Earlier(start..(m + 1), q + 1)) = q
      <3>1. ASSUME NEW now \in Nat, now < Never, q \in start..now, q < now
            PROVE  Earlier(start..now, q + 1) # {} /\ Max(Earlier(start..now, q + 1)) = q
        BY <3>1, MonthAfter
      <3>2. Earlier(start..m, q + 1) # {} /\ Max(Earlier(start..m, q + 1)) = q
        BY <1>1, <2>2, <3>1
      <3>3. Earlier(start..(m + 1), q + 1) # {} /\ Max(Earlier(start..(m + 1), q + 1)) = q
        BY <1>1, <2>2, <3>1
      <3> QED
        BY <3>2, <3>3
    <2>5. SpentIn(us, q + 1, Until(start..m, q + 1)) = SpentIn(us, q + 1, Until(start..(m + 1), q + 1))
      BY <1>3, <2>2
    <2>6. S[q + 1] = Round(gs, us, S[q], q, start..m, q + 1) /\ T[q + 1] = Round(gs, us, T[q], q, start..(m + 1), q + 1)
      BY <1>2, <2>2, <2>4 DEF Stand
    <2> QED
      BY <2>2, <2>3, <2>5, <2>6 DEF Round
  <1>6. ASSUME NEW p \in start..m PROVE T[p] = S[p]
    <2>1. p - start \in Nat /\ start + (p - start) = p /\ p <= m
      OBVIOUS
    <2>2. p - start \in H
      <3> HIDE DEF H
      <3>1. Nat \subseteq H
        BY <1>4, <1>5, Counting
      <3> QED
        BY <2>1, <3>1
    <2> QED
      BY <2>1, <2>2
  <1> QED
    BY <1>6 DEF S, T

\* What is left at a point: before what was spent there was taken, less that.
LEMMA LeftAtDawn ==
    ASSUME NEW gs, Rows(gs), NEW us, Ledger(us), NEW points, NEW start, NEW now, Spans(points, start, now)
    PROVE  LET st == Rounds(gs, us, points)[now]
               d == Dawn(gs, us, points, now)
           IN  /\ st \in Standing(gs) /\ Total(st.active, st.left) - st.debt = Value(st) - st.lapsed
               /\ Value(st) = Value(d) - SpentIn(us, now, Never) /\ st.lapsed = d.lapsed
  <1>1. now \in points /\ Until(points, now) = Never
    BY TimesAre, PointAfter DEF Spans
  <1>2. PICK st, d, spent : st = Rounds(gs, us, points)[now] /\ d = Dawn(gs, us, points, now) /\ spent = SpentIn(us, now, Never)
    OBVIOUS
  <1>3. d \in Standing(gs) /\ st = Take(gs, d, spent) /\ spent \in Int /\ st.lapsed = d.lapsed
    BY <1>1, <1>2, DawnIs
  <1>4. st \in Standing(gs) /\ Value(st) = Value(d) - spent
    BY <1>3, TakeValue
  <1>5. Total(st.active, st.left) = Value(st) + st.debt - st.lapsed /\ Value(st) \in Int /\ st.debt \in Int /\ st.lapsed \in Int
        /\ Total(st.active, st.left) \in Int
    BY <1>4, LeftOf
  <1> QED
    BY <1>2, <1>3, <1>4, <1>5

\* A month that begins lets no more lapse than what was left beyond what is owed.
LEMMA NextMonth ==
    ASSUME NEW gs, Rows(gs), NEW us, Ledger(us), \A t \in DOMAIN us : us[t] >= 0,
           NEW start \in Nat, NEW m \in Nat, start <= m, m + 1 < Never,
           \A i \in DOMAIN gs : gs[i].at <= m, \A t \in DOMAIN us : m < t => us[t] = 0
    PROVE  /\ balance(gs, us, start, m + 1).left \in Int /\ balance(gs, us, start, m).left \in Int
           /\ balance(gs, us, start, m + 1).left >= balance(gs, us, start, m).left \/ balance(gs, us, start, m + 1).left >= 0
  <1>1. PICK st, t, d : /\ st = Rounds(gs, us, start..m)[m] /\ t = Rounds(gs, us, start..(m + 1))[m + 1]
                        /\ d = Dawn(gs, us, start..(m + 1), m + 1)
    OBVIOUS
  <1>2. Spans(start..m, start, m) /\ Spans(start..(m + 1), start, m + 1) /\ m \in start..m /\ m + 1 \in Nat /\ start <= m + 1
    BY PointsSpan, TopupAssumption
  <1>3. /\ st \in Standing(gs) /\ Total(st.active, st.left) - st.debt = Value(st) - st.lapsed
        /\ t \in Standing(gs) /\ Total(t.active, t.left) - t.debt = Value(t) - t.lapsed
        /\ Value(t) = Value(d) - SpentIn(us, m + 1, Never) /\ t.lapsed = d.lapsed
    BY <1>1, <1>2, LeftAtDawn
  <1>4. Covered(st) /\ Tight(st)
    BY <1>1, <1>2, RoundsStand, TightRounds DEF Stood
  <1>5. d = Lapse(gs, st, m + 1)
    <2>1. Rounds(gs, us, start..(m + 1))[m] = st
      BY <1>1, <1>2, MonthsBefore
    <2>2. Earlier(start..(m + 1), m + 1) # {} /\ Max(Earlier(start..(m + 1), m + 1)) = m
      <3>1. m \in start..(m + 1) /\ m < m + 1
        OBVIOUS
      <3> QED
        BY <1>2, <3>1, MonthAfter
    <2>3. Came(gs, m, m + 1) = {}
      <3>1. \A i \in DOMAIN gs : gs[i].at \in Nat
        BY DEF Rows
      <3> QED
        BY <3>1 DEF Came
    <2>4. Come(gs, st, m, m + 1) = st
      BY <2>3, ComeNone
    <2> QED
      BY <1>1, <2>1, <2>2, <2>4 DEF Dawn, Ready
  <1>6. PICK lost : lost = Total(Gone(gs, st, m + 1), st.left)
    OBVIOUS
  <1>7. d.debt = st.debt /\ d.lapsed = st.lapsed + lost /\ lost \in Int /\ lost >= 0
    <2>1. m + 1 \in Int
      OBVIOUS
    <2>2. /\ Lapse(gs, st, m + 1).debt = st.debt
          /\ Lapse(gs, st, m + 1).lapsed = st.lapsed + Total(Gone(gs, st, m + 1), st.left)
          /\ Total(Gone(gs, st, m + 1), st.left) \in Int /\ Total(Gone(gs, st, m + 1), st.left) >= 0
      BY <1>3, <1>4, <2>1, LapseParts
    <2> QED
      BY <1>5, <1>6, <2>2
  <1>8. d \in Standing(gs) /\ Value(d) = Value(st) /\ Covered(d)
    BY <1>2, <1>3, <1>4, <1>5, LapseKeeps
  <1>9. SpentIn(us, m + 1, Never) = 0
    <2>1. PICK W : W = {x \in DOMAIN us : m + 1 <= x /\ x < Never}
      OBVIOUS
    <2>2. IsFiniteSet(W)
      BY <2>1, FS_Subset DEF Ledger
    <2>3. \A x \in W : us[x] = 0
      BY <2>1 DEF Ledger
    <2>4. Total(W, us) = 0
      BY <2>2, <2>3, TotalOfZero
    <2> QED
      BY <2>1, <2>4 DEF SpentIn
  <1>10. /\ Value(st) \in Int /\ st.lapsed \in Int /\ st.debt \in Int /\ st.debt >= 0 /\ d.lapsed \in Int
         /\ Total(st.active, st.left) = Value(st) + st.debt - st.lapsed
         /\ Total(d.active, d.left) = Value(d) + d.debt - d.lapsed /\ Total(d.active, d.left) >= 0 /\ Total(d.active, d.left) \in Int
    BY <1>3, <1>4, <1>8, LeftOf
  <1>11. PICK a, b : a = Value(st) - st.lapsed /\ b = Value(t) - t.lapsed
    OBVIOUS
  <1>12. a \in Int /\ b \in Int /\ (b >= a \/ b >= 0)
    <2>1. b = a - lost
      BY <1>3, <1>7, <1>8, <1>9, <1>10, <1>11
    <2>2. CASE st.debt > 0
      <3>1. Total(st.active, st.left) = 0
        BY <1>4, <2>2 DEF Tight
      <3>2. Total(d.active, d.left) = Total(st.active, st.left) - lost
        BY <1>7, <1>8, <1>10
      <3>3. lost = 0
        BY <1>7, <1>10, <3>1, <3>2
      <3> QED
        BY <1>10, <1>11, <2>1, <3>3
    <2>3. CASE st.debt = 0
      BY <1>7, <1>8, <1>10, <1>11, <2>1, <2>3
    <2> QED
      BY <1>10, <2>2, <2>3
  <1>13. balance(gs, us, start, m) = MonthByMonth(gs, us, start, m) /\ balance(gs, us, start, m + 1) = MonthByMonth(gs, us, start, m + 1)
    <2>1. m < Never
      BY TopupAssumption
    <2> QED
      BY <1>2, <2>1, PointsAreEnough
  <1>14. balance(gs, us, start, m).left = a /\ balance(gs, us, start, m + 1).left = b
    BY <1>1, <1>3, <1>11, <1>13 DEF MonthByMonth, Result
  <1> QED
    BY <1>12, <1>14

\* Rows with one more, and accounts that stand alike but for it.
Longer(gs, hs) == Rows(gs) /\ Rows(hs) /\ Len(hs) = Len(gs) + 1 /\ \A i \in DOMAIN gs : hs[i] = gs[i]
Like(gs, hs, s, t) ==
    /\ s \in Standing(gs) /\ t \in Standing(hs)
    /\ t.active = s.active /\ t.debt = s.debt /\ t.lapsed = s.lapsed /\ \A i \in DOMAIN gs : t.left[i] = s.left[i]

LEMMA LongerRows ==
    ASSUME NEW gs, NEW hs, Longer(gs, hs)
    PROVE  /\ Len(gs) \in Nat /\ DOMAIN gs = 1..Len(gs) /\ DOMAIN hs = 1..(Len(gs) + 1)
           /\ DOMAIN gs \subseteq DOMAIN hs
           /\ \A i, j \in DOMAIN gs : ExpiresAt(hs[i]) = ExpiresAt(gs[i]) /\ (Sooner(hs, i, j) <=> Sooner(gs, i, j))
  <1>1. Len(gs) \in Nat /\ DOMAIN gs = 1..Len(gs) /\ DOMAIN hs = 1..(Len(gs) + 1) /\ \A i \in DOMAIN gs : hs[i] = gs[i]
    BY DEF Longer, Rows
  <1>2. DOMAIN gs \subseteq DOMAIN hs
    BY <1>1
  <1>3. \A i, j \in DOMAIN gs : ExpiresAt(hs[i]) = ExpiresAt(gs[i]) /\ (Sooner(hs, i, j) <=> Sooner(gs, i, j))
    BY <1>1 DEF Sooner
  <1> QED
    BY <1>1, <1>2, <1>3

LEMMA LikeTotals ==
    ASSUME NEW gs, NEW hs, Longer(gs, hs), NEW s, NEW t, Like(gs, hs, s, t)
    PROVE  \A S \in SUBSET DOMAIN gs : Total(S, t.left) = Total(S, s.left)
  <1> SUFFICES ASSUME NEW S \in SUBSET DOMAIN gs PROVE Total(S, t.left) = Total(S, s.left)
    OBVIOUS
  <1>1. s \in Standing(gs) /\ Rows(gs)
    BY DEF Like, Longer
  <1>2. s.left \in [DOMAIN gs -> Int] /\ IsFiniteSet(S)
    BY <1>1, StandingParts, RowNumbers
  <1>3. \A i \in S : s.left[i] \in Int /\ s.left[i] = t.left[i]
    BY <1>2 DEF Like
  <1>4. Total(S, s.left) = Total(S, t.left)
    BY <1>2, <1>3, TotalSame
  <1> QED
    BY <1>4

LEMMA LikeTook ==
    ASSUME NEW gs, NEW hs, Longer(gs, hs), NEW s, NEW t, Like(gs, hs, s, t), NEW amount \in Int
    PROVE  \A i \in DOMAIN gs : Took(hs, t, amount)[i] = Took(gs, s, amount)[i]
  <1> SUFFICES ASSUME NEW i \in DOMAIN gs PROVE Took(hs, t, amount)[i] = Took(gs, s, amount)[i]
    OBVIOUS
  <1>1. i \in DOMAIN hs /\ s.active \in SUBSET DOMAIN gs /\ t.active = s.active /\ t.left[i] = s.left[i]
    BY LongerRows, StandingParts DEF Like, Longer
  <1>2. PICK before : before = {j \in s.active : Sooner(gs, j, i)}
    OBVIOUS
  <1>3. before = {j \in t.active : Sooner(hs, j, i)}
    BY <1>1, <1>2, LongerRows
  <1>4. Total(before, t.left) = Total(before, s.left)
    BY <1>1, <1>2, LikeTotals
  <1>5. TakenFrom(hs, t, i, amount) = TakenFrom(gs, s, i, amount)
    BY <1>1, <1>2, <1>3, <1>4, Zenon DEF TakenFrom
  <1> QED
    BY <1>1, <1>5 DEF Took

LEMMA LikeTake ==
    ASSUME NEW gs, NEW hs, Longer(gs, hs), NEW s, NEW t, Like(gs, hs, s, t), NEW amount \in Int
    PROVE  Like(gs, hs, Take(gs, s, amount), Take(hs, t, amount))
  <1>0. Rows(gs) /\ Rows(hs) /\ s \in Standing(gs) /\ t \in Standing(hs) /\ t.active = s.active /\ t.debt = s.debt /\ t.lapsed = s.lapsed
        /\ \A i \in DOMAIN gs : t.left[i] = s.left[i]
    BY DEF Like, Longer
  <1>1. PICK u, v : u = Take(gs, s, amount) /\ v = Take(hs, t, amount)
    OBVIOUS
  <1>2. PICK f, h : f = Took(gs, s, amount) /\ h = Took(hs, t, amount)
    OBVIOUS
  <1>3. /\ u \in Standing(gs) /\ u.lapsed = s.lapsed /\ u.active = s.active /\ u.debt = s.debt + amount - Total(s.active, f)
        /\ \A i \in DOMAIN gs : u.left[i] = s.left[i] - f[i]
    <2>1. /\ Take(gs, s, amount) \in Standing(gs) /\ Take(gs, s, amount).lapsed = s.lapsed
          /\ Take(gs, s, amount).active = s.active
          /\ Take(gs, s, amount).debt = s.debt + amount - Total(s.active, Took(gs, s, amount))
          /\ \A i \in DOMAIN gs : Take(gs, s, amount).left[i] = s.left[i] - Took(gs, s, amount)[i]
      BY <1>0, TakeDebt
    <2> QED
      BY <1>1, <1>2, <2>1
  <1>4. /\ v \in Standing(hs) /\ v.lapsed = t.lapsed /\ v.active = t.active /\ v.debt = t.debt + amount - Total(t.active, h)
        /\ \A i \in DOMAIN hs : v.left[i] = t.left[i] - h[i]
    <2>1. /\ Take(hs, t, amount) \in Standing(hs) /\ Take(hs, t, amount).lapsed = t.lapsed
          /\ Take(hs, t, amount).active = t.active
          /\ Take(hs, t, amount).debt = t.debt + amount - Total(t.active, Took(hs, t, amount))
          /\ \A i \in DOMAIN hs : Take(hs, t, amount).left[i] = t.left[i] - Took(hs, t, amount)[i]
      BY <1>0, TakeDebt
    <2> QED
      BY <1>1, <1>2, <2>1
  <1>5. \A i \in DOMAIN gs : h[i] = f[i]
    BY <1>2, LikeTook
  <1>6. Total(s.active, f) = Total(t.active, h)
    <2>1. s.active \in SUBSET DOMAIN gs /\ IsFiniteSet(s.active)
      BY <1>0, StandingParts, RowNumbers
    <2>2. f \in [DOMAIN gs -> Int]
      BY <1>0, <1>2, TookTypes
    <2>3. \A i \in s.active : f[i] \in Int /\ f[i] = h[i]
      BY <1>5, <2>1, <2>2
    <2>4. Total(s.active, f) = Total(s.active, h)
      BY <2>1, <2>3, TotalSame
    <2> QED
      BY <1>0, <2>4
  <1>7. \A i \in DOMAIN gs : v.left[i] = u.left[i]
    BY <1>0, <1>3, <1>4, <1>5, LongerRows
  <1> QED
    BY <1>0, <1>1, <1>3, <1>4, <1>6, <1>7 DEF Like

LEMMA LikeArrive ==
    ASSUME NEW gs, NEW hs, Longer(gs, hs), NEW s, NEW t, Like(gs, hs, s, t), NEW i \in DOMAIN gs
    PROVE  Like(gs, hs, Arrive(gs, s, i), Arrive(hs, t, i))
  <1>0. Rows(gs) /\ Rows(hs) /\ s \in Standing(gs) /\ t \in Standing(hs) /\ t.active = s.active /\ t.debt = s.debt /\ t.lapsed = s.lapsed
        /\ hs[i] = gs[i] /\ i \in DOMAIN hs
    BY LongerRows DEF Like, Longer
  <1>1. \A k \in DOMAIN gs : t.left[k] = s.left[k]
    BY DEF Like
  <1>2. CASE gs[i].credits < 0
    <2>1. Freed(s) \in Standing(gs) /\ Arrive(gs, s, i) = Take(gs, Freed(s), s.debt - gs[i].credits) /\ s.debt - gs[i].credits \in Int
      BY <1>0, <1>2, ArriveParts
    <2>2. Freed(t) \in Standing(hs) /\ Arrive(hs, t, i) = Take(hs, Freed(t), t.debt - hs[i].credits)
      BY <1>0, <1>2, ArriveParts
    <2>3. Like(gs, hs, Freed(s), Freed(t))
      BY <1>0, <1>1, <2>1, <2>2 DEF Like, Freed
    <2> QED
      BY <1>0, <2>1, <2>2, <2>3, LikeTake
  <1>3. CASE ~(gs[i].credits < 0)
    <2>1. Arrive(gs, s, i) \in Standing(gs) /\ Arrive(gs, s, i) = Paid(gs, s, i)
      BY <1>0, <1>3, ArriveParts
    <2>2. Arrive(hs, t, i) \in Standing(hs) /\ Arrive(hs, t, i) = Paid(hs, t, i)
      BY <1>0, <1>3, ArriveParts
    <2>3. Pays(hs, t, i) = Pays(gs, s, i)
      BY <1>0 DEF Pays
    <2>4. s.left \in [DOMAIN gs -> Int] /\ t.left \in [DOMAIN hs -> Int] /\ DOMAIN gs \subseteq DOMAIN hs
      BY <1>0, StandingParts, LongerRows
    <2>5. \A k \in DOMAIN gs : Paid(hs, t, i).left[k] = Paid(gs, s, i).left[k]
      BY <1>0, <1>1, <2>3, <2>4 DEF Paid
    <2>6. /\ Paid(hs, t, i).active = Paid(gs, s, i).active /\ Paid(hs, t, i).debt = Paid(gs, s, i).debt
          /\ Paid(hs, t, i).lapsed = Paid(gs, s, i).lapsed
      BY <1>0, <2>3 DEF Paid
    <2> QED
      BY <2>1, <2>2, <2>5, <2>6 DEF Like
  <1> QED
    BY <1>2, <1>3

LEMMA LikeLapse ==
    ASSUME NEW gs, NEW hs, Longer(gs, hs), NEW s, NEW t, Like(gs, hs, s, t), NEW point \in Int
    PROVE  Like(gs, hs, Lapse(gs, s, point), Lapse(hs, t, point))
  <1>0. Rows(gs) /\ Rows(hs) /\ s \in Standing(gs) /\ t \in Standing(hs) /\ t.active = s.active /\ t.debt = s.debt /\ t.lapsed = s.lapsed
        /\ (\A i \in DOMAIN gs : t.left[i] = s.left[i]) /\ s.active \in SUBSET DOMAIN gs
    BY StandingParts DEF Like, Longer
  <1>1. PICK u, v : u = Lapse(gs, s, point) /\ v = Lapse(hs, t, point)
    OBVIOUS
  <1>2. PICK gone : gone = Gone(gs, s, point)
    OBVIOUS
  <1>3. gone = Gone(hs, t, point) /\ gone \in SUBSET DOMAIN gs
    BY <1>0, <1>2, LongerRows DEF Gone
  <1>4. /\ u.debt = s.debt /\ u.lapsed = s.lapsed + Total(gone, s.left) /\ u.active = s.active \ gone
        /\ \A i \in DOMAIN gs : u.left[i] = IF i \in gone THEN 0 ELSE s.left[i]
    BY <1>0, <1>1, <1>2, LapseParts
  <1>5. /\ v.debt = t.debt /\ v.lapsed = t.lapsed + Total(gone, t.left) /\ v.active = t.active \ gone
        /\ \A i \in DOMAIN hs : v.left[i] = IF i \in gone THEN 0 ELSE t.left[i]
    BY <1>0, <1>1, <1>3, LapseParts
  <1>6. Total(gone, t.left) = Total(gone, s.left)
    BY <1>3, LikeTotals
  <1>7. u \in Standing(gs) /\ v \in Standing(hs)
    BY <1>0, <1>1, LapseKeeps
  <1>8. \A i \in DOMAIN gs : v.left[i] = u.left[i]
    BY <1>0, <1>4, <1>5, LongerRows
  <1> QED
    BY <1>0, <1>1, <1>4, <1>5, <1>6, <1>7, <1>8 DEF Like

LEMMA LikeCome ==
    ASSUME NEW gs, NEW hs, Longer(gs, hs), NEW s, NEW t, Like(gs, hs, s, t), NEW last \in Int, NEW point \in Int
    PROVE  \E v : /\ Like(gs, hs, Come(gs, s, last, point), v)
                  /\ Come(hs, t, last, point) =
                        IF Len(gs) + 1 \in Came(hs, last, point) THEN Arrive(hs, v, Len(gs) + 1) ELSE v
  <1>0. Rows(gs) /\ Rows(hs) /\ Len(hs) = Len(gs) + 1 /\ \A i \in DOMAIN gs : hs[i] = gs[i]
    BY DEF Longer
  <1>n. Len(gs) \in Nat /\ DOMAIN gs = 1..Len(gs) /\ DOMAIN hs = 1..(Len(gs) + 1)
    BY LongerRows
  <1>1. PICK g : /\ Come(gs, s, last, point) = g[Len(gs)] /\ g[0] = s
                 /\ \A n \in 1..Len(gs) : g[n] = IF n \in Came(gs, last, point) THEN Arrive(gs, g[n - 1], n) ELSE g[n - 1]
    BY <1>0, ComeIs DEF CameBy
  <1>2. PICK h : /\ Come(hs, t, last, point) = h[Len(gs) + 1] /\ h[0] = t
                 /\ \A n \in 1..(Len(gs) + 1) : h[n] = IF n \in Came(hs, last, point) THEN Arrive(hs, h[n - 1], n) ELSE h[n - 1]
    BY <1>0, ComeIs DEF CameBy
  <1>3. \A n \in 1..Len(gs) : n \in Came(hs, last, point) <=> n \in Came(gs, last, point)
    BY <1>0, <1>n DEF Came
  <1> DEFINE H == {n \in Nat : n <= Len(gs) => Like(gs, hs, g[n], h[n])}
  <1>4. 0 \in H
    BY <1>1, <1>2
  <1>5. ASSUME NEW n \in Nat, n \in H PROVE n + 1 \in H
    <2> SUFFICES ASSUME n + 1 <= Len(gs) PROVE Like(gs, hs, g[n + 1], h[n + 1])
      OBVIOUS
    <2>1. Like(gs, hs, g[n], h[n]) /\ n + 1 \in 1..Len(gs) /\ n + 1 \in 1..(Len(gs) + 1) /\ (n + 1) - 1 = n /\ n + 1 \in DOMAIN gs
      BY <1>5, <1>n
    <2>2. /\ g[n + 1] = IF n + 1 \in Came(gs, last, point) THEN Arrive(gs, g[n], n + 1) ELSE g[n]
          /\ h[n + 1] = IF n + 1 \in Came(gs, last, point) THEN Arrive(hs, h[n], n + 1) ELSE h[n]
      BY <1>1, <1>2, <1>3, <2>1
    <2>3. Like(gs, hs, Arrive(gs, g[n], n + 1), Arrive(hs, h[n], n + 1))
      BY <2>1, LikeArrive
    <2> QED
      BY <2>1, <2>2, <2>3
  <1>6. Like(gs, hs, g[Len(gs)], h[Len(gs)])
    <2> HIDE DEF H
    <2>1. Nat \subseteq H
      BY <1>4, <1>5, Counting
    <2>2. Len(gs) \in H /\ Len(gs) <= Len(gs)
      BY <1>n, <2>1
    <2> QED
      BY <2>2 DEF H
  <1>7. h[Len(gs) + 1] = IF Len(gs) + 1 \in Came(hs, last, point) THEN Arrive(hs, h[Len(gs)], Len(gs) + 1) ELSE h[Len(gs)]
    <2>1. Len(gs) + 1 \in 1..(Len(gs) + 1) /\ (Len(gs) + 1) - 1 = Len(gs)
      BY <1>n
    <2> QED
      BY <1>2, <2>1
  <1> QED
    BY <1>1, <1>2, <1>6, <1>7

\* Until the row comes, the accounts stand alike.
LEMMA LikeRounds ==
    ASSUME NEW gs, NEW hs, Longer(gs, hs), NEW us, Ledger(us), NEW start \in Nat, NEW now \in Nat, start <= now, now < Never,
           hs[Len(gs) + 1].at = now
    PROVE  \A p \in start..now : p < now => Like(gs, hs, Rounds(gs, us, start..now)[p], Rounds(hs, us, start..now)[p])
  <1> DEFINE S == Rounds(gs, us, start..now)
             T == Rounds(hs, us, start..now)
             H == {n \in Nat : start + n < now => Like(gs, hs, S[start + n], T[start + n])}
  <1>1. Times(start..now, now) /\ Rows(gs) /\ Rows(hs)
    BY DEF Times, Longer
  <1>2. \A p \in start..now : S[p] = Stand(gs, us, start..now, S, p) /\ T[p] = Stand(hs, us, start..now, T, p)
    BY <1>1, RoundsAre
  <1> HIDE DEF S, T
  <1>3. ASSUME NEW p \in start..now, p < now, NEW s, NEW t, Like(gs, hs, s, t), NEW last \in Int
        PROVE  Like(gs, hs, Round(gs, us, s, last, start..now, p), Round(hs, us, t, last, start..now, p))
    <2>1. p \in Int /\ Len(gs) + 1 \notin Came(hs, last, p)
      BY <1>3 DEF Came
    <2>2. Like(gs, hs, Come(gs, s, last, p), Come(hs, t, last, p))
      BY <1>3, <2>1, LikeCome
    <2>3. Like(gs, hs, Lapse(gs, Come(gs, s, last, p), p), Lapse(hs, Come(hs, t, last, p), p))
      BY <2>1, <2>2, LikeLapse
    <2>4. SpentIn(us, p, Until(start..now, p)) \in Int
      <3>1. Until(start..now, p) \in Int
        BY <1>1, PointAfter
      <3> QED
        BY <2>1, <3>1, SpentTypes
    <2> QED
      BY <2>3, <2>4, LikeTake DEF Round
  <1>4. 0 \in H
    <2> SUFFICES ASSUME start + 0 < now PROVE Like(gs, hs, S[start + 0], T[start + 0])
      OBVIOUS
    <2>1. start \in start..now /\ start + 0 = start /\ start < now
      OBVIOUS
    <2>2. Earlier(start..now, start) = {}
      BY <2>1, MonthAfter
    <2>3. Like(gs, hs, Nothing(gs), Nothing(hs))
      BY <1>1, NothingStands, LongerRows DEF Like, Nothing
    <2>4. S[start] = Round(gs, us, Nothing(gs), -1, start..now, start) /\ T[start] = Round(hs, us, Nothing(hs), -1, start..now, start)
      BY <1>2, <2>1, <2>2 DEF Stand
    <2>5. Like(gs, hs, S[start], T[start])
      <3>1. -1 \in Int
        OBVIOUS
      <3> QED
        BY <1>3, <2>1, <2>3, <2>4, <3>1
    <2> QED
      BY <2>1, <2>5
  <1>5. ASSUME NEW n \in Nat, n \in H PROVE n + 1 \in H
    <2> SUFFICES ASSUME start + (n + 1) < now PROVE Like(gs, hs, S[start + (n + 1)], T[start + (n + 1)])
      OBVIOUS
    <2>1. PICK q : q = start + n
      OBVIOUS
    <2>2. q \in start..now /\ q < now /\ q + 1 \in start..now /\ q + 1 < now /\ q \in Int /\ start + (n + 1) = q + 1
      BY <2>1
    <2>3. Like(gs, hs, S[q], T[q])
      BY <1>5, <2>1, <2>2
    <2>4. Earlier(start..now, q + 1) # {} /\ Max(Earlier(start..now, q + 1)) = q
      BY <2>2, MonthAfter
    <2>5. S[q + 1] = Round(gs, us, S[q], q, start..now, q + 1) /\ T[q + 1] = Round(hs, us, T[q], q, start..now, q + 1)
      BY <1>2, <2>2, <2>4 DEF Stand
    <2> QED
      BY <1>3, <2>2, <2>3, <2>5
  <1>6. ASSUME NEW p \in start..now, p < now PROVE Like(gs, hs, S[p], T[p])
    <2>1. p - start \in Nat /\ start + (p - start) = p
      OBVIOUS
    <2>2. p - start \in H
      <3> HIDE DEF H
      <3>1. Nat \subseteq H
        BY <1>4, <1>5, Counting
      <3> QED
        BY <2>1, <3>1
    <2> QED
      BY <1>6, <2>1, <2>2
  <1> QED
    BY <1>6 DEF S, T
------------------------------------------------------------------------------
(* A row more lets no more lapse, and is itself what is left less at most. *)

LEMMA TotalLess ==
    ASSUME NEW S, IsFiniteSet(S), NEW f, NEW g, \A x \in S : f[x] \in Int /\ g[x] \in Int /\ f[x] <= g[x]
    PROVE  Total(S, f) \in Int /\ Total(S, g) \in Int /\ Total(S, f) <= Total(S, g)
  <1> DEFINE d == [x \in S |-> g[x] - f[x]]
  <1>1. \A x \in S : d[x] \in Int /\ d[x] >= 0 /\ g[x] = f[x] + d[x] /\ f[x] \in Int /\ g[x] \in Int
    OBVIOUS
  <1> HIDE DEF d
  <1>2. Total(S, g) = Total(S, f) + Total(S, d)
    BY <1>1, TotalOfSum
  <1>3. Total(S, f) \in Int /\ Total(S, g) \in Int
    BY <1>1, TotalTypes
  <1>4. Total(S, d) \in Int /\ Total(S, d) >= 0
    BY <1>1, TotalAtLeast
  <1> QED
    BY <1>2, <1>3, <1>4

LEMMA LapseAdds ==
    ASSUME NEW gs, Rows(gs), NEW st \in Standing(gs), NEW point \in Int
    PROVE  Lapse(gs, st, point).lapsed = st.lapsed + Total(Gone(gs, st, point), st.left)
  BY LapseParts

LEMMA TakeLeaves ==
    ASSUME NEW gs, Rows(gs), NEW st \in Standing(gs), NEW amount \in Int
    PROVE  /\ Take(gs, st, amount).active = st.active
           /\ \A i \in DOMAIN gs : Take(gs, st, amount).left[i] = st.left[i] - Took(gs, st, amount)[i]
  BY TakeDebt

\* A row that comes takes from what is left of the others, and puts nothing there.
LEMMA ArriveLess ==
    ASSUME NEW gs, Rows(gs), NEW st \in Standing(gs), NEW n \in DOMAIN gs, n \notin st.active,
           st.debt >= 0, \A i \in st.active : st.left[i] >= 0
    PROVE  LET t == Arrive(gs, st, n)
           IN  /\ t \in Standing(gs) /\ t.lapsed = st.lapsed /\ st.active \subseteq t.active /\ t.active \subseteq st.active \cup {n}
               /\ \A i \in st.active : t.left[i] <= st.left[i]
  <1> DEFINE t == Arrive(gs, st, n)
  <1>0. /\ st.left \in [DOMAIN gs -> Int] /\ st.active \in SUBSET DOMAIN gs /\ st.debt \in Int /\ gs[n].credits \in Int
    BY StandingParts DEF Rows
  <1>1. t \in Standing(gs) /\ t.lapsed = st.lapsed
    BY ArriveParts
  <1>2. CASE gs[n].credits < 0
    <2>1. PICK u, amount : u = Freed(st) /\ amount = st.debt - gs[n].credits
      OBVIOUS
    <2>2. u \in Standing(gs) /\ t = Take(gs, u, amount) /\ amount \in Nat
      BY <1>0, <1>2, <2>1, ArriveParts
    <2>3. u.left = st.left /\ u.active = st.active
      BY <2>1 DEF Freed
    <2> HIDE DEF t
    <2>4. t.active = u.active /\ \A i \in DOMAIN gs : t.left[i] = u.left[i] - Took(gs, u, amount)[i]
      <3>1. amount \in Int
        BY <2>2
      <3>2. /\ Take(gs, u, amount).active = u.active
            /\ \A i \in DOMAIN gs : Take(gs, u, amount).left[i] = u.left[i] - Took(gs, u, amount)[i]
        BY <2>2, <3>1, TakeLeaves
      <3> QED
        BY <2>2, <3>2
    <2>5. ASSUME NEW i \in st.active PROVE t.left[i] <= st.left[i]
      <3>1. PICK rest : rest = amount - Total(Before(gs, u, i), u.left)
        OBVIOUS
      <3>2. rest \in Int
        <4>1. Before(gs, u, i) \in SUBSET DOMAIN gs
          BY <1>0, <2>3 DEF Before
        <4>2. Total(Before(gs, u, i), u.left) \in Int
          BY <2>2, <4>1, StandingParts
        <4> QED
          BY <2>2, <3>1, <4>2
      <3>3. Took(gs, u, amount)[i] = IF rest <= 0 THEN 0 ELSE Least(rest, u.left[i])
        BY <2>2, <2>3, <2>5, <3>1, TookOf
      <3>4. st.left[i] \in Int /\ st.left[i] >= 0 /\ i \in DOMAIN gs
        BY <1>0, <2>5
      <3>5. Took(gs, u, amount)[i] \in Int /\ Took(gs, u, amount)[i] >= 0
        BY <2>3, <3>2, <3>3, <3>4 DEF Least
      <3> QED
        BY <2>3, <2>4, <3>4, <3>5
    <2> QED
      BY <1>1, <2>3, <2>4, <2>5 DEF t
  <1>3. CASE ~(gs[n].credits < 0)
    <2>1. t = Paid(gs, st, n)
      BY <1>3, ArriveParts
    <2>2. t.active = st.active \cup {n} /\ t.left = [st.left EXCEPT ![n] = gs[n].credits - Pays(gs, st, n)]
      BY <2>1 DEF Paid
    <2> HIDE DEF t
    <2>3. \A i \in st.active : t.left[i] = st.left[i] /\ st.left[i] \in Int
      BY <1>0, <2>2
    <2> QED
      BY <1>1, <2>2, <2>3 DEF t
  <1> QED
    BY <1>2, <1>3

\* What stands alike before a row comes lets no more lapse once it came.
LEMMA ReadyLess ==
    ASSUME NEW gs, NEW hs, Longer(gs, hs), NEW s, NEW t, Like(gs, hs, s, t), Covered(s),
           NEW last \in Int, NEW p \in Int, last <= p, \A i \in s.active : gs[i].at <= last,
           ExpiresAt(hs[Len(gs) + 1]) > p
    PROVE  Ready(hs, t, last, p).lapsed <= Ready(gs, s, last, p).lapsed
  <1> DEFINE n == Len(gs) + 1
  <1>0. Rows(gs) /\ Rows(hs) /\ s \in Standing(gs)
    BY DEF Longer, Like
  <1>1. PICK u : u = Come(gs, s, last, p)
    OBVIOUS
  <1>2. u \in Standing(gs) /\ Covered(u)
    BY <1>0, <1>1, ComeKeeps
  <1>3. PICK v : /\ Like(gs, hs, u, v)
                 /\ Come(hs, t, last, p) = IF n \in Came(hs, last, p) THEN Arrive(hs, v, n) ELSE v
    BY <1>1, LikeCome
  <1>4. PICK w : w = Come(hs, t, last, p)
    OBVIOUS
  <1>5. /\ v \in Standing(hs) /\ v.active = u.active /\ v.debt = u.debt /\ v.lapsed = u.lapsed
        /\ \A i \in DOMAIN gs : v.left[i] = u.left[i]
    BY <1>3 DEF Like
  <1>6. /\ u.active \in SUBSET DOMAIN gs /\ u.left \in [DOMAIN gs -> Int] /\ u.lapsed \in Int
        /\ u.debt >= 0 /\ \A i \in DOMAIN gs : u.left[i] >= 0
    BY <1>0, <1>2, StandingParts DEF Covered
  <1>7. n \in DOMAIN hs /\ n \notin v.active
    BY <1>5, <1>6, LongerRows
  <1>8. /\ w \in Standing(hs) /\ w.lapsed = u.lapsed /\ u.active \subseteq w.active /\ w.active \subseteq u.active \cup {n}
        /\ \A i \in u.active : w.left[i] <= u.left[i]
    <2>1. \A i \in v.active : v.left[i] >= 0 /\ v.left[i] = u.left[i] /\ u.left[i] \in Int
      BY <1>5, <1>6
    <2>2. v.debt >= 0
      BY <1>5, <1>6
    <2>3. CASE n \in Came(hs, last, p)
      <3>1. w = Arrive(hs, v, n)
        BY <1>3, <1>4, <2>3
      <3> HIDE DEF n
      <3>2. /\ Arrive(hs, v, n) \in Standing(hs) /\ Arrive(hs, v, n).lapsed = v.lapsed
            /\ v.active \subseteq Arrive(hs, v, n).active /\ Arrive(hs, v, n).active \subseteq v.active \cup {n}
            /\ \A i \in v.active : Arrive(hs, v, n).left[i] <= v.left[i]
        BY <1>0, <1>5, <1>7, <2>1, <2>2, ArriveLess
      <3> QED
        BY <1>5, <2>1, <3>1, <3>2
    <2>4. CASE n \notin Came(hs, last, p)
      <3>1. w = v
        BY <1>3, <1>4, <2>4
      <3> QED
        BY <1>5, <2>1, <3>1
    <2> QED
      BY <2>3, <2>4
  <1>9. PICK gone : gone = Gone(gs, u, p)
    OBVIOUS
  <1>10. gone = Gone(hs, w, p) /\ gone \subseteq u.active
    <2>1. ~(ExpiresAt(hs[n]) <= p)
      <3>1. ExpiresAt(hs[n]) \in Nat
        BY <1>0, <1>7, LapseTimes
      <3> QED
        BY <3>1
    <2> HIDE DEF n
    <2>2. \A i \in u.active : ExpiresAt(hs[i]) = ExpiresAt(gs[i])
      BY <1>6, LongerRows
    <2> QED
      BY <1>8, <1>9, <2>1, <2>2 DEF Gone
  <1>11. Total(gone, w.left) \in Int /\ Total(gone, u.left) \in Int /\ Total(gone, w.left) <= Total(gone, u.left)
    <2>1. IsFiniteSet(gone) /\ w.left \in [DOMAIN hs -> Int]
      BY <1>0, <1>6, <1>8, <1>10, RowNumbers, StandingParts
    <2>2. \A i \in gone : w.left[i] \in Int /\ u.left[i] \in Int /\ w.left[i] <= u.left[i]
      BY <1>6, <1>8, <1>10, <2>1, LongerRows
    <2> QED
      BY <2>1, <2>2, TotalLess
  <1>12. Lapse(hs, w, p).lapsed = w.lapsed + Total(gone, w.left)
    BY <1>0, <1>8, <1>10, LapseParts
  <1>13. Lapse(gs, u, p).lapsed = u.lapsed + Total(gone, u.left)
    <2>1. Lapse(gs, u, p).lapsed = u.lapsed + Total(Gone(gs, u, p), u.left)
      BY <1>0, <1>2, LapseAdds
    <2> QED
      BY <1>9, <2>1
  <1> QED
    BY <1>1, <1>4, <1>6, <1>8, <1>11, <1>12, <1>13 DEF Ready

\* While no call was given back, a row of now that has not lapsed lets no more lapse.
LEMMA MonthsLapseLess ==
    ASSUME NEW gs, NEW hs, Longer(gs, hs), NEW us, Ledger(us), \A t \in DOMAIN us : us[t] >= 0,
           NEW start \in Nat, NEW now \in Nat, start <= now, now < Never,
           hs[Len(gs) + 1].at = now, ExpiresAt(hs[Len(gs) + 1]) > now
    PROVE  balance(hs, us, start, now).lapsed <= balance(gs, us, start, now).lapsed
  <1> DEFINE months == start..now
  <1>0. Rows(gs) /\ Rows(hs)
    BY DEF Longer
  <1>1. Spans(months, start, now) /\ now \in months
    BY <1>0, PointsSpan
  <1>2. Dawn(hs, us, months, now).lapsed <= Dawn(gs, us, months, now).lapsed
    <2>1. CASE Earlier(months, now) = {}
      <3>1. Like(gs, hs, Nothing(gs), Nothing(hs))
        BY <1>0, NothingStands, LongerRows DEF Like, Nothing
      <3>2. Covered(Nothing(gs)) /\ (\A i \in Nothing(gs).active : gs[i].at <= -1) /\ -1 \in Int /\ -1 <= now
        BY <1>0, NothingStands
      <3>3. Ready(hs, Nothing(hs), -1, now).lapsed <= Ready(gs, Nothing(gs), -1, now).lapsed
        BY <3>1, <3>2, ReadyLess
      <3> QED
        BY <2>1, <3>3 DEF Dawn
    <2>2. CASE Earlier(months, now) # {}
      <3>1. PICK last : last = Max(Earlier(months, now))
        OBVIOUS
      <3>2. last \in months /\ last < now /\ last \in Int
        BY <1>1, <2>2, <3>1, PointBefore DEF Spans
      <3>3. PICK s, t : s = Rounds(gs, us, months)[last] /\ t = Rounds(hs, us, months)[last]
        OBVIOUS
      <3>4. Like(gs, hs, s, t)
        BY <3>2, <3>3, LikeRounds
      <3>5. Covered(s) /\ (\A i \in s.active : gs[i].at <= last) /\ last <= now /\ now \in Int
        BY <1>0, <1>1, <3>2, <3>3, RoundsStand DEF Stood
      <3>6. Ready(hs, t, last, now).lapsed <= Ready(gs, s, last, now).lapsed
        <4> HIDE DEF months
        <4>1. last \in Int
          BY <3>2
        <4> QED
          BY <3>4, <3>5, <4>1, ReadyLess
      <3> QED
        BY <2>2, <3>1, <3>3, <3>6 DEF Dawn
    <2> QED
      BY <2>1, <2>2
  <1>3. /\ Rounds(gs, us, months)[now].lapsed = Dawn(gs, us, months, now).lapsed
        /\ Rounds(hs, us, months)[now].lapsed = Dawn(hs, us, months, now).lapsed
    BY <1>0, <1>1, DawnIs
  <1>4. /\ balance(gs, us, start, now).lapsed = Rounds(gs, us, months)[now].lapsed
        /\ balance(hs, us, start, now).lapsed = Rounds(hs, us, months)[now].lapsed
    <2>1. balance(gs, us, start, now) = MonthByMonth(gs, us, start, now)
      BY <1>0, PointsAreEnough
    <2>2. balance(hs, us, start, now) = MonthByMonth(hs, us, start, now)
      BY <1>0, PointsAreEnough
    <2> QED
      BY <2>1, <2>2 DEF MonthByMonth, Result
  <1> QED
    BY <1>2, <1>3, <1>4

\* What is left of what was granted: that less what lapsed and what was used.
LEMMA LeftIs ==
    ASSUME NEW gs, Rows(gs), NEW us, Ledger(us), NEW start \in Nat, NEW now \in Nat, start <= now, now < Never,
           \A i \in DOMAIN gs : gs[i].at <= now
    PROVE  LET b == balance(gs, us, start, now)
           IN  /\ b.left \in Int /\ b.lapsed \in Int /\ SpentIn(us, start, Never) \in Int
               /\ Total(DOMAIN gs, Amounts(gs)) \in Int
               /\ b.left = Total(DOMAIN gs, Amounts(gs)) - b.lapsed - SpentIn(us, start, Never)
  <1>1. PICK points, st, b : /\ points = Points(gs, start, now) /\ st = Rounds(gs, us, points)[now]
                             /\ b = balance(gs, us, start, now)
    OBVIOUS
  <1>2. Spans(points, start, now)
    BY <1>1, PointsSpan
  <1>3. st \in Standing(gs) /\ b = Result(st, us, start)
    BY <1>1, <1>2, LeftAtDawn DEF balance
  <1>4. /\ b.left = Total(st.active, st.left) - st.debt /\ b.lapsed = st.lapsed /\ b.used = SpentIn(us, start, Never)
    BY <1>3 DEF Result
  <1>5. Total(st.active, st.left) \in Int /\ st.debt \in Int /\ st.lapsed \in Int
    BY <1>3, LeftOf
  <1>6. SpentIn(us, start, Never) \in Int
    BY SpentTypes, TopupAssumption
  <1>7. b.left + b.lapsed + b.used = Total(DOMAIN gs, Amounts(gs))
    BY <1>1, <1>2, BalancesOut DEF balance
  <1>8. Total(DOMAIN gs, Amounts(gs)) \in Int
    BY AmountTypes
  <1> QED
    BY <1>1, <1>4, <1>5, <1>6, <1>7, <1>8

\* What was taken back, and how far what is left is above it.
Low(gs) == Total({i \in DOMAIN gs : gs[i].credits < 0}, Amounts(gs))

LEMMA LowIs == ASSUME NEW gs, Rows(gs) PROVE Low(gs) \in Int /\ Low(gs) <= 0
  <1> DEFINE back == {i \in DOMAIN gs : gs[i].credits < 0}
  <1>1. IsFiniteSet(back) /\ \A i \in back : Amounts(gs)[i] \in Int /\ Amounts(gs)[i] <= 0
    <2>1. back \in SUBSET DOMAIN gs
      OBVIOUS
    <2>2. IsFiniteSet(back)
      BY <2>1, RowNumbers
    <2> QED
      BY <2>2 DEF Amounts, Rows
  <1> DEFINE none == [i \in back |-> 0]
  <1>2. \A i \in back : Amounts(gs)[i] \in Int /\ none[i] \in Int /\ Amounts(gs)[i] <= none[i] /\ none[i] = 0
    BY <1>1
  <1> HIDE DEF back, none
  <1>3. Total(back, Amounts(gs)) \in Int /\ Total(back, Amounts(gs)) <= Total(back, none)
    BY <1>1, <1>2, TotalLess
  <1>4. Total(back, none) = 0
    BY <1>1, <1>2, TotalOfZero
  <1> QED
    BY <1>3, <1>4 DEF Low, back

LEMMA LongerTotals ==
    ASSUME NEW gs, NEW hs, Longer(gs, hs)
    PROVE  LET c == hs[Len(gs) + 1].credits
           IN  /\ c \in Int
               /\ Total(DOMAIN hs, Amounts(hs)) = Total(DOMAIN gs, Amounts(gs)) + c
               /\ Low(hs) = Low(gs) + (IF c < 0 THEN c ELSE 0)
  <1>0. Rows(gs) /\ Rows(hs) /\ \A i \in DOMAIN gs : hs[i] = gs[i]
    BY DEF Longer
  <1>1. PICK n : n = Len(gs) + 1
    OBVIOUS
  <1>2. n \notin DOMAIN gs /\ DOMAIN hs = DOMAIN gs \cup {n} /\ n \in DOMAIN hs
    <2>1. Len(gs) \in Nat /\ DOMAIN gs = 1..Len(gs) /\ DOMAIN hs = 1..(Len(gs) + 1)
      BY LongerRows
    <2>2. 1..(Len(gs) + 1) = (1..Len(gs)) \cup {n} /\ n \notin 1..Len(gs)
      BY <1>1, <2>1
    <2> QED
      BY <2>1, <2>2
  <1>3. /\ IsFiniteSet(DOMAIN hs) /\ (\A i \in DOMAIN hs : Amounts(hs)[i] \in Int)
        /\ (\A S \in SUBSET DOMAIN gs : IsFiniteSet(S)) /\ (\A i \in DOMAIN gs : Amounts(gs)[i] \in Int)
    BY <1>0, AmountTypes, RowNumbers
  <1>4. Amounts(hs)[n] = hs[n].credits /\ hs[n].credits \in Int /\ \A i \in DOMAIN gs : Amounts(gs)[i] = Amounts(hs)[i]
    BY <1>0, <1>2 DEF Amounts, Rows
  <1>5. \A S \in SUBSET DOMAIN gs : Total(S, Amounts(gs)) = Total(S, Amounts(hs)) /\ Total(S, Amounts(gs)) \in Int
    <2> SUFFICES ASSUME NEW S \in SUBSET DOMAIN gs PROVE Total(S, Amounts(gs)) = Total(S, Amounts(hs)) /\ Total(S, Amounts(gs)) \in Int
      OBVIOUS
    <2>1. IsFiniteSet(S) /\ \A i \in S : Amounts(gs)[i] \in Int /\ Amounts(gs)[i] = Amounts(hs)[i]
      BY <1>3, <1>4
    <2> QED
      BY <2>1, TotalSame, TotalTypes
  <1>6. \A S \in SUBSET DOMAIN gs : Total(S \cup {n}, Amounts(hs)) = Total(S, Amounts(gs)) + hs[n].credits
    <2> SUFFICES ASSUME NEW S \in SUBSET DOMAIN gs PROVE Total(S \cup {n}, Amounts(hs)) = Total(S, Amounts(gs)) + hs[n].credits
      OBVIOUS
    <2>1. S \in SUBSET DOMAIN hs /\ n \in DOMAIN hs \ S
      BY <1>2
    <2>2. Total(S \cup {n}, Amounts(hs)) = Amounts(hs)[n] + Total(S, Amounts(hs))
      BY <1>3, <2>1, TotalMore
    <2>3. Total(S, Amounts(gs)) = Total(S, Amounts(hs)) /\ Total(S, Amounts(gs)) \in Int
      BY <1>5
    <2> QED
      BY <1>4, <2>2, <2>3
  <1>7. Total(DOMAIN hs, Amounts(hs)) = Total(DOMAIN gs, Amounts(gs)) + hs[n].credits
    BY <1>2, <1>6
  <1>8. PICK back : back = {i \in DOMAIN gs : gs[i].credits < 0}
    OBVIOUS
  <1>9. back \in SUBSET DOMAIN gs /\ Low(gs) = Total(back, Amounts(gs))
    BY <1>8 DEF Low
  <1>10. Low(hs) = Low(gs) + (IF hs[n].credits < 0 THEN hs[n].credits ELSE 0)
    <2>1. CASE hs[n].credits < 0
      <3>1. {i \in DOMAIN hs : hs[i].credits < 0} = back \cup {n}
        BY <1>0, <1>2, <1>8, <2>1
      <3> QED
        BY <1>6, <1>9, <2>1, <3>1 DEF Low
    <2>2. CASE ~(hs[n].credits < 0)
      <3>1. {i \in DOMAIN hs : hs[i].credits < 0} = back
        BY <1>0, <1>2, <1>8, <2>2
      <3>2. Low(hs) = Low(gs) /\ Low(gs) \in Int
        BY <1>5, <1>9, <3>1 DEF Low
      <3> QED
        BY <2>2, <3>2
    <2> QED
      BY <2>1, <2>2
  <1> QED
    BY <1>1, <1>4, <1>7, <1>10

\* So one row more lowers what is left by no more than it takes back.
LEMMA OneRowMore ==
    ASSUME NEW gs, NEW hs, Longer(gs, hs), NEW us, Ledger(us), NEW start \in Nat, NEW now \in Nat, start <= now, now < Never,
           \A t \in DOMAIN us : t < now => us[t] >= 0, \A i \in DOMAIN gs : gs[i].at <= now,
           hs[Len(gs) + 1].at = now, ExpiresAt(hs[Len(gs) + 1]) > now
    PROVE  balance(hs, us, start, now).left - Low(hs) >= balance(gs, us, start, now).left - Low(gs)
  <1>0. Rows(gs) /\ Rows(hs) /\ \A i \in DOMAIN gs : hs[i] = gs[i]
    BY DEF Longer
  <1>1. PICK vs : vs = [t \in DOMAIN us |-> IF t < now THEN us[t] ELSE 0]
    OBVIOUS
  <1>2. Ledger(vs) /\ DOMAIN vs = DOMAIN us /\ (\A t \in DOMAIN vs : vs[t] >= 0) /\ \A t \in DOMAIN us : t < now => us[t] = vs[t]
    BY <1>1 DEF Ledger
  <1>3. balance(hs, vs, start, now).lapsed <= balance(gs, vs, start, now).lapsed
    BY <1>2, MonthsLapseLess
  <1>4. /\ balance(gs, us, start, now).lapsed = balance(gs, vs, start, now).lapsed
        /\ balance(hs, us, start, now).lapsed = balance(hs, vs, start, now).lapsed
    BY <1>0, <1>2, LapsedBefore
  <1>5. \A i \in DOMAIN hs : hs[i].at <= now
    BY <1>0, LongerRows
  <1>6. PICK a, b, spent, c : /\ a = balance(gs, us, start, now) /\ b = balance(hs, us, start, now)
                              /\ spent = SpentIn(us, start, Never) /\ c = hs[Len(gs) + 1].credits
    OBVIOUS
  <1>7. PICK all, more : all = Total(DOMAIN gs, Amounts(gs)) /\ more = Total(DOMAIN hs, Amounts(hs))
    OBVIOUS
  <1>8. a.left \in Int /\ a.lapsed \in Int /\ spent \in Int /\ all \in Int /\ a.left = all - a.lapsed - spent
    BY <1>0, <1>6, <1>7, LeftIs
  <1>9. b.left \in Int /\ b.lapsed \in Int /\ b.left = more - b.lapsed - spent
    BY <1>0, <1>5, <1>6, <1>7, LeftIs
  <1>10. c \in Int /\ more = all + c /\ Low(hs) = Low(gs) + (IF c < 0 THEN c ELSE 0)
    BY <1>6, <1>7, LongerTotals
  <1>11. Low(gs) \in Int
    BY <1>0, LowIs
  <1>12. b.lapsed <= a.lapsed
    BY <1>3, <1>4, <1>6
  <1>13. b.left - Low(hs) >= a.left - Low(gs)
    <2>1. PICK x, y, k, m, low, less : /\ x = a.left /\ y = b.left /\ k = a.lapsed /\ m = b.lapsed
                                       /\ low = Low(gs) /\ less = Low(hs)
      OBVIOUS
    <2>2. x \in Int /\ k \in Int /\ spent \in Int /\ all \in Int /\ x = all - k - spent /\ low \in Int
      BY <1>8, <1>11, <2>1
    <2>3. y \in Int /\ m \in Int /\ c \in Int /\ y = (all + c) - m - spent /\ m <= k
      BY <1>9, <1>10, <1>12, <2>1
    <2>4. less = low + (IF c < 0 THEN c ELSE 0)
      BY <1>10, <2>1
    <2>5. y - less >= x - low
      BY <2>2, <2>3, <2>4
    <2> QED
      BY <2>1, <2>5
  <1> QED
    BY <1>6, <1>13
------------------------------------------------------------------------------
(* Work goes past the credits by no more than one for each job, and what was taken back. *)

\* No past month gave back more than it used.
Sober == \A t \in DOMAIN usage : t < month => usage[t] >= 0
Slack(gs, start) == balance(gs, usage, start, month).left - Low(gs)

LEMMA DatedRows ==
    ASSUME NEW rows, Dated(rows, month)
    PROVE  Rows(rows) /\ \A i \in DOMAIN rows : rows[i].at <= month
  <1>1. rows \in Seq(GrantRows) /\ \A i \in DOMAIN rows : rows[i].at <= month
    BY DEF Dated
  <1>2. \A i \in DOMAIN rows : rows[i] \in GrantRows
    BY <1>1
  <1>3. \A i \in DOMAIN rows : rows[i].credits \in Int /\ rows[i].at \in Nat
    BY <1>2 DEF GrantRows
  <1> QED
    BY <1>1, <1>3 DEF Rows

LEMMA UsageIsLedger ==
    ASSUME TypeInv
    PROVE  Ledger(usage) /\ month \in Nat /\ month < Never /\ Never \in Nat /\ \A t \in DOMAIN usage : t \in Nat /\ t < Never
  <1>1. usage \in [0..LastMonth -> Int] /\ LastMonth \in Nat /\ month \in 0..LastMonth /\ LastMonth < Never /\ Never \in Nat
    BY BillingAssumption, TopupAssumption DEF TypeInv, LedgerOK
  <1>2. IsFiniteSet(0..LastMonth)
    BY <1>1, FS_Interval
  <1> QED
    BY <1>1, <1>2 DEF Ledger

\* A row that is written has not lapsed.
LEMMA OneMoreIsLonger ==
    ASSUME TypeInv, NEW rows, Dated(rows, month), NEW more, OneMore(rows, more), more # rows
    PROVE  Longer(rows, more) /\ more[Len(rows) + 1].at = month /\ ExpiresAt(more[Len(rows) + 1]) > month
  <1>1. PICK g \in GrantRows : g.at = month /\ more = Append(rows, g)
    BY DEF OneMore
  <1>2. rows \in Seq(GrantRows) /\ Dated(more, month)
    BY OneMoreDated DEF Dated
  <1>3. Rows(rows) /\ Rows(more)
    BY <1>2, DatedRows
  <1>4. Len(more) = Len(rows) + 1 /\ more[Len(rows) + 1] = g /\ \A i \in DOMAIN rows : more[i] = rows[i]
    BY <1>1, <1>2, RowMore
  <1>5. ExpiresAt(g) > month
    <2>1. month \in Nat /\ month < Never /\ TOPUP_MONTHS \in Nat \ {0} /\ Never \in Nat
      BY UsageIsLedger, TopupAssumption
    <2> QED
      BY <1>1, <2>1 DEF ExpiresAt
  <1> QED
    BY <1>1, <1>3, <1>4, <1>5 DEF Longer

LEMMA SlackIs ==
    ASSUME TypeInv, NEW start \in Nat, start <= month, NEW rows, Dated(rows, month)
    PROVE  /\ balance(rows, usage, start, month).left \in Int /\ Low(rows) \in Int /\ Low(rows) <= 0
           /\ Slack(rows, start) \in Int /\ Slack(rows, start) >= balance(rows, usage, start, month).left
  <1>1. Rows(rows) /\ \A i \in DOMAIN rows : rows[i].at <= month
    BY DatedRows
  <1>2. Ledger(usage) /\ month \in Nat /\ month < Never
    BY UsageIsLedger
  <1>3. balance(rows, usage, start, month).left \in Int
    BY <1>1, <1>2, LeftIs
  <1>4. Low(rows) \in Int /\ Low(rows) <= 0
    BY <1>1, LowIs
  <1> QED
    BY <1>3, <1>4 DEF Slack

LEMMA OneMoreSlack ==
    ASSUME TypeInv, Sober, NEW start \in Nat, start <= month, NEW rows, Dated(rows, month), NEW more, OneMore(rows, more)
    PROVE  Slack(more, start) >= Slack(rows, start)
  <1>1. CASE more = rows
    BY <1>1, SlackIs
  <1>2. CASE more # rows
    <2>1. Longer(rows, more) /\ more[Len(rows) + 1].at = month /\ ExpiresAt(more[Len(rows) + 1]) > month
      BY <1>2, OneMoreIsLonger
    <2>2. Ledger(usage) /\ month \in Nat /\ month < Never
      BY UsageIsLedger
    <2>3. \A i \in DOMAIN rows : rows[i].at <= month
      BY DatedRows
    <2>4. \A t \in DOMAIN usage : t < month => usage[t] >= 0
      BY DEF Sober
    <2> QED
      BY <2>1, <2>2, <2>3, <2>4, OneRowMore DEF Slack
  <1> QED
    BY <1>1, <1>2

\* Nothing granted and nothing used: nothing is left and nothing owed.
LEMMA NothingLeft ==
    ASSUME NEW us, Ledger(us), \A t \in DOMAIN us : us[t] = 0, NEW now \in Nat, now < Never
    PROVE  balance(<<>>, us, now, now).left = 0 /\ Low(<<>>) = 0
  <1> DEFINE none == <<>>
             points == Points(none, now, now)
  <1>1. Rows(none) /\ DOMAIN none = {} /\ now <= now
    BY DEF Rows
  <1> HIDE DEF none
  <1>2. Spans(points, now, now) /\ now \in points
    <2>1. Spans(points, now, now)
      BY <1>1, PointsSpan
    <2> QED
      BY <2>1 DEF Spans
  <1>3. Earlier(points, now) = {}
    <2>1. \A p \in points : now <= p /\ p \in Nat
      BY <1>2, TimesAre DEF Spans
    <2> QED
      BY <2>1 DEF Earlier
  <1>4. Dawn(none, us, points, now) = Nothing(none)
    <2>1. Came(none, -1, now) = {}
      BY <1>1 DEF Came
    <2>2. Come(none, Nothing(none), -1, now) = Nothing(none)
      BY <1>1, <2>1, ComeNone
    <2>3. Nothing(none) \in Standing(none) /\ Nothing(none).active = {}
      BY <1>1, NothingStands
    <2>4. Lapse(none, Nothing(none), now) = Nothing(none)
      BY <1>1, <2>3, LapseSame
    <2> QED
      BY <1>3, <2>2, <2>4 DEF Dawn, Ready
  <1>5. balance(none, us, now, now).lapsed = 0
    <2>1. Rounds(none, us, points)[now].lapsed = Dawn(none, us, points, now).lapsed
      BY <1>1, <1>2, DawnIs
    <2>2. Nothing(none).lapsed = 0
      BY DEF Nothing
    <2>3. balance(none, us, now, now).lapsed = Rounds(none, us, points)[now].lapsed
      BY DEF balance, Result
    <2> QED
      BY <1>4, <2>1, <2>2, <2>3
  <1>6. SpentIn(us, now, Never) = 0
    <2>1. PICK W : W = {t \in DOMAIN us : now <= t /\ t < Never}
      OBVIOUS
    <2>2. IsFiniteSet(W) /\ \A t \in W : us[t] = 0
      BY <2>1, FS_Subset DEF Ledger
    <2>3. Total(W, us) = 0
      BY <2>2, TotalOfZero
    <2> QED
      BY <2>1, <2>3 DEF SpentIn
  <1>7. Total(DOMAIN none, Amounts(none)) = 0
    BY <1>1, TotalOfNone
  <1>8. balance(none, us, now, now).left = Total(DOMAIN none, Amounts(none)) - balance(none, us, now, now).lapsed - SpentIn(us, now, Never)
    BY <1>1, LeftIs
  <1>9. Low(none) = 0
    <2>1. {i \in DOMAIN none : none[i].credits < 0} = {}
      BY <1>1
    <2> QED
      BY <2>1, TotalOfNone DEF Low
  <1> QED
    BY <1>5, <1>6, <1>7, <1>8, <1>9 DEF none

\* Nothing is used in a month to come, nor before there is an account.
Fresh == \A t \in DOMAIN usage : month < t => usage[t] = 0
NotYet == since = None => asked = {} /\ \A t \in DOMAIN usage : usage[t] = 0
Covers == since # None /\ Sober => Slack(grants, since) >= Cardinality(asked) - Cardinality(Jobs)
Spending == Calendar /\ Fresh /\ NotYet /\ Covers

LEMMA JobsCount ==
    ASSUME NEW S \in SUBSET Jobs
    PROVE  /\ IsFiniteSet(S) /\ Cardinality(S) \in Nat /\ Cardinality(Jobs) \in Nat /\ Cardinality(S) <= Cardinality(Jobs)
           /\ \A j \in S : Cardinality(S \ {j}) = Cardinality(S) - 1
  <1>1. IsFiniteSet(Jobs)
    BY BillingAssumption
  <1>2. Cardinality(Jobs) \in Nat
    BY <1>1, FS_CardinalityType
  <1>3. IsFiniteSet(S) /\ Cardinality(S) <= Cardinality(Jobs)
    BY <1>1, FS_Subset
  <1>4. Cardinality(S) \in Nat
    BY <1>3, FS_CardinalityType
  <1>5. \A j \in S : Cardinality(S \ {j}) = Cardinality(S) - 1
    BY <1>3, FS_RemoveElement
  <1> QED
    BY <1>2, <1>3, <1>4, <1>5

\* The account is made, or rows are written: none lowers what is left below what was taken back.
LEMMA GrowsCovers ==
    ASSUME Inv, Spending, Grows, asked' \in {asked, {}}
    PROVE  Fresh' /\ NotYet' /\ Covers'
  <1>1. /\ TypeInv /\ month \in 0..LastMonth /\ None \notin 0..LastMonth /\ LastMonth \in Nat
        /\ since \in (0..LastMonth) \cup {None} /\ asked \subseteq Jobs /\ Dated(grants, month)
    BY BillingAssumption DEF Inv, TypeInv, LedgerOK, OwnerOK, Spending, Calendar
  <1>2. month' = month /\ usage' = usage /\ (since' = since \/ (since = None /\ since' = month)) /\ month \in Nat
    BY <1>1 DEF Grows
  <1>3. Fresh' /\ NotYet'
    BY <1>1, <1>2 DEF Spending, Fresh, NotYet
  <1>4. Sober' <=> Sober
    BY <1>2 DEF Sober
  <1>5. PICK mid : OneMore(grants, mid) /\ OneMore(mid, grants')
    BY DEF Grows
  <1>6. Dated(mid, month) /\ Dated(grants', month)
    BY <1>1, <1>5, OneMoreDated
  <1>7. ASSUME NEW start \in Nat, start <= month, Sober
        PROVE  /\ Slack(grants', start) >= Slack(grants, start)
               /\ Slack(grants', start) \in Int /\ Slack(grants, start) \in Int
    <2>1. Slack(mid, start) >= Slack(grants, start) /\ Slack(grants', start) >= Slack(mid, start)
      BY <1>1, <1>5, <1>6, <1>7, OneMoreSlack
    <2>2. Slack(grants, start) \in Int /\ Slack(mid, start) \in Int /\ Slack(grants', start) \in Int
      BY <1>1, <1>6, <1>7, SlackIs
    <2> QED
      BY <2>1, <2>2
  <1>8. /\ Cardinality(asked) \in Nat /\ Cardinality(asked') \in Nat /\ Cardinality(Jobs) \in Nat
        /\ Cardinality(asked') <= Cardinality(asked) /\ Cardinality(asked) <= Cardinality(Jobs)
    <2>1. Cardinality({}) = 0
      BY FS_EmptySet
    <2> QED
      BY <1>1, <2>1, JobsCount
  <1>9. ASSUME since' # None, Sober'
        PROVE  Slack(grants', since') >= Cardinality(asked') - Cardinality(Jobs)
    <2>1. Sober
      BY <1>4, <1>9
    <2>2. CASE since' = since
      <3>1. since \in Nat /\ since <= month
        BY <1>1, <1>9, <2>2 DEF Spending, Calendar
      <3>2. Slack(grants, since) >= Cardinality(asked) - Cardinality(Jobs)
        BY <1>9, <2>1, <2>2 DEF Spending, Covers
      <3>3. Slack(grants', since) >= Slack(grants, since) /\ Slack(grants', since) \in Int /\ Slack(grants, since) \in Int
        BY <1>7, <2>1, <3>1
      <3> QED
        BY <1>8, <2>2, <3>2, <3>3
    <2>3. CASE since = None /\ since' = month
      <3>1. grants = <<>> /\ \A t \in DOMAIN usage : usage[t] = 0
        BY <2>3 DEF Inv, PaidInv, Unread0, Spending, NotYet
      <3>2. balance(<<>>, usage, month, month).left = 0 /\ Low(<<>>) = 0
        BY <1>1, <3>1, UsageIsLedger, NothingLeft
      <3>3. Slack(grants, month) = 0
        BY <3>1, <3>2 DEF Slack
      <3>4. Slack(grants', month) >= Slack(grants, month) /\ Slack(grants', month) \in Int
        <4>1. month <= month
          BY <1>2
        <4> QED
          BY <1>2, <1>7, <2>1, <4>1
      <3> QED
        BY <1>8, <2>3, <3>3, <3>4
    <2> QED
      BY <1>2, <2>2, <2>3
  <1>10. Slack(grants, since)' = Slack(grants', since')
    BY <1>2 DEF Slack
  <1> QED
    BY <1>3, <1>9, <1>10 DEF Covers

\* What was asked for is spent: one credit less left, and one job less at work.
LEMMA SpentMore ==
    ASSUME NEW us, Ledger(us), NEW now \in DOMAIN us, NEW start \in Nat, start <= now, now < Never, NEW k \in Int,
           NEW vs, vs = [us EXCEPT ![now] = us[now] + k]
    PROVE  SpentIn(vs, start, Never) = SpentIn(us, start, Never) + k /\ SpentIn(us, start, Never) \in Int
  <1>1. PICK W : W = {t \in DOMAIN us : start <= t /\ t < Never}
    OBVIOUS
  <1>2. IsFiniteSet(W) /\ now \in W /\ DOMAIN vs = DOMAIN us /\ vs[now] = us[now] + k /\ us[now] \in Int
    BY <1>1, FS_Subset DEF Ledger
  <1>3. \A t \in W : us[t] \in Int /\ vs[t] \in Int
    BY <1>1, <1>2 DEF Ledger
  <1>4. Total(W, us) = us[now] + Total(W \ {now}, us) /\ Total(W \ {now}, us) \in Int
    <2>1. W \in SUBSET W /\ W \ {now} \in SUBSET W
      OBVIOUS
    <2> QED
      BY <1>2, <1>3, <2>1, TotalWithout
  <1>5. Total(W, vs) = vs[now] + Total(W \ {now}, vs)
    <2>1. W \in SUBSET W
      OBVIOUS
    <2> QED
      BY <1>2, <1>3, <2>1, TotalWithout, ZenonT(40)
  <1>6. Total(W \ {now}, us) = Total(W \ {now}, vs)
    <2>1. IsFiniteSet(W \ {now})
      BY <1>2, FS_Subset
    <2>2. \A t \in W \ {now} : us[t] \in Int /\ us[t] = vs[t]
      BY <1>1, <1>3
    <2> QED
      BY <2>1, <2>2, TotalSame
  <1>7. Total(W, vs) = Total(W, us) + k /\ Total(W, us) \in Int
    BY <1>2, <1>4, <1>5, <1>6
  <1>8. SpentIn(us, start, Never) = Total(W, us)
    BY <1>1 DEF SpentIn
  <1>9. SpentIn(vs, start, Never) = Total(W, vs)
    BY <1>1, <1>2 DEF SpentIn
  <1> QED
    BY <1>7, <1>8, <1>9

\* What the ledger records this month lowers what is left by as much.
LEMMA LedgerCovers ==
    ASSUME Inv, Spending, since # None, NEW k \in Int, UNCHANGED <<since, grants, month>>,
           usage' = [usage EXCEPT ![month] = usage[month] + k]
    PROVE  /\ Fresh' /\ (Sober' <=> Sober)
           /\ Slack(grants, since)' = Slack(grants, since) - k /\ Slack(grants, since) \in Int
  <1>1. /\ TypeInv /\ month \in 0..LastMonth /\ LastMonth \in Nat /\ usage \in [0..LastMonth -> Int]
        /\ since \in Nat /\ since <= month /\ Dated(grants, month)
    BY BillingAssumption DEF Inv, TypeInv, LedgerOK, OwnerOK, Spending, Calendar
  <1>2. PICK us, vs, gs, now, start : /\ us = usage /\ vs = usage' /\ gs = grants /\ now = month /\ start = since
    OBVIOUS
  <1>3. /\ Ledger(us) /\ now \in Nat /\ now < Never /\ now \in DOMAIN us /\ start \in Nat /\ start <= now
        /\ Rows(gs) /\ \A i \in DOMAIN gs : gs[i].at <= now
    BY <1>1, <1>2, UsageIsLedger, DatedRows
  <1>4. vs = [us EXCEPT ![now] = us[now] + k]
    BY <1>2
  <1>5. Ledger(vs) /\ DOMAIN vs = DOMAIN us /\ \A t \in DOMAIN us : t # now => vs[t] = us[t]
    <2>1. us[now] \in Int
      BY <1>3 DEF Ledger
    <2> QED
      BY <1>3, <1>4, <2>1 DEF Ledger
  <1>6. PICK a, b : a = balance(gs, us, start, now) /\ b = balance(gs, vs, start, now)
    OBVIOUS
  <1>7. \A t \in DOMAIN us : t < now => us[t] = vs[t]
    BY <1>3, <1>5
  <1>8. a.lapsed = b.lapsed
    BY <1>3, <1>5, <1>6, <1>7, LapsedBefore
  <1>9. SpentIn(vs, start, Never) = SpentIn(us, start, Never) + k /\ SpentIn(us, start, Never) \in Int
    <2>1. Ledger(us) /\ now \in DOMAIN us /\ start \in Nat /\ start <= now /\ now < Never
      BY <1>3
    <2> QED
      BY <1>4, <2>1, SpentMore, ZenonT(60)
  <1>10. /\ a.left \in Int /\ a.lapsed \in Int /\ Total(DOMAIN gs, Amounts(gs)) \in Int
         /\ a.left = Total(DOMAIN gs, Amounts(gs)) - a.lapsed - SpentIn(us, start, Never)
    BY <1>3, <1>6, LeftIs
  <1>11. b.left = Total(DOMAIN gs, Amounts(gs)) - b.lapsed - SpentIn(vs, start, Never)
    BY <1>3, <1>5, <1>6, LeftIs
  <1>12. b.left = a.left - k
    <2>1. PICK x, y, l, all, spent : /\ x = a.left /\ y = b.left /\ l = a.lapsed /\ all = Total(DOMAIN gs, Amounts(gs))
                                     /\ spent = SpentIn(us, start, Never)
      OBVIOUS
    <2>2. x \in Int /\ l \in Int /\ all \in Int /\ spent \in Int /\ x = all - l - spent /\ y = all - l - (spent + k)
      BY <1>8, <1>9, <1>10, <1>11, <2>1
    <2>3. y = x - k
      BY <2>2
    <2> QED
      BY <2>1, <2>3
  <1>13. Slack(grants, since) = a.left - Low(gs) /\ Slack(grants, since)' = b.left - Low(gs)
    BY <1>2, <1>6 DEF Slack
  <1>14. Low(gs) \in Int
    BY <1>3, LowIs
  <1>15. Fresh' /\ (Sober' <=> Sober)
    <2>1. \A t \in DOMAIN us : t \in Nat
      BY <1>1, <1>2
    <2>2. month' = now /\ month = now /\ usage' = vs /\ usage = us
      BY <1>2
    <2>3. Fresh
      BY DEF Spending
    <2> QED
      BY <1>3, <1>5, <2>1, <2>2, <2>3 DEF Fresh, Sober
  <1> QED
    BY <1>10, <1>12, <1>13, <1>14, <1>15

LEMMA SpendCovers == ASSUME Inv, Spending, NEW j \in Jobs, Spend(j) PROVE Fresh' /\ NotYet' /\ Covers'
  <1>1. /\ since' = since /\ grants' = grants /\ month' = month /\ j \in asked /\ asked' = asked \ {j}
        /\ usage' = [usage EXCEPT ![month] = usage[month] + 1]
    BY DEF Spend, owner
  <1>2. since # None
    BY <1>1 DEF Spending, NotYet
  <1>3. /\ Fresh' /\ (Sober' <=> Sober)
        /\ Slack(grants, since)' = Slack(grants, since) - 1 /\ Slack(grants, since) \in Int
    <2>1. 1 \in Int
      OBVIOUS
    <2> QED
      BY <1>1, <1>2, <2>1, LedgerCovers
  <1>4. Cardinality(asked') = Cardinality(asked) - 1 /\ Cardinality(asked) \in Nat /\ Cardinality(Jobs) \in Nat
    <2>1. asked \in SUBSET Jobs
      BY DEF Inv, TypeInv, LedgerOK
    <2> QED
      BY <1>1, <2>1, JobsCount
  <1>5. Sober => Slack(grants, since) >= Cardinality(asked) - Cardinality(Jobs)
    BY <1>2 DEF Spending, Covers
  <1> QED
    BY <1>1, <1>2, <1>3, <1>4, <1>5 DEF NotYet, Covers

LEMMA RefundCallCovers == ASSUME Inv, Spending, RefundCall PROVE Fresh' /\ NotYet' /\ Covers'
  <1>1. /\ since' = since /\ grants' = grants /\ month' = month /\ asked' = asked /\ Used > 0
        /\ usage' = [usage EXCEPT ![month] = usage[month] - 1]
    BY DEF RefundCall, owner
  <1>2. TypeInv /\ Ledger(usage) /\ month \in DOMAIN usage
    <2>1. TypeInv /\ usage \in [0..LastMonth -> Int] /\ month \in 0..LastMonth
      BY DEF Inv, TypeInv, LedgerOK
    <2> QED
      BY <2>1, UsageIsLedger
  <1>3. since # None
    <2> SUFFICES ASSUME since = None PROVE FALSE
      OBVIOUS
    <2>1. \A t \in DOMAIN usage : usage[t] = 0
      BY DEF Spending, NotYet
    <2>2. Total(DOMAIN usage, usage) = 0
      BY <1>2, <2>1, TotalOfZero DEF Ledger
    <2> QED
      BY <1>1, <2>2 DEF Used
  <1>4. /\ Fresh' /\ (Sober' <=> Sober)
        /\ Slack(grants, since)' = Slack(grants, since) + 1 /\ Slack(grants, since) \in Int
    <2>1. usage[month] \in Int
      BY <1>2 DEF Ledger
    <2>2. usage' = [usage EXCEPT ![month] = usage[month] + (-1)] /\ -1 \in Int
      <3>1. \A n \in Int : n - 1 = n + (-1)
        OBVIOUS
      <3>2. usage[month] - 1 = usage[month] + (-1)
        BY <2>1, <3>1
      <3>3. PICK less, more : less = usage[month] - 1 /\ more = usage[month] + (-1)
        OBVIOUS
      <3>4. usage' = [usage EXCEPT ![month] = less] /\ less = more
        BY <1>1, <3>2, <3>3
      <3>5. usage' = [usage EXCEPT ![month] = more]
        BY <3>4
      <3>6. -1 \in Int
        OBVIOUS
      <3> QED
        BY <3>3, <3>5, <3>6, Zenon
    <2>3. /\ Fresh' /\ (Sober' <=> Sober)
          /\ Slack(grants, since)' = Slack(grants, since) - (-1) /\ Slack(grants, since) \in Int
      BY <1>1, <1>3, <2>2, LedgerCovers
    <2> QED
      BY <2>3
  <1>5. Cardinality(asked) \in Nat /\ Cardinality(Jobs) \in Nat
    <2>1. asked \in SUBSET Jobs
      BY DEF Inv, TypeInv, LedgerOK
    <2> QED
      BY <2>1, JobsCount
  <1>6. Sober => Slack(grants, since) >= Cardinality(asked) - Cardinality(Jobs)
    BY <1>3 DEF Spending, Covers
  <1> QED
    BY <1>1, <1>3, <1>4, <1>5, <1>6 DEF NotYet, Covers

\* A month that begins: what lapses is not owed.
LEMMA TickCovers == ASSUME Inv, Spending, Tick PROVE Fresh' /\ NotYet' /\ Covers'
  <1>1. /\ since' = since /\ grants' = grants /\ usage' = usage /\ asked' = asked
        /\ month < LastMonth /\ month' = month + 1
    BY DEF Tick, owner
  <1>2. /\ TypeInv /\ month \in 0..LastMonth /\ LastMonth \in Nat /\ usage \in [0..LastMonth -> Int] /\ LastMonth < Never
        /\ (since # None => since \in Nat /\ since <= month) /\ Dated(grants, month) /\ Never \in Nat
        /\ Fresh /\ NotYet /\ Covers
    BY BillingAssumption, TopupAssumption DEF Inv, TypeInv, LedgerOK, OwnerOK, Spending, Calendar
  <1>3. Fresh' /\ NotYet'
    BY <1>1, <1>2 DEF Fresh, NotYet
  <1>4. ASSUME since # None, Sober' PROVE Slack(grants, since)' >= Cardinality(asked) - Cardinality(Jobs)
    <2>1. \A t \in DOMAIN usage : usage[t] >= 0
      BY <1>1, <1>2, <1>4 DEF Fresh, Sober
    <2>2. Sober
      BY <2>1 DEF Sober
    <2>3. Slack(grants, since) >= Cardinality(asked) - Cardinality(Jobs)
      BY <1>2, <1>4, <2>2 DEF Covers
    <2>4. PICK a, b : a = balance(grants, usage, since, month).left /\ b = balance(grants, usage, since, month + 1).left
      OBVIOUS
    <2>5. /\ Rows(grants) /\ (\A i \in DOMAIN grants : grants[i].at <= month) /\ Ledger(usage) /\ month \in Nat
          /\ month + 1 < Never /\ (\A t \in DOMAIN usage : month < t => usage[t] = 0) /\ since \in Nat /\ since <= month
      BY <1>1, <1>2, <1>4, DatedRows, UsageIsLedger DEF Fresh
    <2>6. a \in Int /\ b \in Int /\ (b >= a \/ b >= 0)
      BY <2>1, <2>4, <2>5, NextMonth
    <2>7. Low(grants) \in Int /\ Low(grants) <= 0
      BY <2>5, LowIs
    <2>8. Slack(grants, since) = a - Low(grants) /\ Slack(grants, since)' = b - Low(grants)
      BY <1>1, <2>4 DEF Slack
    <2>9. Cardinality(asked) \in Nat /\ Cardinality(Jobs) \in Nat /\ Cardinality(asked) <= Cardinality(Jobs)
      <3>1. asked \in SUBSET Jobs
        BY DEF Inv, TypeInv, LedgerOK
      <3> QED
        BY <3>1, JobsCount
    <2> QED
      BY <2>3, <2>6, <2>7, <2>8, <2>9
  <1> QED
    BY <1>1, <1>3, <1>4 DEF Covers

\* Work is let through while a credit is left.
LEMMA CanSpendCovers == ASSUME Inv, Spending, NEW j \in Jobs, CanSpend(j) PROVE Fresh' /\ NotYet' /\ Covers'
  <1>1. /\ since # None /\ since' = since /\ grants' = Account /\ month' = month /\ usage' = usage
        /\ asked' = asked \cup {j} /\ Left(Account) > 0
    BY DEF CanSpend, MaySpend, ReadAccount
  <1>2. TypeInv /\ PaidInv /\ since \in Nat /\ since <= month /\ Dated(grants, month)
    BY <1>1, BillingAssumption DEF Inv, TypeInv, OwnerOK, Spending, Calendar
  <1>3. Dated(Account, month)
    BY <1>2, AccountIsOneMore, OneMoreDated
  <1>4. balance(Account, usage, since, month).left > 0
    BY <1>1 DEF Left
  <1>5. /\ balance(Account, usage, since, month).left \in Int /\ Slack(Account, since) \in Int
        /\ Slack(Account, since) >= balance(Account, usage, since, month).left
    BY <1>2, <1>3, SlackIs
  <1>6. Slack(grants, since)' = Slack(Account, since)
    BY <1>1 DEF Slack
  <1>7. Cardinality(asked') \in Nat /\ Cardinality(Jobs) \in Nat /\ Cardinality(asked') <= Cardinality(Jobs)
    <2>1. asked' \in SUBSET Jobs
      BY <1>1 DEF Inv, TypeInv, LedgerOK
    <2> QED
      BY <2>1, JobsCount
  <1>8. Fresh' /\ NotYet'
    BY <1>1 DEF Spending, Fresh, NotYet
  <1>9. Slack(grants, since)' >= Cardinality(asked') - Cardinality(Jobs)
    BY <1>4, <1>5, <1>6, <1>7
  <1> QED
    BY <1>8, <1>9 DEF Covers

\* The other steps spend nothing: what was asked for stays, or a crash ends it.
LEMMA StepSpends ==
    ASSUME Inv, [Next]_vars
    PROVE  \/ (\E j \in Jobs : CanSpend(j) \/ Spend(j)) \/ RefundCall \/ Tick
           \/ usage' = usage /\ month' = month /\ asked' \in {asked, {}}
  <1> DEFINE Else == usage' = usage /\ month' = month /\ asked' \in {asked, {}}
  <1>1. View => Else
    BY DEF View
  <1>2. Crash => Else
    BY DEF Crash
  <1>3. ASSUME NEW c \in Checkouts, Pay(c) \/ \E item \in Items : Open(c, item) PROVE Else
    BY <1>3 DEF Pay, Open
  <1>4. ASSUME NEW h \in Handlers, NEW c \in Checkouts,
               Deliver(h, c) \/ Verify(h, c) \/ \E item \in Items : BuyAtOnce(h, c, item)
        PROVE  Else
    BY <1>4 DEF Deliver, Verify, BuyAtOnce
  <1>5. ASSUME NEW h \in Handlers, Handle(h) PROVE Else
    BY <1>5 DEF Handle, FulfilReads, Claim, CompleteAtOnce, Remember, Answer
  <1>6. ASSUME NEW a \in Admins, Refunding(a) PROVE Else
    BY <1>6 DEF Refunding, AskProvider, TakeBack, Undo
  <1>7. ASSUME NEW a \in Admins, NEW c \in Checkouts, ClaimRefund(a, c) PROVE Else
    BY <1>7 DEF ClaimRefund
  <1>8. ASSUME NEW credits \in {GivenCredits, -GivenCredits}, AdminGrant(credits) PROVE Else
    BY <1>8 DEF AdminGrant
  <1>9. UNCHANGED vars => Else
    BY DEF vars
  <1> QED
    BY <1>1, <1>2, <1>3, <1>4, <1>5, <1>6, <1>7, <1>8, <1>9 DEF Next

LEMMA StepSpending == ASSUME Inv, Spending, [Next]_vars PROVE Spending'
  <1>1. Calendar'
    BY StepCalendar DEF Spending
  <1>2. Fresh' /\ NotYet' /\ Covers'
    <2>1. CASE \E j \in Jobs : CanSpend(j) \/ Spend(j)
      BY <2>1, CanSpendCovers, SpendCovers
    <2>2. CASE RefundCall
      BY <2>2, RefundCallCovers
    <2>3. CASE Tick
      BY <2>3, TickCovers
    <2>4. CASE usage' = usage /\ month' = month /\ asked' \in {asked, {}}
      <3>1. CASE Grows
        BY <2>4, <3>1, GrowsCovers
      <3>2. CASE Still
        <4>1. OneMore(grants, grants')
          BY <3>2 DEF Still, OneMore
        <4>2. Grows
          BY <2>4, <3>2, <4>1, OneGrows DEF Still
        <4> QED
          BY <2>4, <4>2, GrowsCovers
      <3> QED
        BY <3>1, <3>2, StepGrows
    <2> QED
      BY <2>1, <2>2, <2>3, <2>4, StepSpends
  <1> QED
    BY <1>1, <1>2 DEF Spending

LEMMA InvOverspend == ASSUME Inv, Spending PROVE OverspendIsBounded
  <1> SUFFICES ASSUME since # None, \A t \in DOMAIN usage : t < month => usage[t] >= 0
               PROVE  Balance.left >= Credits({i \in DOMAIN grants : grants[i].credits < 0}) - Cardinality(Jobs)
    BY DEF OverspendIsBounded
  <1>1. TypeInv /\ since \in Nat /\ since <= month /\ Dated(grants, month) /\ asked \in SUBSET Jobs
    BY BillingAssumption DEF Inv, TypeInv, OwnerOK, LedgerOK, Spending, Calendar
  <1>2. Slack(grants, since) >= Cardinality(asked) - Cardinality(Jobs)
    BY DEF Spending, Covers, Sober
  <1>3. balance(grants, usage, since, month).left \in Int /\ Low(grants) \in Int
    BY <1>1, SlackIs
  <1>4. Cardinality(asked) \in Nat /\ Cardinality(Jobs) \in Nat
    BY <1>1, JobsCount
  <1>5. Credits({i \in DOMAIN grants : grants[i].credits < 0}) = Low(grants)
    BY DEF Credits, Low, Amounts
  <1>6. Balance.left = balance(grants, usage, since, month).left
    BY DEF Balance
  <1>7. Slack(grants, since) = balance(grants, usage, since, month).left - Low(grants)
    BY DEF Slack
  <1> QED
    BY <1>2, <1>3, <1>4, <1>5, <1>6, <1>7

LEMMA InitSpending == ASSUME Init PROVE Spending
  <1>1. /\ since = None /\ grants = <<>> /\ month = 0 /\ asked = {}
        /\ usage = [t \in 0..LastMonth |-> 0]
    BY DEF Init, Unread
  <1>2. Calendar
    BY <1>1 DEF Calendar, Dated
  <1> QED
    BY <1>1, <1>2 DEF Spending, Fresh, NotYet, Covers

\* The check of credits is read before it is used, and the account stays within one credit for each job
\* of what was taken back, for any plans, prices, jobs and calendar (billing/__init__.py's can_spend).
THEOREM OverspendHolds == Spec => []OverspendIsBounded
  <1>1. Init => Spending
    BY InitSpending
  <1> QED
    BY <1>1, AlwaysInv, StepSpending, InvOverspend, PTL DEF Spec
------------------------------------------------------------------------------
(* Counting with totals. *)

\* Parts of what is nowhere negative.
LEMMA PartOfTotal ==
    ASSUME NEW S, IsFiniteSet(S), NEW f, \A x \in S : f[x] \in Int /\ f[x] >= 0
    PROVE  /\ Total(S, f) \in Int
           /\ \A T \in SUBSET S : Total(T, f) \in Int /\ Total(T, f) >= 0 /\ Total(T, f) <= Total(S, f)
           /\ \A x \in S : f[x] <= Total(S, f)
  <1>0. \A x \in S : f[x] \in Int
    OBVIOUS
  <1>1. ASSUME NEW T \in SUBSET S
        PROVE  Total(T, f) \in Int /\ Total(T, f) >= 0 /\ Total(T, f) <= Total(S, f) /\ Total(S, f) \in Int
    <2>1. PICK R : R = S \ T
      OBVIOUS
    <2>2. S = T \cup R /\ T \cap R = {} /\ IsFiniteSet(T) /\ IsFiniteSet(R)
      BY <2>1, FS_Subset
    <2>3. Total(S, f) = Total(T, f) + Total(R, f)
      BY <1>0, <2>2, TotalOfBoth
    <2>4. Total(T, f) \in Int /\ Total(T, f) >= 0 /\ Total(R, f) \in Int /\ Total(R, f) >= 0
      BY <2>2, TotalAtLeast
    <2> QED
      BY <2>3, <2>4
  <1>2. ASSUME NEW x \in S PROVE f[x] <= Total(S, f)
    <2>1. S \in SUBSET S /\ S \ {x} \in SUBSET S
      OBVIOUS
    <2>2. Total(S, f) = f[x] + Total(S \ {x}, f)
      BY <1>0, <2>1, TotalWithout
    <2>3. Total(S \ {x}, f) \in Int /\ Total(S \ {x}, f) >= 0
      BY <1>1, <2>1
    <2> QED
      BY <2>2, <2>3
  <1>3. S \in SUBSET S
    OBVIOUS
  <1> QED
    BY <1>1, <1>2, <1>3

\* What is counted by a key adds up.
Keyed(U, S, m, y) == (\A u \in U : m[u] \in S) /\ \A i \in S : y[i] = Cardinality({u \in U : m[u] = i})
LEMMA CountByKey ==
    ASSUME NEW U, IsFiniteSet(U), NEW S, IsFiniteSet(S), NEW m, NEW y, Keyed(U, S, m, y)
    PROVE  Cardinality(U) = Total(S, y) /\ \A i \in S : y[i] \in Nat
  <1> DEFINE Of(T) == {u \in U : m[u] \in T}
             G == {T \in SUBSET S : Cardinality(Of(T)) = Total(T, y)}
  <1>0. \A V \in SUBSET U : IsFiniteSet(V) /\ Cardinality(V) \in Nat
    BY FS_Subset, FS_CardinalityType
  <1>k. (\A u \in U : m[u] \in S) /\ \A i \in S : y[i] = Cardinality({u \in U : m[u] = i})
    BY DEF Keyed
  <1>t. \A i \in S : y[i] \in Nat
    <2>1. ASSUME NEW i \in S PROVE y[i] \in Nat
      <3>1. {u \in U : m[u] = i} \in SUBSET U
        OBVIOUS
      <3> QED
        BY <1>0, <1>k, <3>1
    <2> QED
      BY <2>1
  <1>1. {} \in G
    <2>1. Of({}) = {}
      OBVIOUS
    <2> QED
      BY <2>1, FS_EmptySet, TotalOfNone
  <1>2. ASSUME NEW T \in SUBSET S, NEW x \in S \ T, T \in G PROVE T \cup {x} \in G
    <2>1. PICK A, B : A = Of(T) /\ B = {u \in U : m[u] = x}
      OBVIOUS
    <2>2. Of(T \cup {x}) = A \cup B /\ A \cap B = {} /\ A \in SUBSET U /\ B \in SUBSET U
      BY <2>1
    <2>3. Cardinality(A \cup B) = Cardinality(A) + Cardinality(B) /\ Cardinality(A) \in Nat /\ Cardinality(B) \in Nat
      <3>1. IsFiniteSet(A) /\ IsFiniteSet(B) /\ Cardinality(A) \in Nat /\ Cardinality(B) \in Nat
        BY <1>0, <2>2
      <3>2. Cardinality(A \cup B) = Cardinality(A) + Cardinality(B) - Cardinality(A \cap B)
        BY <3>1, FS_Union
      <3>3. Cardinality(A \cap B) = 0
        BY <2>2, FS_EmptySet
      <3> QED
        BY <3>1, <3>2, <3>3
    <2>4. y[x] = Cardinality(B) /\ Cardinality(A) = Total(T, y)
      BY <1>2, <1>k, <2>1
    <2>5. Total(T \cup {x}, y) = y[x] + Total(T, y)
      <3>1. \A i \in S : y[i] \in Int
        BY <1>t
      <3> QED
        BY <3>1, TotalMore
    <2>6. Cardinality(Of(T \cup {x})) = Total(T \cup {x}, y)
      <3>1. Cardinality(Of(T \cup {x})) = Cardinality(A) + Cardinality(B)
        BY <2>2, <2>3
      <3>2. \A a, b \in Nat : a + b = b + a
        OBVIOUS
      <3> HIDE DEF Of
      <3> QED
        BY <2>3, <2>4, <2>5, <3>1, <3>2
    <2> QED
      BY <2>6
  <1>3. S \in SUBSET S /\ Of(S) = U
    BY <1>k
  <1>4. S \in G
    <2> HIDE DEF G
    <2> QED
      BY <1>1, <1>2, <1>3, Gathering
  <1> QED
    BY <1>t, <1>3, <1>4

\* As many can be dealt out as there are, so many to each.
Deals(n, T, y, m) == m \in [1..n -> T] /\ \A i \in T : Cardinality({k \in 1..n : m[k] = i}) = y[i]
Dealt(n, T, y) == \E m : Deals(n, T, y, m)

LEMMA Dealing ==
    ASSUME NEW S, IsFiniteSet(S), NEW y, \A i \in S : y[i] \in Nat
    PROVE  Total(S, y) \in Nat /\ Dealt(Total(S, y), S, y)
  <1> DEFINE G == {T \in SUBSET S : Total(T, y) \in Nat /\ Dealt(Total(T, y), T, y)}
  <1>1. {} \in G
    <2>1. Total({}, y) = 0
      BY TotalOfNone
    <2>2. 1..0 = {}
      OBVIOUS
    <2>3. [k \in {} |-> k] \in [{} -> {}]
      OBVIOUS
    <2>4. Deals(0, {}, y, [k \in {} |-> k])
      BY <2>2, <2>3 DEF Deals
    <2> QED
      BY <2>1, <2>4 DEF Dealt
  <1>2. ASSUME NEW T \in SUBSET S, NEW x \in S \ T, T \in G PROVE T \cup {x} \in G
    <2>1. PICK n, c, m : /\ n = Total(T, y) /\ c = y[x] /\ n \in Nat /\ c \in Nat /\ Deals(n, T, y, m)
      BY <1>2 DEF Dealt
    <2>m. m \in [1..n -> T] /\ \A i \in T : Cardinality({k \in 1..n : m[k] = i}) = y[i]
      BY <2>1 DEF Deals
    <2>2. Total(T \cup {x}, y) = n + c
      <3>1. \A i \in S : y[i] \in Int
        OBVIOUS
      <3>2. Total(T \cup {x}, y) = y[x] + Total(T, y)
        BY <3>1, TotalMore
      <3> QED
        BY <2>1, <3>2
    <2> DEFINE d == [k \in 1..(n + c) |-> IF k <= n THEN m[k] ELSE x]
    <2>3. d \in [1..(n + c) -> T \cup {x}]
      <3>1. ASSUME NEW k \in 1..(n + c) PROVE d[k] \in T \cup {x}
        <4>1. CASE k <= n
          <5>1. k \in 1..n
            BY <2>1, <2>m, <4>1
          <5>2. m[k] \in T
            BY <2>1, <2>m, <5>1
          <5> QED
            BY <4>1, <5>2
        <4>2. CASE ~(k <= n)
          BY <4>2
        <4> QED
          BY <4>1, <4>2
      <3> QED
        BY <3>1
    <2>4. ASSUME NEW i \in T \cup {x} PROVE Cardinality({k \in 1..(n + c) : d[k] = i}) = y[i]
      <3>1. CASE i \in T
        <4>1. i # x
          BY <3>1
        <4>2. \A k : k \in 1..(n + c) /\ d[k] = i <=> k \in 1..n /\ m[k] = i
          <5>1. ASSUME NEW k PROVE k \in 1..(n + c) /\ d[k] = i <=> k \in 1..n /\ m[k] = i
            BY <2>1, <2>m, <4>1
          <5> QED
            BY <5>1
        <4> HIDE DEF d
        <4>3. {k \in 1..(n + c) : d[k] = i} = {k \in 1..n : m[k] = i}
          BY <4>2
        <4> QED
          BY <2>1, <2>m, <3>1, <4>3
      <3>2. CASE i = x
        <4>1. \A k : k \in 1..(n + c) /\ d[k] = x <=> k \in (n + 1)..(n + c)
          <5>1. ASSUME NEW k PROVE k \in 1..(n + c) /\ d[k] = x <=> k \in (n + 1)..(n + c)
            <6>1. CASE k \in 1..n
              <7>1. m[k] \in T /\ m[k] # x
                BY <2>1, <2>m, <6>1
              <7>2. k \in Int /\ k <= n
                BY <2>1, <2>m, <6>1
              <7> QED
                BY <2>1, <2>m, <7>1, <7>2
            <6>2. CASE k \notin 1..n
              BY <2>1, <2>m, <6>2
            <6> QED
              BY <6>1, <6>2
          <5> QED
            BY <5>1
        <4> HIDE DEF d
        <4>2. {k \in 1..(n + c) : d[k] = x} = (n + 1)..(n + c)
          BY <4>1
        <4>3. Cardinality((n + 1)..(n + c)) = c
          <5>1. n + 1 \in Int /\ n + c \in Int
            BY <2>1, <2>m
          <5>2. Cardinality((n + 1)..(n + c)) = IF n + 1 > n + c THEN 0 ELSE (n + c) - (n + 1) + 1
            BY <5>1, FS_Interval
          <5> QED
            BY <2>1, <2>m, <5>2
        <4> QED
          BY <2>1, <2>m, <3>2, <4>2, <4>3
      <3> QED
        BY <3>1, <3>2
    <2> HIDE DEF d
    <2>5. Deals(n + c, T \cup {x}, y, d)
      BY <2>3, <2>4 DEF Deals
    <2>6. n + c \in Nat
      BY <2>1
    <2> QED
      BY <2>2, <2>5, <2>6 DEF Dealt
  <1>3. S \in SUBSET S
    OBVIOUS
  <1>4. S \in G
    <2> HIDE DEF G
    <2> QED
      BY <1>1, <1>2, <1>3, Gathering
  <1> QED
    BY <1>4
------------------------------------------------------------------------------
(* Ways to pay: what each grant pays of what was used in each month. *)

Column(us, y, i) == [t \in DOMAIN us |-> y[t][i]]

\* A grant pays from when it came until it lapses, all that was used is paid, and no grant gives more than it had.
Way(gs, us, y) ==
    /\ \A t \in DOMAIN us : \A i \in DOMAIN gs :
          y[t][i] \in Nat /\ (y[t][i] = 0 \/ (gs[i].at <= t /\ t < ExpiresAt(gs[i])))
    /\ \A t \in DOMAIN us : Total(DOMAIN gs, y[t]) = us[t]
    /\ \A i \in DOMAIN gs : Total(DOMAIN us, Column(us, y, i)) <= gs[i].credits

\* What each grant has left after month p, and what lapses by then.
Past(us, p) == {t \in DOMAIN us : t <= p}
Rest(gs, us, y, p) == [i \in DOMAIN gs |-> gs[i].credits - Total(Past(us, p), Column(us, y, i))]
Wasted(gs, us, y, now) == Total({i \in DOMAIN gs : ExpiresAt(gs[i]) <= now}, Rest(gs, us, y, now))

LEMMA PastIs ==
    ASSUME NEW us, Ledger(us), NEW p \in Int
    PROVE  /\ IsFiniteSet(DOMAIN us) /\ Past(us, p) \in SUBSET DOMAIN us /\ IsFiniteSet(Past(us, p))
           /\ p \in DOMAIN us => Past(us, p) = Past(us, p - 1) \cup {p} /\ p \notin Past(us, p - 1)
  <1>1. Past(us, p) \in SUBSET DOMAIN us /\ \A t \in DOMAIN us : t \in Int
    BY DEF Past, Ledger
  <1>2. IsFiniteSet(DOMAIN us) /\ IsFiniteSet(Past(us, p))
    BY <1>1, FS_Subset DEF Ledger
  <1>3. ASSUME p \in DOMAIN us PROVE Past(us, p) = Past(us, p - 1) \cup {p} /\ p \notin Past(us, p - 1)
    <2>1. \A t \in Int : t <= p <=> (t <= p - 1 \/ t = p)
      OBVIOUS
    <2>2. ~(p <= p - 1)
      OBVIOUS
    <2> QED
      BY <1>1, <1>3, <2>1, <2>2 DEF Past
  <1> QED
    BY <1>1, <1>2, <1>3

\* A month's payments come off what is left.
LEMMA RestOne ==
    ASSUME NEW gs, Rows(gs), NEW us, Ledger(us), NEW y,
           \A t \in DOMAIN us : \A i \in DOMAIN gs : y[t][i] \in Int,
           NEW p \in Int
    PROVE  /\ Rest(gs, us, y, p) \in [DOMAIN gs -> Int]
           /\ p \in DOMAIN us => \A i \in DOMAIN gs : Rest(gs, us, y, p)[i] = Rest(gs, us, y, p - 1)[i] - y[p][i]
  <1>1. ASSUME NEW i \in DOMAIN gs
        PROVE  /\ Rest(gs, us, y, p)[i] = gs[i].credits - Total(Past(us, p), Column(us, y, i))
               /\ Rest(gs, us, y, p)[i] \in Int
               /\ p \in DOMAIN us => Rest(gs, us, y, p)[i] = Rest(gs, us, y, p - 1)[i] - y[p][i]
    <2>1. PICK c : c = Column(us, y, i)
      OBVIOUS
    <2>2. \A t \in DOMAIN us : c[t] = y[t][i] /\ c[t] \in Int
      BY <2>1 DEF Column
    <2>3. gs[i].credits \in Int
      BY DEF Rows
    <2>4. /\ Rest(gs, us, y, p)[i] = gs[i].credits - Total(Past(us, p), c)
          /\ Rest(gs, us, y, p - 1)[i] = gs[i].credits - Total(Past(us, p - 1), c)
      BY <2>1 DEF Rest
    <2>5. p - 1 \in Int
      OBVIOUS
    <2>6. /\ Past(us, p) \in SUBSET DOMAIN us /\ Past(us, p - 1) \in SUBSET DOMAIN us /\ IsFiniteSet(DOMAIN us)
          /\ IsFiniteSet(Past(us, p)) /\ IsFiniteSet(Past(us, p - 1))
      BY <2>5, PastIs
    <2>7. Total(Past(us, p), c) \in Int /\ Total(Past(us, p - 1), c) \in Int
      BY <2>2, <2>6, TotalTypes
    <2>8. ASSUME p \in DOMAIN us PROVE Total(Past(us, p), c) = c[p] + Total(Past(us, p - 1), c)
      <3>1. Past(us, p) = Past(us, p - 1) \cup {p} /\ p \in DOMAIN us \ Past(us, p - 1)
        BY <2>8, PastIs
      <3>2. \A t \in DOMAIN us : c[t] \in Int
        BY <2>2
      <3>3. Total(Past(us, p - 1) \cup {p}, c) = c[p] + Total(Past(us, p - 1), c)
        BY <2>6, <3>1, <3>2, TotalMore
      <3> QED
        BY <3>1, <3>3
    <2>9. ASSUME p \in DOMAIN us PROVE Rest(gs, us, y, p)[i] = Rest(gs, us, y, p - 1)[i] - y[p][i]
      <3>1. PICK a, b, d, e : a = Total(Past(us, p), c) /\ b = Total(Past(us, p - 1), c) /\ d = gs[i].credits /\ e = y[p][i]
        OBVIOUS
      <3>2. a \in Int /\ b \in Int /\ d \in Int /\ e \in Int /\ a = e + b
        BY <2>2, <2>3, <2>7, <2>8, <2>9, <3>1
      <3>3. d - a = (d - b) - e
        BY <3>2
      <3> QED
        BY <2>4, <3>1, <3>3
    <2>10. Rest(gs, us, y, p)[i] \in Int
      BY <2>3, <2>4, <2>7
    <2> QED
      BY <2>1, <2>4, <2>9, <2>10
  <1>2. Rest(gs, us, y, p) = [i \in DOMAIN gs |-> Rest(gs, us, y, p)[i]]
    BY DEF Rest
  <1>3. Rest(gs, us, y, p) \in [DOMAIN gs -> Int]
    BY <1>1, <1>2
  <1> QED
    BY <1>1, <1>3

\* While a grant paid nothing it has all its credits.
LEMMA RestAll ==
    ASSUME NEW gs, Rows(gs), NEW us, Ledger(us), NEW y, NEW p \in Int, NEW i \in DOMAIN gs,
           \A t \in Past(us, p) : y[t][i] = 0
    PROVE  Rest(gs, us, y, p)[i] = gs[i].credits
  <1>1. \A t \in Past(us, p) : Column(us, y, i)[t] = 0
    BY PastIs DEF Column
  <1>2. Total(Past(us, p), Column(us, y, i)) = 0
    BY <1>1, PastIs, TotalOfZero
  <1>3. Rest(gs, us, y, p)[i] = gs[i].credits - Total(Past(us, p), Column(us, y, i)) /\ gs[i].credits \in Int
    BY DEF Rest, Rows
  <1> QED
    BY <1>2, <1>3

\* What a way leaves: never less than nothing, all of what is still to come.
LEMMA WayLeaves ==
    ASSUME NEW gs, Rows(gs), NEW us, Ledger(us), NEW y, Way(gs, us, y), NEW p \in Int
    PROVE  \A i \in DOMAIN gs :
              Rest(gs, us, y, p)[i] \in Nat /\ (p < gs[i].at => Rest(gs, us, y, p)[i] = gs[i].credits)
  <1> SUFFICES ASSUME NEW i \in DOMAIN gs
               PROVE  Rest(gs, us, y, p)[i] \in Nat /\ (p < gs[i].at => Rest(gs, us, y, p)[i] = gs[i].credits)
    OBVIOUS
  <1>1. PICK c : c = Column(us, y, i)
    OBVIOUS
  <1>2. \A t \in DOMAIN us : c[t] = y[t][i] /\ c[t] \in Int /\ c[t] >= 0 /\ t \in Int
    BY <1>1 DEF Column, Way, Ledger
  <1>3. Total(DOMAIN us, c) <= gs[i].credits /\ gs[i].credits \in Int /\ gs[i].at \in Nat
    BY <1>1 DEF Way, Rows
  <1>4. Past(us, p) \in SUBSET DOMAIN us /\ IsFiniteSet(DOMAIN us)
    BY PastIs
  <1>5. Total(Past(us, p), c) \in Int /\ Total(Past(us, p), c) <= Total(DOMAIN us, c) /\ Total(DOMAIN us, c) \in Int
    BY <1>2, <1>4, PartOfTotal
  <1>6. Rest(gs, us, y, p)[i] = gs[i].credits - Total(Past(us, p), c)
    BY <1>1 DEF Rest
  <1>7. Rest(gs, us, y, p)[i] \in Nat
    BY <1>3, <1>5, <1>6
  <1>8. ASSUME p < gs[i].at PROVE Rest(gs, us, y, p)[i] = gs[i].credits
    <2>1. ASSUME NEW t \in Past(us, p) PROVE y[t][i] = 0
      <3>1. t \in DOMAIN us /\ t <= p /\ t \in Int
        BY <1>2, <2>1 DEF Past
      <3>2. ~(gs[i].at <= t)
        BY <1>3, <1>8, <3>1
      <3> QED
        BY <3>1, <3>2 DEF Way
    <2> QED
      BY <2>1, RestAll
  <1> QED
    BY <1>7, <1>8
------------------------------------------------------------------------------
(* The account pays in a way of its own. *)

\* No row takes credits back.
Gives(gs) == \A i \in DOMAIN gs : gs[i].credits > 0

\* The grants that came by p and lapse by e.
Due(gs, p, e) == {i \in DOMAIN gs : gs[i].at <= p /\ ExpiresAt(gs[i]) <= e}

\* With nothing owed, what has come and has not lapsed has left what r says, and the rest of it lapsed.
Holds(gs, st, r, p) ==
    /\ st \in Standing(gs) /\ Covered(st) /\ st.debt = 0
    /\ st.active = {i \in DOMAIN gs : gs[i].at <= p /\ p < ExpiresAt(gs[i])}
    /\ \A i \in st.active : st.left[i] = r[i]
    /\ \A i \in DOMAIN gs : r[i] \in Nat /\ (p < gs[i].at => r[i] = gs[i].credits)
    /\ st.lapsed = Total(Due(gs, p, p), r)

LEMMA HoldsNothing ==
    ASSUME NEW gs, Rows(gs), Gives(gs), NEW r, \A i \in DOMAIN gs : r[i] = gs[i].credits
    PROVE  Holds(gs, Nothing(gs), r, -1)
  <1>1. Nothing(gs) \in Standing(gs) /\ Covered(Nothing(gs)) /\ Nothing(gs).active = {}
    BY NothingStands
  <1>2. Nothing(gs).debt = 0 /\ Nothing(gs).lapsed = 0
    BY DEF Nothing
  <1>3. \A i \in DOMAIN gs : r[i] \in Nat /\ ~(gs[i].at <= -1)
    BY DEF Rows, Gives
  <1>4. Due(gs, -1, -1) = {} /\ {i \in DOMAIN gs : gs[i].at <= -1 /\ -1 < ExpiresAt(gs[i])} = {}
    BY <1>3 DEF Due
  <1>5. Total(Due(gs, -1, -1), r) = 0
    BY <1>4, TotalOfNone
  <1> QED
    BY <1>1, <1>2, <1>3, <1>4, <1>5 DEF Holds

\* A grant that comes when nothing is owed keeps all its credits.
LEMMA ArriveFree ==
    ASSUME NEW gs, Rows(gs), Gives(gs), NEW st \in Standing(gs), st.debt = 0, NEW n \in DOMAIN gs
    PROVE  /\ Arrive(gs, st, n) \in Standing(gs) /\ Arrive(gs, st, n).debt = 0 /\ Arrive(gs, st, n).lapsed = st.lapsed
           /\ Arrive(gs, st, n).active = st.active \cup {n}
           /\ \A i \in DOMAIN gs : Arrive(gs, st, n).left[i] = IF i = n THEN gs[n].credits ELSE st.left[i]
  <1>1. gs[n].credits \in Int /\ gs[n].credits > 0
    BY DEF Rows, Gives
  <1>2. Arrive(gs, st, n) \in Standing(gs) /\ Arrive(gs, st, n) = Paid(gs, st, n)
    BY <1>1, ArriveParts
  <1>3. Pays(gs, st, n) = 0
    BY <1>1 DEF Pays, Least
  <1>4. gs[n].credits - Pays(gs, st, n) = gs[n].credits /\ st.debt - Pays(gs, st, n) = 0
    BY <1>1, <1>3
  <1>5. Paid(gs, st, n) = [left |-> [st.left EXCEPT ![n] = gs[n].credits], active |-> st.active \cup {n}, debt |-> 0, lapsed |-> st.lapsed]
    BY <1>4 DEF Paid
  <1>6. st.left \in [DOMAIN gs -> Int]
    BY StandingParts
  <1> QED
    BY <1>2, <1>5, <1>6

LEMMA ComeFree ==
    ASSUME NEW gs, Rows(gs), Gives(gs), NEW st \in Standing(gs), st.debt = 0, NEW last, NEW point
    PROVE  LET c == Come(gs, st, last, point)
           IN  /\ c \in Standing(gs) /\ c.debt = 0 /\ c.lapsed = st.lapsed
               /\ c.active = st.active \cup Came(gs, last, point)
               /\ \A i \in DOMAIN gs : c.left[i] = IF i \in Came(gs, last, point) THEN gs[i].credits ELSE st.left[i]
  <1>1. PICK came : came = Came(gs, last, point)
    OBVIOUS
  <1>2. PICK g : Come(gs, st, last, point) = g[Len(gs)] /\ CameBy(gs, st, came, g)
    BY <1>1, ComeIs
  <1>3. g[0] = st /\ \A n \in 1..Len(gs) : g[n] = IF n \in came THEN Arrive(gs, g[n - 1], n) ELSE g[n - 1]
    BY <1>2 DEF CameBy
  <1>4. came \in SUBSET DOMAIN gs /\ DOMAIN gs = 1..Len(gs) /\ Len(gs) \in Nat
    BY <1>1 DEF Came, Rows
  <1> DEFINE Free(n) == /\ g[n] \in Standing(gs) /\ g[n].debt = 0 /\ g[n].lapsed = st.lapsed
                        /\ g[n].active = st.active \cup {i \in came : i <= n}
                        /\ \A i \in DOMAIN gs : g[n].left[i] = IF i \in came /\ i <= n THEN gs[i].credits ELSE st.left[i]
             H == {n \in Nat : n <= Len(gs) => Free(n)}
  <1>5. 0 \in H
    <2>1. {i \in came : i <= 0} = {} /\ \A i \in DOMAIN gs : ~(i <= 0)
      BY <1>4
    <2> QED
      BY <1>3, <2>1
  <1>6. ASSUME NEW n \in Nat, n \in H PROVE n + 1 \in H
    <2> SUFFICES ASSUME n + 1 <= Len(gs) PROVE Free(n + 1)
      OBVIOUS
    <2>1. n <= Len(gs) /\ n + 1 \in DOMAIN gs /\ (n + 1) - 1 = n
      BY <1>4
    <2>2. Free(n)
      BY <1>6, <2>1
    <2>3. \A i \in DOMAIN gs : i <= n + 1 <=> (i <= n \/ i = n + 1)
      BY <1>4
    <2>4. ~(n + 1 <= n)
      OBVIOUS
    <2>5. CASE n + 1 \in came
      <3>1. g[n + 1] = Arrive(gs, g[n], n + 1)
        BY <1>3, <1>4, <2>1, <2>5
      <3>2. /\ g[n + 1] \in Standing(gs) /\ g[n + 1].debt = 0 /\ g[n + 1].lapsed = g[n].lapsed
            /\ g[n + 1].active = g[n].active \cup {n + 1}
            /\ \A i \in DOMAIN gs : g[n + 1].left[i] = IF i = n + 1 THEN gs[n + 1].credits ELSE g[n].left[i]
        BY <2>1, <2>2, <3>1, ArriveFree
      <3>3. {i \in came : i <= n + 1} = {i \in came : i <= n} \cup {n + 1}
        BY <1>4, <2>3, <2>5
      <3>4. g[n + 1].active = st.active \cup {i \in came : i <= n + 1}
        BY <2>2, <3>2, <3>3
      <3>5. \A i \in DOMAIN gs : g[n + 1].left[i] = IF i \in came /\ i <= n + 1 THEN gs[i].credits ELSE st.left[i]
        BY <2>2, <2>3, <2>4, <2>5, <3>2
      <3> QED
        BY <2>2, <3>2, <3>4, <3>5
    <2>6. CASE n + 1 \notin came
      <3>1. g[n + 1] = g[n]
        BY <1>3, <1>4, <2>1, <2>6
      <3>2. {i \in came : i <= n + 1} = {i \in came : i <= n}
        BY <1>4, <2>3, <2>6
      <3>3. \A i \in DOMAIN gs : i \in came /\ i <= n + 1 <=> i \in came /\ i <= n
        BY <2>3, <2>6
      <3> QED
        BY <2>2, <3>1, <3>2, <3>3
    <2> QED
      BY <2>5, <2>6
  <1>7. Len(gs) \in H
    <2> HIDE DEF H
    <2>1. Nat \subseteq H
      BY <1>5, <1>6, Counting
    <2> QED
      BY <1>4, <2>1
  <1>8. Free(Len(gs))
    BY <1>4, <1>7
  <1>9. {i \in came : i <= Len(gs)} = came /\ \A i \in DOMAIN gs : i <= Len(gs)
    BY <1>4
  <1> QED
    BY <1>1, <1>2, <1>8, <1>9

\* What comes and lapses before the spending of a month leaves the same of each grant.
LEMMA HoldsReady ==
    ASSUME NEW gs, Rows(gs), Gives(gs), NEW st, NEW r, NEW last \in Int, NEW q \in Int, last < q, Holds(gs, st, r, last)
    PROVE  Holds(gs, Ready(gs, st, last, q), r, q)
  <1>0. /\ st \in Standing(gs) /\ Covered(st) /\ st.debt = 0
        /\ st.active = {i \in DOMAIN gs : gs[i].at <= last /\ last < ExpiresAt(gs[i])}
        /\ (\A i \in st.active : st.left[i] = r[i])
        /\ (\A i \in DOMAIN gs : r[i] \in Nat /\ (last < gs[i].at => r[i] = gs[i].credits))
        /\ st.lapsed = Total(Due(gs, last, last), r)
    BY DEF Holds
  <1>1. PICK came, c, d, gone : /\ came = Came(gs, last, q) /\ c = Come(gs, st, last, q) /\ d = Lapse(gs, c, q)
                                /\ gone = Gone(gs, c, q)
    OBVIOUS
  <1>2. /\ c \in Standing(gs) /\ c.debt = 0 /\ c.lapsed = st.lapsed /\ c.active = st.active \cup came
        /\ \A i \in DOMAIN gs : c.left[i] = IF i \in came THEN gs[i].credits ELSE st.left[i]
    BY <1>0, <1>1, ComeFree
  <1>3. \A i \in DOMAIN gs : gs[i].at \in Nat /\ ExpiresAt(gs[i]) \in Nat
    BY LapseTimes DEF Rows
  <1>4. came = {i \in DOMAIN gs : last < gs[i].at /\ gs[i].at <= q}
    BY <1>1 DEF Came
  <1>5. Covered(c)
    <2>1. \A i \in st.active : gs[i].at <= last
      BY <1>0
    <2>2. last <= q
      OBVIOUS
    <2> QED
      BY <1>0, <1>1, <2>1, <2>2, ComeKeeps
  <1>6. \A i \in c.active : c.left[i] = r[i] /\ i \in DOMAIN gs
    <2>1. \A i \in came : r[i] = gs[i].credits /\ i \in DOMAIN gs
      BY <1>0, <1>4
    <2>2. \A i \in st.active : i \notin came /\ i \in DOMAIN gs
      BY <1>0, <1>3, <1>4
    <2> QED
      BY <1>0, <1>2, <2>1, <2>2
  <1>7. /\ d \in Standing(gs) /\ Covered(d) /\ d.active = {i \in c.active : q < ExpiresAt(gs[i])} /\ d.debt = 0
        /\ d.lapsed = c.lapsed + Total(gone, c.left)
        /\ \A i \in DOMAIN gs : d.left[i] = IF i \in gone THEN 0 ELSE c.left[i]
    <2>1. /\ Lapse(gs, c, q) \in Standing(gs) /\ Covered(Lapse(gs, c, q))
          /\ Lapse(gs, c, q).active = {i \in c.active : q < ExpiresAt(gs[i])}
      BY <1>2, <1>5, LapseKeeps
    <2>2. /\ Lapse(gs, c, q).debt = c.debt /\ Lapse(gs, c, q).lapsed = c.lapsed + Total(Gone(gs, c, q), c.left)
          /\ \A i \in DOMAIN gs : Lapse(gs, c, q).left[i] = IF i \in Gone(gs, c, q) THEN 0 ELSE c.left[i]
      BY <1>2, LapseParts
    <2> QED
      BY <1>1, <1>2, <2>1, <2>2
  <1>8. d.active = {i \in DOMAIN gs : gs[i].at <= q /\ q < ExpiresAt(gs[i])}
    BY <1>0, <1>2, <1>3, <1>4, <1>7
  <1>9. gone = {i \in c.active : ExpiresAt(gs[i]) <= q}
    BY <1>1 DEF Gone
  <1>10. \A i \in d.active : d.left[i] = r[i]
    <2>1. ASSUME NEW i \in d.active PROVE d.left[i] = r[i]
      <3>1. i \in c.active /\ i \notin gone
        BY <1>3, <1>7, <1>9, <1>6
      <3> QED
        BY <1>6, <1>7, <3>1
    <2> QED
      BY <2>1
  <1>11. d.lapsed = Total(Due(gs, q, q), r)
    <2>1. PICK early, all : early = Due(gs, last, last) /\ all = Due(gs, q, q)
      OBVIOUS
    <2>2. all = early \cup gone /\ early \cap gone = {} /\ all \in SUBSET DOMAIN gs /\ gone \in SUBSET DOMAIN gs
      <3>1. \A i \in DOMAIN gs : i \in early <=> gs[i].at <= last /\ ExpiresAt(gs[i]) <= last
        BY <2>1 DEF Due
      <3>2. \A i \in DOMAIN gs : i \in all <=> gs[i].at <= q /\ ExpiresAt(gs[i]) <= q
        BY <2>1 DEF Due
      <3>3. \A i \in DOMAIN gs : i \in gone <=> ((gs[i].at <= last /\ last < ExpiresAt(gs[i])) \/ (last < gs[i].at /\ gs[i].at <= q))
                                               /\ ExpiresAt(gs[i]) <= q
        BY <1>0, <1>2, <1>4, <1>9
      <3>4. early \in SUBSET DOMAIN gs /\ all \in SUBSET DOMAIN gs /\ gone \in SUBSET DOMAIN gs
        BY <1>6, <1>9, <2>1 DEF Due
      <3>5. \A i \in DOMAIN gs : (i \in all <=> i \in early \/ i \in gone) /\ ~(i \in early /\ i \in gone)
        BY <1>3, <3>1, <3>2, <3>3
      <3> QED
        BY <3>4, <3>5
    <2>3. IsFiniteSet(all) /\ IsFiniteSet(gone)
      BY <2>2, RowNumbers
    <2>4. \A i \in all : r[i] \in Int
      BY <1>0, <2>2
    <2>5. Total(all, r) = Total(early, r) + Total(gone, r)
      BY <2>2, <2>3, <2>4, TotalOfBoth
    <2>6. Total(gone, c.left) = Total(gone, r)
      <3>1. \A i \in gone : c.left[i] \in Int /\ c.left[i] = r[i]
        BY <1>0, <1>6, <1>9, <2>2
      <3> QED
        BY <2>3, <3>1, TotalSame
    <2> QED
      BY <1>0, <1>2, <1>7, <2>1, <2>5, <2>6
  <1>12. \A i \in DOMAIN gs : r[i] \in Nat /\ (q < gs[i].at => r[i] = gs[i].credits)
    BY <1>0, <1>3
  <1>13. Ready(gs, st, last, q) = d
    BY <1>1 DEF Ready
  <1> QED
    BY <1>7, <1>8, <1>10, <1>11, <1>12, <1>13 DEF Holds

\* What the active grants pay when they have enough: all of the amount, the first to lapse first.
LEMMA PaysInFull ==
    ASSUME NEW gs, Rows(gs), NEW st \in Standing(gs), Covered(st), NEW a \in Nat, a <= Total(st.active, st.left)
    PROVE  /\ Total(DOMAIN gs, Took(gs, st, a)) = a /\ Total(st.active, Took(gs, st, a)) = a
           /\ \A i \in DOMAIN gs : Took(gs, st, a)[i] \in Nat /\ (i \notin st.active => Took(gs, st, a)[i] = 0)
  <1>1. PICK took : took = Took(gs, st, a)
    OBVIOUS
  <1>2. /\ st.left \in [DOMAIN gs -> Int] /\ st.active \in SUBSET DOMAIN gs
        /\ \A S \in SUBSET DOMAIN gs : Total(S, st.left) \in Int
    BY StandingParts
  <1>3. took \in [DOMAIN gs -> Int] /\ \A i \in DOMAIN gs \ st.active : took[i] = 0
    <2>1. a \in Int
      OBVIOUS
    <2> QED
      BY <1>1, <2>1, TookTypes
  <1>4. ASSUME NEW i \in st.active PROVE took[i] \in Nat
    <2>1. PICK rest : rest = a - Total(Before(gs, st, i), st.left)
      OBVIOUS
    <2>2. Before(gs, st, i) \in SUBSET DOMAIN gs
      BY <1>2 DEF Before
    <2>3. rest \in Int
      BY <1>2, <2>1, <2>2
    <2>4. took[i] = IF rest <= 0 THEN 0 ELSE Least(rest, st.left[i])
      BY <1>1, <2>1, TookOf
    <2>5. st.left[i] \in Int /\ st.left[i] >= 0
      BY <1>2 DEF Covered
    <2> QED
      BY <2>3, <2>4, <2>5 DEF Least
  <1>5. Total(st.active, took) = a
    <2>1. st.active \in SUBSET st.active /\ Closed(gs, st, st.active)
      BY DEF Closed
    <2>2. Total(st.active, took) = Least(a, Total(st.active, st.left))
      BY <1>1, <2>1, FirstGive
    <2>3. Total(st.active, st.left) \in Int
      BY <1>2
    <2> QED
      BY <2>2, <2>3 DEF Least
  <1>6. Total(DOMAIN gs, took) = Total(st.active, took)
    <2>1. \A i \in DOMAIN gs : took[i] \in Int
      BY <1>3
    <2>2. \A i \in DOMAIN gs \ st.active : took[i] = 0
      BY <1>3
    <2> QED
      BY <1>2, <2>1, <2>2, RowNumbers, TotalInPart
  <1> QED
    BY <1>1, <1>3, <1>4, <1>5, <1>6

\* The credits of some grants, less what they pay.
LEMMA TotalPaid ==
    ASSUME NEW gs, Rows(gs), NEW r, NEW y, NEW s,
           \A i \in DOMAIN gs : r[i] \in Int /\ y[i] \in Int /\ s[i] = r[i] - y[i]
    PROVE  \A S \in SUBSET DOMAIN gs :
              Total(S, r) \in Int /\ Total(S, y) \in Int /\ Total(S, s) \in Int /\ Total(S, s) = Total(S, r) - Total(S, y)
  <1> SUFFICES ASSUME NEW S \in SUBSET DOMAIN gs
               PROVE  Total(S, r) \in Int /\ Total(S, y) \in Int /\ Total(S, s) \in Int /\ Total(S, s) = Total(S, r) - Total(S, y)
    OBVIOUS
  <1>1. IsFiniteSet(S)
    BY RowNumbers
  <1>2. \A i \in S : s[i] \in Int /\ y[i] \in Int /\ r[i] \in Int /\ r[i] = s[i] + y[i]
    OBVIOUS
  <1>3. Total(S, r) \in Int /\ Total(S, y) \in Int /\ Total(S, s) \in Int
    BY <1>1, <1>2, TotalTypes
  <1>4. Total(S, r) = Total(S, s) + Total(S, y)
    BY <1>1, <1>2, TotalOfSum
  <1> QED
    BY <1>3, <1>4

\* So after they paid, each has left what it had less what it paid.
LEMMA HoldsTake ==
    ASSUME NEW gs, Rows(gs), NEW d, NEW r, NEW q \in Int, Holds(gs, d, r, q), NEW a \in Nat, a <= Total(d.active, d.left),
           NEW s, \A i \in DOMAIN gs : s[i] = r[i] - Took(gs, d, a)[i]
    PROVE  Holds(gs, Take(gs, d, a), s, q)
  <1>0. /\ d \in Standing(gs) /\ Covered(d) /\ d.debt = 0
        /\ d.active = {i \in DOMAIN gs : gs[i].at <= q /\ q < ExpiresAt(gs[i])}
        /\ (\A i \in d.active : d.left[i] = r[i])
        /\ (\A i \in DOMAIN gs : r[i] \in Nat /\ (q < gs[i].at => r[i] = gs[i].credits))
        /\ d.lapsed = Total(Due(gs, q, q), r)
    BY DEF Holds
  <1>1. PICK took, t : took = Took(gs, d, a) /\ t = Take(gs, d, a)
    OBVIOUS
  <1>2. /\ Total(d.active, took) = a
        /\ \A i \in DOMAIN gs : took[i] \in Nat /\ (i \notin d.active => took[i] = 0)
    <2>1. d \in Standing(gs) /\ Covered(d)
      BY <1>0
    <2>2. /\ Total(d.active, Took(gs, d, a)) = a
          /\ \A i \in DOMAIN gs : Took(gs, d, a)[i] \in Nat /\ (i \notin d.active => Took(gs, d, a)[i] = 0)
      BY <2>1, PaysInFull
    <2> QED
      BY <1>1, <2>2
  <1>3. /\ t \in Standing(gs) /\ t.lapsed = d.lapsed /\ t.active = d.active /\ t.debt = d.debt + a - Total(d.active, took)
        /\ \A i \in DOMAIN gs : t.left[i] = d.left[i] - took[i]
    <2>1. a \in Int /\ d \in Standing(gs)
      BY <1>0
    <2>2. /\ Take(gs, d, a) \in Standing(gs) /\ Take(gs, d, a).lapsed = d.lapsed /\ Take(gs, d, a).active = d.active
          /\ Take(gs, d, a).debt = d.debt + a - Total(d.active, Took(gs, d, a))
          /\ \A i \in DOMAIN gs : Take(gs, d, a).left[i] = d.left[i] - Took(gs, d, a)[i]
      BY <2>1, TakeDebt
    <2> QED
      BY <1>1, <2>2
  <1>4. Covered(t)
    BY <1>0, <1>1, TakeCovered
  <1>5. t.debt = 0
    BY <1>0, <1>2, <1>3
  <1>6. \A i \in t.active : t.left[i] = s[i] /\ s[i] \in Nat
    <2>1. ASSUME NEW i \in t.active PROVE t.left[i] = s[i] /\ s[i] \in Nat
      <3>1. i \in DOMAIN gs /\ d.left[i] = r[i] /\ r[i] \in Nat /\ took[i] \in Nat /\ t.left[i] = d.left[i] - took[i]
        BY <1>0, <1>2, <1>3
      <3>2. DOMAIN t.left = DOMAIN gs
        BY <1>3, StandingParts
      <3>3. t.left[i] >= 0
        BY <1>4, <3>1, <3>2 DEF Covered
      <3> QED
        BY <1>1, <3>1, <3>3
    <2> QED
      BY <2>1
  <1>7. \A i \in DOMAIN gs \ d.active : s[i] = r[i]
    BY <1>0, <1>1, <1>2
  <1>8. \A i \in DOMAIN gs : s[i] \in Nat /\ (q < gs[i].at => s[i] = gs[i].credits)
    <2>1. ASSUME NEW i \in DOMAIN gs PROVE s[i] \in Nat /\ (q < gs[i].at => s[i] = gs[i].credits)
      <3>1. CASE i \in d.active
        <4>1. ~(q < gs[i].at)
          BY <1>0, <3>1 DEF Rows
        <4> QED
          BY <1>3, <1>6, <3>1, <4>1
      <3>2. CASE i \notin d.active
        BY <1>0, <1>7, <3>2
      <3> QED
        BY <3>1, <3>2
    <2> QED
      BY <2>1
  <1>9. t.lapsed = Total(Due(gs, q, q), s)
    <2>1. PICK due : due = Due(gs, q, q)
      OBVIOUS
    <2>2. \A i \in due : i \in DOMAIN gs /\ i \notin d.active
      BY <1>0, <2>1, LapseTimes DEF Due
    <2>3. due \in SUBSET DOMAIN gs
      BY <2>2
    <2>4. IsFiniteSet(due) /\ \A i \in due : r[i] \in Int /\ r[i] = s[i]
      BY <1>0, <1>7, <2>2, <2>3, RowNumbers
    <2>5. Total(due, r) = Total(due, s)
      BY <2>4, TotalSame
    <2> QED
      BY <1>0, <1>3, <2>1, <2>5
  <1> QED
    BY <1>0, <1>1, <1>3, <1>4, <1>5, <1>6, <1>8, <1>9 DEF Holds
------------------------------------------------------------------------------
(* It keeps ahead of any other way. *)

\* Whatever the time e, what has lapsed and will have lapsed by then is no more in g than in r, of as much in all.
Ahead(gs, g, r, p) ==
    /\ \A e \in Int : p <= e => Total(Due(gs, p, e), g) <= Total(Due(gs, p, e), r)
    /\ Total(CameUntil(gs, p), g) = Total(CameUntil(gs, p), r)

LEMMA AheadAtFirst ==
    ASSUME NEW gs, Rows(gs), NEW g, NEW r
    PROVE  Ahead(gs, g, r, -1)
  <1>1. \A i \in DOMAIN gs : ~(gs[i].at <= -1)
    BY DEF Rows
  <1>2. CameUntil(gs, -1) = {} /\ \A e : Due(gs, -1, e) = {}
    BY <1>1 DEF CameUntil, Due
  <1>3. Total({}, g) = 0 /\ Total({}, r) = 0
    BY TotalOfNone
  <1> QED
    BY <1>2, <1>3 DEF Ahead

\* What comes adds the same to both.
LEMMA AheadReady ==
    ASSUME NEW gs, Rows(gs), NEW g, NEW r, NEW last \in Int, NEW q \in Int, last < q, Ahead(gs, g, r, last),
           \A i \in DOMAIN gs : g[i] \in Nat /\ r[i] \in Nat /\ (last < gs[i].at => g[i] = r[i])
    PROVE  Ahead(gs, g, r, q)
  <1>1. ASSUME NEW A \in SUBSET DOMAIN gs, NEW B \in SUBSET DOMAIN gs, NEW C \in SUBSET DOMAIN gs,
               A = B \cup C, B \cap C = {}, \A i \in C : last < gs[i].at
        PROVE  \E n \in Int : /\ Total(A, g) = Total(B, g) + n /\ Total(A, r) = Total(B, r) + n
                              /\ Total(B, g) \in Int /\ Total(B, r) \in Int
    <2>1. IsFiniteSet(A) /\ IsFiniteSet(C)
      BY RowNumbers
    <2>2. (\A i \in A : g[i] \in Int) /\ (\A i \in A : r[i] \in Int) /\ (\A i \in C : g[i] \in Int /\ g[i] = r[i])
      BY <1>1
    <2>3. Total(A, g) = Total(B, g) + Total(C, g) /\ Total(B, g) \in Int /\ Total(C, g) \in Int
      BY <1>1, <2>1, <2>2, TotalOfBoth
    <2>4. Total(A, r) = Total(B, r) + Total(C, r) /\ Total(B, r) \in Int
      BY <1>1, <2>1, <2>2, TotalOfBoth
    <2>5. Total(C, g) = Total(C, r)
      BY <2>1, <2>2, TotalSame
    <2> QED
      BY <2>3, <2>4, <2>5
  <1>2. \A i \in DOMAIN gs : gs[i].at \in Int
    BY DEF Rows
  <1>3. ASSUME NEW e \in Int, q <= e PROVE Total(Due(gs, q, e), g) <= Total(Due(gs, q, e), r)
    <2>1. PICK A, B, C : A = Due(gs, q, e) /\ B = Due(gs, last, e) /\ C = {i \in A : last < gs[i].at}
      OBVIOUS
    <2>2. A = B \cup C /\ B \cap C = {} /\ A \in SUBSET DOMAIN gs /\ B \in SUBSET DOMAIN gs /\ C \in SUBSET DOMAIN gs
      BY <1>2, <2>1 DEF Due
    <2>3. \A i \in C : last < gs[i].at
      BY <2>1
    <2>4. PICK n \in Int : /\ Total(A, g) = Total(B, g) + n /\ Total(A, r) = Total(B, r) + n
                           /\ Total(B, g) \in Int /\ Total(B, r) \in Int
      BY <1>1, <2>2, <2>3
    <2>5. Total(B, g) <= Total(B, r)
      <3>1. last <= e
        BY <1>3
      <3> QED
        BY <2>1, <3>1 DEF Ahead
    <2> QED
      BY <2>1, <2>4, <2>5
  <1>4. Total(CameUntil(gs, q), g) = Total(CameUntil(gs, q), r)
    <2>1. PICK A, B, C : A = CameUntil(gs, q) /\ B = CameUntil(gs, last) /\ C = {i \in A : last < gs[i].at}
      OBVIOUS
    <2>2. A = B \cup C /\ B \cap C = {} /\ A \in SUBSET DOMAIN gs /\ B \in SUBSET DOMAIN gs /\ C \in SUBSET DOMAIN gs
      BY <1>2, <2>1 DEF CameUntil
    <2>3. \A i \in C : last < gs[i].at
      BY <2>1
    <2>4. PICK n \in Int : Total(A, g) = Total(B, g) + n /\ Total(A, r) = Total(B, r) + n
      BY <1>1, <2>2, <2>3
    <2>5. Total(B, g) = Total(B, r)
      BY <2>1 DEF Ahead
    <2> QED
      BY <2>1, <2>4, <2>5
  <1> QED
    BY <1>3, <1>4 DEF Ahead

\* What is left of each grant once it paid.
Off(gs, r, y, s) == \A i \in DOMAIN gs : r[i] \in Nat /\ y[i] \in Nat /\ s[i] \in Nat /\ s[i] = r[i] - y[i]
PaysWhen(gs, y, q) == \A i \in DOMAIN gs : y[i] = 0 \/ (gs[i].at <= q /\ q < ExpiresAt(gs[i]))

\* Some grants of a way, less what they pay: no less than nothing, and no more than all that is paid.
LEMMA DueLess ==
    ASSUME NEW gs, Rows(gs), NEW r, NEW y, NEW s, Off(gs, r, y, s)
    PROVE  \A S \in SUBSET DOMAIN gs :
              /\ Total(S, r) \in Int /\ Total(S, y) \in Int /\ Total(S, s) \in Int /\ Total(DOMAIN gs, y) \in Int
              /\ Total(S, s) = Total(S, r) - Total(S, y) /\ Total(S, y) <= Total(DOMAIN gs, y) /\ Total(S, s) >= 0
  <1> SUFFICES ASSUME NEW S \in SUBSET DOMAIN gs
               PROVE  /\ Total(S, r) \in Int /\ Total(S, y) \in Int /\ Total(S, s) \in Int /\ Total(DOMAIN gs, y) \in Int
                      /\ Total(S, s) = Total(S, r) - Total(S, y) /\ Total(S, y) <= Total(DOMAIN gs, y) /\ Total(S, s) >= 0
    BY Zenon
  <1>1. \A i \in DOMAIN gs : r[i] \in Int /\ y[i] \in Int /\ s[i] = r[i] - y[i]
    BY DEF Off
  <1>2. Total(S, r) \in Int /\ Total(S, y) \in Int /\ Total(S, s) \in Int /\ Total(S, s) = Total(S, r) - Total(S, y)
    BY <1>1, TotalPaid
  <1>3. IsFiniteSet(DOMAIN gs) /\ IsFiniteSet(S)
    BY RowNumbers
  <1>4. Total(S, y) <= Total(DOMAIN gs, y) /\ Total(DOMAIN gs, y) \in Int
    <2>1. \A i \in DOMAIN gs : y[i] \in Int /\ y[i] >= 0
      BY DEF Off
    <2> QED
      BY <1>3, <2>1, PartOfTotal
  <1>5. Total(S, s) >= 0
    <2>1. \A i \in S : s[i] \in Int /\ s[i] >= 0
      BY DEF Off
    <2> QED
      BY <1>3, <2>1, TotalAtLeast
  <1> QED
    BY <1>2, <1>4, <1>5

LEMMA RowTimes == ASSUME NEW gs, Rows(gs) PROVE \A i \in DOMAIN gs : gs[i].at \in Int /\ ExpiresAt(gs[i]) \in Int
  BY LapseTimes DEF Rows

\* A total over two parts.
Parted(U, S, T) == U = S \cup T /\ S \cap T = {}
LEMMA TotalOfTwo ==
    ASSUME NEW gs, Rows(gs), NEW f, \A i \in DOMAIN gs : f[i] \in Int
    PROVE  \A U \in SUBSET DOMAIN gs : \A S, T : Parted(U, S, T) =>
              Total(U, f) = Total(S, f) + Total(T, f) /\ Total(S, f) \in Int /\ Total(T, f) \in Int
  <1> SUFFICES ASSUME NEW U \in SUBSET DOMAIN gs, NEW S, NEW T, Parted(U, S, T)
               PROVE  Total(U, f) = Total(S, f) + Total(T, f) /\ Total(S, f) \in Int /\ Total(T, f) \in Int
    BY Zenon
  <1>1. IsFiniteSet(U) /\ \A i \in U : f[i] \in Int
    BY RowNumbers
  <1>2. U = S \cup T /\ S \cap T = {}
    BY DEF Parted
  <1> QED
    BY <1>1, <1>2, TotalOfBoth

\* What another way pays in a month, the account can pay, from what lapses first: it stays ahead.
LEMMA AheadTake ==
    ASSUME NEW gs, Rows(gs), NEW d, NEW g, NEW q \in Int, Holds(gs, d, g, q), NEW a \in Nat,
           NEW r, Ahead(gs, g, r, q), NEW y, NEW s, Off(gs, r, y, s), PaysWhen(gs, y, q), Total(DOMAIN gs, y) = a
    PROVE  /\ a <= Total(d.active, d.left)
           /\ \A h : (\A i \in DOMAIN gs : h[i] = g[i] - Took(gs, d, a)[i]) => Ahead(gs, h, s, q)
  <1>0. /\ d \in Standing(gs) /\ Covered(d)
        /\ d.active = {i \in DOMAIN gs : gs[i].at <= q /\ q < ExpiresAt(gs[i])}
        /\ (\A i \in d.active : d.left[i] = g[i])
        /\ (\A i \in DOMAIN gs : g[i] \in Nat)
    BY DEF Holds
  <1>1. \A i \in DOMAIN gs : gs[i].at \in Int /\ ExpiresAt(gs[i]) \in Int
    BY RowTimes
  <1>2. PICK A, came, low : A = d.active /\ came = CameUntil(gs, q) /\ low = Due(gs, q, q)
    OBVIOUS
  <1>3. /\ came = low \cup A /\ low \cap A = {}
        /\ came \in SUBSET DOMAIN gs /\ low \in SUBSET DOMAIN gs /\ A \in SUBSET DOMAIN gs
    BY <1>0, <1>1, <1>2 DEF CameUntil, Due
  <1>4. came \in SUBSET DOMAIN gs /\ Parted(came, low, A)
    BY <1>3 DEF Parted
  <1>5. (\A i \in DOMAIN gs : g[i] \in Int) /\ (\A i \in DOMAIN gs : r[i] \in Int) /\ (\A i \in DOMAIN gs : y[i] \in Int)
        /\ (\A i \in DOMAIN gs : s[i] \in Int)
    BY <1>0 DEF Off
  <1>a. \A i \in DOMAIN gs : g[i] \in Int
    BY <1>5
  <1>b. \A i \in DOMAIN gs : r[i] \in Int
    BY <1>5
  <1>6. Total(low, g) <= Total(low, r) /\ Total(came, g) = Total(came, r)
    <2>1. q <= q
      OBVIOUS
    <2> QED
      BY <1>2, <2>1 DEF Ahead
  <1>7. Total(A, d.left) = Total(A, g) /\ Total(A, g) \in Int
    <2>1. IsFiniteSet(A) /\ \A i \in A : d.left[i] = g[i] /\ d.left[i] \in Int
      BY <1>0, <1>2, <1>3, <1>5, RowNumbers
    <2> QED
      BY <2>1, TotalSame, TotalTypes
  <1>8. Total(A, y) = a
    <2>1. \A i \in DOMAIN gs \ A : y[i] = 0
      BY <1>0, <1>2 DEF PaysWhen
    <2>2. Total(DOMAIN gs, y) = Total(A, y)
      BY <1>3, <1>5, <2>1, RowNumbers, TotalInPart
    <2> QED
      BY <2>2
  <1>9. a <= Total(A, d.left)
    <2>1. Total(came, g) = Total(low, g) + Total(A, g) /\ Total(low, g) \in Int
      <3>1. \A U \in SUBSET DOMAIN gs : \A S, T : Parted(U, S, T) =>
               Total(U, g) = Total(S, g) + Total(T, g) /\ Total(S, g) \in Int /\ Total(T, g) \in Int
        BY <1>a, TotalOfTwo
      <3>2. came \in SUBSET DOMAIN gs
        BY <1>4
      <3>3. Parted(came, low, A)
        BY <1>4
      <3>4. \A S, T : Parted(came, S, T) =>
               Total(came, g) = Total(S, g) + Total(T, g) /\ Total(S, g) \in Int /\ Total(T, g) \in Int
        BY <3>1, <3>2
      <3> QED
        BY <3>3, <3>4
    <2>2. Total(came, r) = Total(low, r) + Total(A, r) /\ Total(low, r) \in Int /\ Total(A, r) \in Int
      BY <1>4, <1>b, TotalOfTwo
    <2>3. Total(A, s) = Total(A, r) - Total(A, y) /\ Total(A, s) >= 0 /\ Total(A, s) \in Int
      BY <1>3, DueLess
    <2>4. PICK lg, ag, lr, ar, as : lg = Total(low, g) /\ ag = Total(A, g) /\ lr = Total(low, r) /\ ar = Total(A, r) /\ as = Total(A, s)
      OBVIOUS
    <2>5. lg \in Int /\ ag \in Int /\ lr \in Int /\ ar \in Int /\ as \in Int
      BY <1>7, <2>1, <2>2, <2>3, <2>4
    <2>6. lg <= lr /\ lg + ag = lr + ar /\ as = ar - a /\ as >= 0
      BY <1>6, <1>8, <2>1, <2>2, <2>3, <2>4
    <2>7. a <= ag
      BY <2>5, <2>6
    <2> QED
      BY <1>7, <2>4, <2>7
  <1>10. ASSUME NEW h, \A i \in DOMAIN gs : h[i] = g[i] - Took(gs, d, a)[i] PROVE Ahead(gs, h, s, q)
    <2>1. PICK took : took = Took(gs, d, a)
      OBVIOUS
    <2>2. /\ Total(DOMAIN gs, took) = a /\ Total(A, took) = a
          /\ \A i \in DOMAIN gs : took[i] \in Nat /\ (i \notin A => took[i] = 0)
      <3>1. a <= Total(d.active, d.left) /\ d \in Standing(gs) /\ Covered(d)
        BY <1>0, <1>2, <1>9
      <3>2. /\ Total(DOMAIN gs, Took(gs, d, a)) = a /\ Total(d.active, Took(gs, d, a)) = a
            /\ \A i \in DOMAIN gs : Took(gs, d, a)[i] \in Nat /\ (i \notin d.active => Took(gs, d, a)[i] = 0)
        BY <3>1, PaysInFull
      <3> QED
        BY <1>2, <2>1, <3>2
    <2>3. \A S \in SUBSET DOMAIN gs : /\ Total(S, g) \in Int /\ Total(S, took) \in Int
                                      /\ Total(S, h) = Total(S, g) - Total(S, took)
      <3>1. Off(gs, g, took, h)
        <4>1. a <= Total(d.active, d.left)
          BY <1>2, <1>9
        <4>2. Holds(gs, Take(gs, d, a), h, q)
          BY <1>10, <4>1, HoldsTake
        <4>3. \A i \in DOMAIN gs : h[i] \in Nat
          BY <4>2 DEF Holds
        <4> QED
          BY <1>0, <1>10, <2>1, <2>2, <4>3 DEF Off
      <3> QED
        BY <3>1, DueLess
    <2>4. ASSUME NEW e \in Int, q <= e PROVE Total(Due(gs, q, e), h) <= Total(Due(gs, q, e), s)
      <3>1. PICK due, D : due = Due(gs, q, e) /\ D = {i \in A : ExpiresAt(gs[i]) <= e}
        OBVIOUS
      <3>2. /\ due = low \cup D /\ low \cap D = {} /\ due \in SUBSET DOMAIN gs /\ D \in SUBSET A /\ D \in SUBSET DOMAIN gs
        <4>1. \A i \in DOMAIN gs : i \in due <=> i \in low \/ i \in D
          BY <1>0, <1>1, <1>2, <2>4, <3>1 DEF Due
        <4>2. due \in SUBSET DOMAIN gs /\ D \in SUBSET A
          BY <3>1 DEF Due
        <4> QED
          BY <1>3, <4>1, <4>2
      <3>a. due \in SUBSET DOMAIN gs /\ Parted(due, low, D)
        BY <3>2 DEF Parted
      <3>3. Closed(gs, d, D)
        <4>1. ASSUME NEW i \in D, NEW j \in d.active, Sooner(gs, j, i) PROVE j \in D
          <5>1. ExpiresAt(gs[j]) <= ExpiresAt(gs[i]) /\ ExpiresAt(gs[i]) <= e /\ j \in DOMAIN gs /\ i \in DOMAIN gs
            BY <1>1, <1>2, <1>3, <3>1, <3>2, <4>1 DEF Sooner
          <5>2. ExpiresAt(gs[j]) <= e
            BY <1>1, <5>1
          <5> QED
            BY <1>2, <3>1, <5>2
        <4> QED
          BY <4>1 DEF Closed
      <3>4. Total(D, took) = Least(a, Total(D, g))
        <4>1. Total(D, took) = Least(a, Total(D, d.left))
          BY <1>0, <1>2, <2>1, <3>2, <3>3, FirstGive
        <4>2. Total(D, d.left) = Total(D, g)
          <5>1. IsFiniteSet(D) /\ \A i \in D : d.left[i] = g[i] /\ d.left[i] \in Int
            BY <1>0, <1>2, <1>5, <3>2, RowNumbers
          <5> QED
            BY <5>1, TotalSame
        <4> QED
          BY <4>1, <4>2
      <3>5. Total(low, took) = 0
        <4>1. IsFiniteSet(low) /\ \A i \in low : took[i] = 0
          BY <1>3, <2>2, RowNumbers
        <4> QED
          BY <4>1, TotalOfZero
      <3>6. Total(due, g) = Total(low, g) + Total(D, g) /\ Total(low, g) \in Int /\ Total(D, g) \in Int
        BY <1>a, <3>a, TotalOfTwo
      <3>7. Total(due, h) = Total(due, g) - Total(due, took)
        BY <2>3, <3>2
      <3>8. Total(due, took) = Total(low, took) + Total(D, took) /\ Total(D, took) \in Int
        <4>1. \A i \in DOMAIN gs : took[i] \in Int
          BY <2>2
        <4>2. \A U \in SUBSET DOMAIN gs : \A S, T : Parted(U, S, T) =>
                 Total(U, took) = Total(S, took) + Total(T, took) /\ Total(S, took) \in Int /\ Total(T, took) \in Int
          BY <4>1, TotalOfTwo
        <4> QED
          BY <3>a, <4>2
      <3>9. Total(due, g) <= Total(due, r)
        BY <2>4, <3>1 DEF Ahead
      <3>10. /\ Total(due, r) \in Int /\ Total(due, y) \in Int /\ Total(due, s) \in Int
             /\ Total(due, s) = Total(due, r) - Total(due, y) /\ Total(due, y) <= a
        BY <3>2, DueLess
      <3>11. Total(low, r) = Total(low, s) /\ Total(low, s) <= Total(due, s) /\ Total(low, r) \in Int
        <4>1. \A i \in low : y[i] = 0
          BY <1>1, <1>2, <1>3 DEF Due, PaysWhen
        <4>2. IsFiniteSet(low) /\ \A i \in low : r[i] \in Int /\ r[i] = s[i]
          BY <1>3, <1>5, <4>1, RowNumbers DEF Off
        <4>3. Total(low, r) = Total(low, s) /\ Total(low, r) \in Int
          BY <4>2, TotalSame, TotalTypes
        <4>4. IsFiniteSet(due) /\ low \in SUBSET due /\ \A i \in due : s[i] \in Int /\ s[i] >= 0
          BY <3>2, RowNumbers DEF Off
        <4>5. Total(low, s) <= Total(due, s)
          BY <4>4, PartOfTotal
        <4> QED
          BY <4>3, <4>5
      <3>12. CASE a < Total(D, g)
        <4>1. Total(D, took) = a
          BY <3>4, <3>12 DEF Least
        <4> QED
          BY <3>1, <3>5, <3>6, <3>7, <3>8, <3>9, <3>10, <4>1
      <3>13. CASE ~(a < Total(D, g))
        <4>1. Total(D, took) = Total(D, g)
          BY <3>4, <3>13 DEF Least
        <4>2. Total(due, h) = Total(low, g)
          BY <3>5, <3>6, <3>7, <3>8, <4>1
        <4> QED
          BY <1>6, <3>1, <3>6, <3>10, <3>11, <4>2
      <3> QED
        BY <3>12, <3>13
    <2>5. Total(came, h) = Total(came, s)
      <3>1. Total(came, h) = Total(came, g) - Total(came, took) /\ Total(came, g) \in Int
        BY <1>3, <2>3
      <3>2. Total(came, s) = Total(came, r) - Total(came, y)
        BY <1>3, DueLess
      <3>3. Total(came, took) = a
        <4>1. Total(low, took) = 0
          <5>1. IsFiniteSet(low) /\ \A i \in low : took[i] = 0
            BY <1>3, <2>2, RowNumbers
          <5> QED
            BY <5>1, TotalOfZero
        <4>2. \A i \in DOMAIN gs : took[i] \in Int
          BY <2>2
        <4>3. Total(came, took) = Total(low, took) + Total(A, took)
          BY <1>4, <4>2, TotalOfTwo
        <4> QED
          BY <2>2, <4>1, <4>3
      <3>4. Total(came, y) = a
        <4>1. \A i \in DOMAIN gs \ came : y[i] = 0
          BY <1>2 DEF CameUntil, PaysWhen
        <4>2. Total(DOMAIN gs, y) = Total(came, y)
          BY <1>3, <1>5, <4>1, RowNumbers, TotalInPart
        <4> QED
          BY <4>2
      <3> QED
        BY <1>6, <3>1, <3>2, <3>3, <3>4
    <2> QED
      BY <1>2, <2>4, <2>5 DEF Ahead
  <1> QED
    BY <1>2, <1>9, <1>10
------------------------------------------------------------------------------
(* Month after month. *)

\* The account's own way: in each month, what the loop that takes an amount takes from each grant.
Greedy(gs, us, start, now) ==
    [t \in DOMAIN us |-> IF t \in start..now THEN Took(gs, Dawn(gs, us, start..now, t), us[t]) ELSE [i \in DOMAIN gs |-> 0]]

Scene(gs, us, start, now) ==
    /\ Rows(gs) /\ Gives(gs) /\ Ledger(us) /\ \A t \in DOMAIN us : us[t] >= 0
    /\ start \in Nat /\ now \in Nat /\ start <= now /\ now < Never
    /\ start..now \in SUBSET DOMAIN us /\ \A t \in DOMAIN us : t \notin start..now => us[t] = 0
    /\ \A i \in DOMAIN gs : gs[i].at <= now

LEMMA SceneParts ==
    ASSUME NEW gs, NEW us, NEW start, NEW now, Scene(gs, us, start, now)
    PROVE  /\ Rows(gs) /\ Gives(gs) /\ Ledger(us) /\ (\A t \in DOMAIN us : us[t] >= 0)
           /\ start \in Nat /\ now \in Nat /\ start <= now /\ now < Never /\ Spans(start..now, start, now)
           /\ \A p \in start..now : p \in Nat /\ p \in Int /\ p \in DOMAIN us /\ us[p] \in Nat
  <1>1. /\ Rows(gs) /\ Gives(gs) /\ Ledger(us) /\ (\A t \in DOMAIN us : us[t] >= 0)
        /\ start \in Nat /\ now \in Nat /\ start <= now /\ now < Never
    BY DEF Scene
  <1>2. Spans(start..now, start, now)
    BY <1>1, PointsSpan
  <1>3. \A p \in start..now : p \in DOMAIN us
    BY DEF Scene
  <1>4. \A p \in start..now : us[p] \in Int /\ us[p] >= 0
    BY <1>1, <1>3 DEF Ledger
  <1> QED
    BY <1>1, <1>2, <1>3, <1>4

\* What is spent from one month to the next is what was used in it.
LEMMA MonthSpends ==
    ASSUME NEW gs, NEW us, NEW start, NEW now, Scene(gs, us, start, now), NEW p \in start..now
    PROVE  SpentIn(us, p, Until(start..now, p)) = us[p]
  <1>1. /\ start \in Nat /\ now \in Nat /\ start <= now /\ now < Never /\ Ledger(us)
        /\ p \in Nat /\ p \in DOMAIN us /\ us[p] \in Nat /\ Never \in Nat
    BY SceneParts, TopupAssumption
  <1>2. PICK until : until = Until(start..now, p)
    OBVIOUS
  <1>3. until = IF p = now THEN Never ELSE p + 1
    BY <1>1, <1>2, MonthAfter
  <1>4. PICK U : U = {t \in DOMAIN us : p <= t /\ t < until}
    OBVIOUS
  <1>5. IsFiniteSet(U) /\ (\A t \in U : us[t] \in Int) /\ U \in SUBSET DOMAIN us
    BY <1>1, <1>4, FS_Subset DEF Ledger
  <1>6. p \in U
    BY <1>1, <1>3, <1>4
  <1>7. \A t \in U \ {p} : us[t] = 0
    <2>1. ASSUME NEW t \in U, t # p PROVE us[t] = 0
      <3>1. t \in DOMAIN us /\ t \in Int /\ p <= t /\ t < until
        BY <1>1, <1>4, <2>1 DEF Ledger
      <3>2. t \notin start..now
        BY <1>1, <1>3, <2>1, <3>1
      <3> QED
        BY <3>1, <3>2 DEF Scene
    <2> QED
      BY <2>1
  <1>8. Total(U, us) = us[p] + Total(U \ {p}, us)
    <2>1. U \in SUBSET U
      OBVIOUS
    <2> QED
      BY <1>5, <1>6, <2>1, TotalWithout
  <1>9. Total(U \ {p}, us) = 0
    <2>1. IsFiniteSet(U \ {p})
      BY <1>5, FS_Subset
    <2> QED
      BY <1>7, <2>1, TotalOfZero
  <1>10. SpentIn(us, p, until) = Total(U, us)
    BY <1>4, Zenon DEF SpentIn
  <1> QED
    BY <1>1, <1>2, <1>8, <1>9, <1>10

\* How a month goes.
LEMMA MonthGoes ==
    ASSUME NEW gs, NEW us, NEW start, NEW now, Scene(gs, us, start, now), NEW p \in start..now
    PROVE  /\ Dawn(gs, us, start..now, p) \in Standing(gs)
           /\ Greedy(gs, us, start, now)[p] = Took(gs, Dawn(gs, us, start..now, p), us[p])
           /\ Rounds(gs, us, start..now)[p] = Take(gs, Dawn(gs, us, start..now, p), us[p])
  <1>1. PICK M : M = start..now
    OBVIOUS
  <1>2. Rows(gs) /\ Ledger(us) /\ Spans(M, start, now) /\ p \in M /\ p \in DOMAIN us
    BY <1>1, SceneParts
  <1>3. /\ Dawn(gs, us, M, p) \in Standing(gs)
        /\ Rounds(gs, us, M)[p] = Take(gs, Dawn(gs, us, M, p), SpentIn(us, p, Until(M, p)))
    BY <1>2, DawnIs
  <1>4. SpentIn(us, p, Until(M, p)) = us[p]
    BY <1>1, MonthSpends
  <1>5. Greedy(gs, us, start, now)[p] = Took(gs, Dawn(gs, us, M, p), us[p])
    BY <1>1, <1>2 DEF Greedy
  <1> QED
    BY <1>1, <1>3, <1>4, <1>5

LEMMA GreedyTypes ==
    ASSUME NEW gs, NEW us, NEW start, NEW now, Scene(gs, us, start, now)
    PROVE  \A t \in DOMAIN us : /\ \A i \in DOMAIN gs : Greedy(gs, us, start, now)[t][i] \in Int
                                /\ t \notin start..now => \A i \in DOMAIN gs : Greedy(gs, us, start, now)[t][i] = 0
  <1> SUFFICES ASSUME NEW t \in DOMAIN us
               PROVE  /\ \A i \in DOMAIN gs : Greedy(gs, us, start, now)[t][i] \in Int
                      /\ t \notin start..now => \A i \in DOMAIN gs : Greedy(gs, us, start, now)[t][i] = 0
    OBVIOUS
  <1>1. CASE t \in start..now
    <2>1. PICK d : d = Dawn(gs, us, start..now, t)
      OBVIOUS
    <2>2. d \in Standing(gs) /\ Greedy(gs, us, start, now)[t] = Took(gs, d, us[t])
      BY <1>1, <2>1, MonthGoes
    <2>3. us[t] \in Int /\ Rows(gs)
      BY <1>1, SceneParts
    <2>4. Took(gs, d, us[t]) \in [DOMAIN gs -> Int]
      BY <2>2, <2>3, TookTypes
    <2> QED
      BY <1>1, <2>2, <2>4
  <1>2. CASE t \notin start..now
    <2>1. Greedy(gs, us, start, now)[t] = [i \in DOMAIN gs |-> 0]
      BY <1>2 DEF Greedy
    <2> QED
      BY <2>1
  <1> QED
    BY <1>1, <1>2

\* In month p the account paid what was used, from grants of the month, and is ahead of the way y.
PaysMonth(gs, us, g, p) ==
    /\ Total(DOMAIN gs, g[p]) = us[p]
    /\ \A i \in DOMAIN gs : g[p][i] \in Nat /\ (g[p][i] = 0 \/ (gs[i].at <= p /\ p < ExpiresAt(gs[i])))
Leads(gs, us, y, start, now, p) ==
    LET g == Greedy(gs, us, start, now)
    IN  /\ PaysMonth(gs, us, g, p)
        /\ Holds(gs, Rounds(gs, us, start..now)[p], Rest(gs, us, g, p), p)
        /\ Ahead(gs, Rest(gs, us, g, p), Rest(gs, us, y, p), p)

\* From where it stood at the last month, st, it is so in the next.
LEMMA LeadsOn ==
    ASSUME NEW gs, NEW us, NEW start, NEW now, Scene(gs, us, start, now), NEW y, Way(gs, us, y), NEW p \in start..now,
           NEW st, NEW last \in Int, last < p, Dawn(gs, us, start..now, p) = Ready(gs, st, last, p),
           Holds(gs, st, Rest(gs, us, Greedy(gs, us, start, now), p - 1), last),
           Ahead(gs, Rest(gs, us, Greedy(gs, us, start, now), p - 1), Rest(gs, us, y, p - 1), last),
           \A i \in DOMAIN gs : last < gs[i].at => Rest(gs, us, y, p - 1)[i] = gs[i].credits
    PROVE  Leads(gs, us, y, start, now, p)
  <1>1. PICK g, d, a : g = Greedy(gs, us, start, now) /\ d = Dawn(gs, us, start..now, p) /\ a = us[p]
    OBVIOUS
  <1>2. PICK r, s, v, w : /\ r = Rest(gs, us, g, p - 1) /\ s = Rest(gs, us, g, p)
                          /\ v = Rest(gs, us, y, p - 1) /\ w = Rest(gs, us, y, p)
    OBVIOUS
  <1>3. Rows(gs) /\ Gives(gs) /\ Ledger(us) /\ p \in Int /\ p - 1 \in Int /\ p \in DOMAIN us /\ a \in Nat
    BY <1>1, SceneParts
  <1>4. Holds(gs, st, r, last) /\ Ahead(gs, r, v, last) /\ \A i \in DOMAIN gs : last < gs[i].at => v[i] = gs[i].credits
    BY <1>1, <1>2
  <1>5. Holds(gs, d, r, p)
    BY <1>1, <1>3, <1>4, HoldsReady
  <1>6. \A i \in DOMAIN gs : v[i] \in Nat /\ w[i] \in Nat /\ w[i] = v[i] - y[p][i] /\ y[p][i] \in Nat
    <2>1. \A i \in DOMAIN gs : v[i] \in Nat /\ w[i] \in Nat
      BY <1>2, <1>3, WayLeaves
    <2>2. \A t \in DOMAIN us : \A i \in DOMAIN gs : y[t][i] \in Int
      BY DEF Way
    <2>3. \A i \in DOMAIN gs : w[i] = v[i] - y[p][i]
      BY <1>2, <1>3, <2>2, RestOne
    <2>4. \A i \in DOMAIN gs : y[p][i] \in Nat
      BY <1>3 DEF Way
    <2> QED
      BY <2>1, <2>3, <2>4
  <1>7. Ahead(gs, r, v, p)
    <2>1. \A i \in DOMAIN gs : r[i] \in Nat /\ v[i] \in Nat /\ (last < gs[i].at => r[i] = v[i])
      BY <1>4, <1>6 DEF Holds
    <2> QED
      BY <1>3, <1>4, <2>1, AheadReady
  <1>8. Off(gs, v, y[p], w) /\ PaysWhen(gs, y[p], p) /\ Total(DOMAIN gs, y[p]) = a
    <2>1. Off(gs, v, y[p], w)
      BY <1>6 DEF Off
    <2>2. PaysWhen(gs, y[p], p) /\ Total(DOMAIN gs, y[p]) = a
      BY <1>1, <1>3 DEF Way, PaysWhen
    <2> QED
      BY <2>1, <2>2
  <1>9. /\ a <= Total(d.active, d.left)
        /\ \A h : (\A i \in DOMAIN gs : h[i] = r[i] - Took(gs, d, a)[i]) => Ahead(gs, h, w, p)
    BY <1>3, <1>5, <1>7, <1>8, AheadTake
  <1>10. g[p] = Took(gs, d, a) /\ Rounds(gs, us, start..now)[p] = Take(gs, d, a)
    BY <1>1, MonthGoes
  <1>11. \A i \in DOMAIN gs : s[i] = r[i] - Took(gs, d, a)[i]
    <2>1. \A t \in DOMAIN us : \A i \in DOMAIN gs : g[t][i] \in Int
      BY <1>1, GreedyTypes
    <2>2. \A i \in DOMAIN gs : s[i] = r[i] - g[p][i]
      BY <1>2, <1>3, <2>1, RestOne
    <2> QED
      BY <1>10, <2>2
  <1>12. Ahead(gs, s, w, p)
    BY <1>9, <1>11
  <1>13. Holds(gs, Take(gs, d, a), s, p)
    BY <1>3, <1>5, <1>9, <1>11, HoldsTake
  <1>14. PaysMonth(gs, us, g, p)
    <2>1. d \in Standing(gs) /\ Covered(d) /\ d.active = {i \in DOMAIN gs : gs[i].at <= p /\ p < ExpiresAt(gs[i])}
      BY <1>5 DEF Holds
    <2>2. /\ Total(DOMAIN gs, Took(gs, d, a)) = a /\ Total(d.active, Took(gs, d, a)) = a
          /\ \A i \in DOMAIN gs : Took(gs, d, a)[i] \in Nat /\ (i \notin d.active => Took(gs, d, a)[i] = 0)
      <3>1. Rows(gs) /\ d \in Standing(gs) /\ Covered(d) /\ a \in Nat /\ a <= Total(d.active, d.left)
        BY <1>3, <1>9, <2>1
      <3> QED
        BY <3>1, PaysInFull
    <2>3. /\ Total(DOMAIN gs, g[p]) = a
          /\ \A i \in DOMAIN gs : g[p][i] \in Nat /\ (i \notin d.active => g[p][i] = 0)
      BY <1>10, <2>2
    <2> QED
      BY <1>1, <2>1, <2>3 DEF PaysMonth
  <1> QED
    BY <1>1, <1>2, <1>10, <1>12, <1>13, <1>14 DEF Leads

LEMMA LeadsAtFirst ==
    ASSUME NEW gs, NEW us, NEW start, NEW now, Scene(gs, us, start, now), NEW y, Way(gs, us, y)
    PROVE  Leads(gs, us, y, start, now, start)
  <1>1. PICK g : g = Greedy(gs, us, start, now)
    OBVIOUS
  <1>2. /\ Rows(gs) /\ Gives(gs) /\ Ledger(us) /\ start \in Nat /\ now \in Nat /\ start <= now /\ now < Never
        /\ start \in start..now /\ start - 1 \in Int /\ -1 \in Int /\ -1 < start
    BY SceneParts
  <1>3. \A t \in Past(us, start - 1) : t \in DOMAIN us /\ t \notin start..now /\ us[t] = 0
    <2>1. ASSUME NEW t \in Past(us, start - 1) PROVE t \in DOMAIN us /\ t \notin start..now /\ us[t] = 0
      <3>1. t \in DOMAIN us /\ t \in Int /\ t <= start - 1
        BY <1>2 DEF Past, Ledger
      <3>2. t \notin start..now
        BY <1>2, <3>1
      <3> QED
        BY <3>1, <3>2 DEF Scene
    <2> QED
      BY <2>1
  <1>4. \A i \in DOMAIN gs : Rest(gs, us, g, start - 1)[i] = gs[i].credits
    <2>1. ASSUME NEW i \in DOMAIN gs PROVE Rest(gs, us, g, start - 1)[i] = gs[i].credits
      <3>1. \A t \in Past(us, start - 1) : g[t][i] = 0
        BY <1>1, <1>3, GreedyTypes
      <3> QED
        BY <1>2, <3>1, RestAll
    <2> QED
      BY <2>1
  <1>5. \A i \in DOMAIN gs : Rest(gs, us, y, start - 1)[i] = gs[i].credits
    <2>1. ASSUME NEW i \in DOMAIN gs PROVE Rest(gs, us, y, start - 1)[i] = gs[i].credits
      <3>1. ASSUME NEW t \in Past(us, start - 1) PROVE y[t][i] = 0
        <4>1. t \in DOMAIN us /\ us[t] = 0
          BY <1>3
        <4>2. Total(DOMAIN gs, y[t]) = 0 /\ \A j \in DOMAIN gs : y[t][j] \in Nat
          BY <4>1 DEF Way
        <4>3. IsFiniteSet(DOMAIN gs) /\ \A j \in DOMAIN gs : y[t][j] \in Int /\ y[t][j] >= 0
          BY <1>2, <4>2, RowNumbers
        <4>4. y[t][i] <= Total(DOMAIN gs, y[t])
          BY <4>3, PartOfTotal
        <4> QED
          BY <4>2, <4>4
      <3> QED
        BY <1>2, <3>1, RestAll
    <2> QED
      BY <2>1
  <1>6. Holds(gs, Nothing(gs), Rest(gs, us, g, start - 1), -1)
    BY <1>2, <1>4, HoldsNothing
  <1>7. Ahead(gs, Rest(gs, us, g, start - 1), Rest(gs, us, y, start - 1), -1)
    BY <1>2, AheadAtFirst
  <1>8. Dawn(gs, us, start..now, start) = Ready(gs, Nothing(gs), -1, start)
    BY <1>2, MonthAfter DEF Dawn
  <1> QED
    BY <1>1, <1>2, <1>5, <1>6, <1>7, <1>8, LeadsOn

LEMMA LeadsNext ==
    ASSUME NEW gs, NEW us, NEW start, NEW now, Scene(gs, us, start, now), NEW y, Way(gs, us, y),
           NEW m \in start..now, m < now, Leads(gs, us, y, start, now, m)
    PROVE  Leads(gs, us, y, start, now, m + 1)
  <1>1. /\ Rows(gs) /\ Ledger(us) /\ start \in Nat /\ now \in Nat /\ start <= now /\ now < Never
        /\ m \in Nat /\ m \in Int /\ m + 1 \in start..now /\ m < m + 1 /\ (m + 1) - 1 = m
    BY SceneParts
  <1>2. PICK st : st = Rounds(gs, us, start..now)[m]
    OBVIOUS
  <1>3. Dawn(gs, us, start..now, m + 1) = Ready(gs, st, m, m + 1)
    <2>1. Earlier(start..now, m + 1) # {} /\ Max(Earlier(start..now, m + 1)) = m
      BY <1>1, MonthAfter
    <2> QED
      BY <1>2, <2>1 DEF Dawn
  <1>4. /\ Holds(gs, st, Rest(gs, us, Greedy(gs, us, start, now), m), m)
        /\ Ahead(gs, Rest(gs, us, Greedy(gs, us, start, now), m), Rest(gs, us, y, m), m)
    BY <1>2 DEF Leads
  <1>5. \A i \in DOMAIN gs : m < gs[i].at => Rest(gs, us, y, m)[i] = gs[i].credits
    BY <1>1, WayLeaves
  <1> QED
    BY <1>1, <1>3, <1>4, <1>5, LeadsOn

LEMMA AlwaysLeads ==
    ASSUME NEW gs, NEW us, NEW start, NEW now, Scene(gs, us, start, now), NEW y, Way(gs, us, y)
    PROVE  \A p \in start..now : Leads(gs, us, y, start, now, p)
  <1> DEFINE H == {n \in Nat : start + n <= now => Leads(gs, us, y, start, now, start + n)}
  <1>1. start \in Nat /\ now \in Nat /\ start <= now
    BY SceneParts
  <1>2. 0 \in H
    <2>1. start + 0 = start
      BY <1>1
    <2> QED
      BY <2>1, LeadsAtFirst
  <1>3. ASSUME NEW n \in Nat, n \in H PROVE n + 1 \in H
    <2> SUFFICES ASSUME start + (n + 1) <= now PROVE Leads(gs, us, y, start, now, start + (n + 1))
      OBVIOUS
    <2>1. PICK m : m = start + n
      OBVIOUS
    <2>2. m \in start..now /\ m < now /\ start + (n + 1) = m + 1
      BY <1>1, <2>1
    <2>3. Leads(gs, us, y, start, now, m)
      BY <1>1, <1>3, <2>1, <2>2
    <2>4. Leads(gs, us, y, start, now, m + 1)
      BY <2>2, <2>3, LeadsNext
    <2> QED
      BY <2>2, <2>4
  <1>4. ASSUME NEW p \in start..now PROVE Leads(gs, us, y, start, now, p)
    <2> HIDE DEF H
    <2>1. Nat \subseteq H
      BY <1>2, <1>3, Counting
    <2>2. p - start \in Nat /\ start + (p - start) = p /\ p <= now
      BY <1>1
    <2>3. p - start \in H
      BY <2>1, <2>2
    <2> QED
      BY <2>2, <2>3 DEF H
  <1> QED
    BY <1>4

\* When there is a way at all, the account's is one, and what lapsed is what it wastes: no more than any.
LEMMA GreedyIsBest ==
    ASSUME NEW gs, NEW us, NEW start, NEW now, Scene(gs, us, start, now), NEW y, Way(gs, us, y)
    PROVE  /\ Way(gs, us, Greedy(gs, us, start, now))
           /\ Rounds(gs, us, start..now)[now].lapsed = Wasted(gs, us, Greedy(gs, us, start, now), now)
           /\ Wasted(gs, us, Greedy(gs, us, start, now), now) <= Wasted(gs, us, y, now)
  <1>1. PICK g : g = Greedy(gs, us, start, now)
    OBVIOUS
  <1>2. /\ Rows(gs) /\ Ledger(us) /\ start \in Nat /\ now \in Nat /\ start <= now /\ now \in Int /\ now \in start..now
        /\ \A i \in DOMAIN gs : gs[i].at <= now
    BY SceneParts DEF Scene
  <1>3. \A p \in start..now : Leads(gs, us, y, start, now, p)
    BY AlwaysLeads
  <1>4. PICK st, r, w : st = Rounds(gs, us, start..now)[now] /\ r = Rest(gs, us, g, now) /\ w = Rest(gs, us, y, now)
    OBVIOUS
  <1>5. Holds(gs, st, r, now) /\ Ahead(gs, r, w, now)
    BY <1>1, <1>2, <1>3, <1>4 DEF Leads
  <1>6. Due(gs, now, now) = {i \in DOMAIN gs : ExpiresAt(gs[i]) <= now}
    BY <1>2 DEF Due
  <1>7. Wasted(gs, us, g, now) = Total(Due(gs, now, now), r) /\ Wasted(gs, us, y, now) = Total(Due(gs, now, now), w)
    BY <1>4, <1>6 DEF Wasted
  <1>8. st.lapsed = Total(Due(gs, now, now), r)
    BY <1>5 DEF Holds
  <1>9. Total(Due(gs, now, now), r) <= Total(Due(gs, now, now), w)
    <2>1. now <= now
      BY <1>2
    <2> QED
      BY <1>2, <1>5, <2>1 DEF Ahead
  <1>10. ASSUME NEW t \in DOMAIN us
         PROVE  /\ Total(DOMAIN gs, g[t]) = us[t]
                /\ \A i \in DOMAIN gs : g[t][i] \in Nat /\ (g[t][i] = 0 \/ (gs[i].at <= t /\ t < ExpiresAt(gs[i])))
    <2>1. CASE t \in start..now
      <3>1. PaysMonth(gs, us, g, t)
        BY <1>1, <1>3, <2>1 DEF Leads
      <3> QED
        BY <3>1 DEF PaysMonth
    <2>2. CASE t \notin start..now
      <3>1. us[t] = 0
        BY <2>2 DEF Scene
      <3>2. \A i \in DOMAIN gs : g[t][i] = 0
        BY <1>1, <2>2, GreedyTypes
      <3>3. IsFiniteSet(DOMAIN gs)
        BY <1>2, RowNumbers
      <3>4. Total(DOMAIN gs, g[t]) = 0
        BY <3>2, <3>3, TotalOfZero
      <3> QED
        BY <3>1, <3>2, <3>4
    <2> QED
      BY <2>1, <2>2
  <1>11. ASSUME NEW i \in DOMAIN gs PROVE Total(DOMAIN us, Column(us, g, i)) <= gs[i].credits
    <2>1. PICK c : c = Column(us, g, i)
      OBVIOUS
    <2>2. \A t \in DOMAIN us : c[t] = g[t][i] /\ c[t] \in Int
      BY <1>10, <2>1 DEF Column
    <2>3. \A t \in DOMAIN us \ Past(us, now) : c[t] = 0
      <3>1. ASSUME NEW t \in DOMAIN us, ~(t <= now) PROVE c[t] = 0
        <4>1. t \notin start..now
          BY <3>1
        <4> QED
          BY <1>1, <2>2, <4>1, GreedyTypes
      <3> QED
        BY <3>1 DEF Past
    <2>4. IsFiniteSet(DOMAIN us) /\ Past(us, now) \in SUBSET DOMAIN us
      BY <1>2, PastIs
    <2>5. Total(DOMAIN us, c) = Total(Past(us, now), c) /\ Total(Past(us, now), c) \in Int
      BY <2>2, <2>3, <2>4, TotalInPart
    <2>6. r[i] \in Nat
      BY <1>5 DEF Holds
    <2>7. r[i] = gs[i].credits - Total(Past(us, now), c)
      BY <1>4, <2>1 DEF Rest
    <2>8. gs[i].credits \in Int
      BY <1>2 DEF Rows
    <2> QED
      BY <2>1, <2>5, <2>6, <2>7, <2>8
  <1>12. Way(gs, us, g)
    BY <1>10, <1>11 DEF Way
  <1> QED
    BY <1>1, <1>4, <1>7, <1>8, <1>9, <1>12
------------------------------------------------------------------------------
(* Each credit used, paid from a grant: a way to pay. *)

LEMMA SameCount ==
    ASSUME NEW S, IsFiniteSet(S), NEW T, NEW f \in [S -> T],
           \A x, z \in S : f[x] = f[z] => x = z, \A t \in T : \E x \in S : f[x] = t
    PROVE  IsFiniteSet(T) /\ Cardinality(T) = Cardinality(S)
  <1>1. f \in Injection(S, T)
    BY DEF Injection, IsInjective
  <1>2. f \in Surjection(S, T)
    BY DEF Surjection
  <1>3. ExistsBijection(S, T)
    BY <1>1, <1>2 DEF ExistsBijection, Bijection
  <1> QED
    BY <1>3, FS_Bijection

UnitsOf(us) == UNION {{<<t, k>> : k \in 1..us[t]} : t \in DOMAIN us}
PaidFrom(us, paid, i) == {u \in UnitsOf(us) : paid[u] = i}
PaidIn(us, paid, t, i) == {k \in 1..us[t] : paid[<<t, k>>] = i}
Allots(gs, us, paid) ==
    /\ paid \in [UnitsOf(us) -> DOMAIN gs]
    /\ \A u \in UnitsOf(us) : gs[paid[u]].at <= u[1] /\ u[1] < ExpiresAt(gs[paid[u]])
    /\ \A i \in DOMAIN gs : Cardinality(PaidFrom(us, paid, i)) <= gs[i].credits

\* The way of an allotment, and what it lets lapse.
WayOf(gs, us, paid) == [t \in DOMAIN us |-> [i \in DOMAIN gs |-> Cardinality(PaidIn(us, paid, t, i))]]
Unpaid(gs, us, paid) == [i \in DOMAIN gs |-> gs[i].credits - Cardinality(PaidFrom(us, paid, i))]

LEMMA UnitsAre ==
    ASSUME NEW us, Ledger(us), \A t \in DOMAIN us : us[t] >= 0
    PROVE  /\ IsFiniteSet(UnitsOf(us))
           /\ \A u \in UnitsOf(us) : u[1] \in DOMAIN us /\ u[2] \in 1..us[u[1]] /\ u = <<u[1], u[2]>>
           /\ \A t \in DOMAIN us : us[t] \in Nat /\ IsFiniteSet(1..us[t]) /\ Cardinality(1..us[t]) = us[t]
           /\ \A t \in DOMAIN us : \A k \in 1..us[t] : <<t, k>> \in UnitsOf(us)
  <1>1. IsFiniteSet(DOMAIN us) /\ \A t \in DOMAIN us : us[t] \in Nat
    BY DEF Ledger
  <1>2. PICK n : n = Total(DOMAIN us, us)
    OBVIOUS
  <1>3. n \in Int /\ \A t \in DOMAIN us : us[t] <= n
    <2>1. \A t \in DOMAIN us : us[t] \in Int /\ us[t] >= 0
      BY <1>1
    <2> QED
      BY <1>1, <1>2, <2>1, PartOfTotal
  <1>4. \A u \in UnitsOf(us) : \E t \in DOMAIN us : \E k \in 1..us[t] : u = <<t, k>>
    BY DEF UnitsOf
  <1>5. UnitsOf(us) \in SUBSET ((DOMAIN us) \X (1..n))
    <2>1. ASSUME NEW t \in DOMAIN us, NEW k \in 1..us[t] PROVE k \in 1..n
      BY <1>1, <1>3
    <2> QED
      BY <1>4, <2>1
  <1>6. IsFiniteSet(UnitsOf(us))
    <2>1. IsFiniteSet(1..n)
      BY <1>3, FS_Interval
    <2>2. IsFiniteSet((DOMAIN us) \X (1..n))
      BY <1>1, <2>1, FS_Product
    <2> QED
      BY <1>5, <2>2, FS_Subset
  <1>7. ASSUME NEW t \in DOMAIN us PROVE us[t] \in Nat /\ IsFiniteSet(1..us[t]) /\ Cardinality(1..us[t]) = us[t]
    <2>1. us[t] \in Nat
      BY <1>1
    <2>2. PICK m \in Nat : m = us[t]
      BY <2>1
    <2>3. IsFiniteSet(1..m) /\ Cardinality(1..m) = IF 1 > m THEN 0 ELSE m - 1 + 1
      BY FS_Interval
    <2>4. (IF 1 > m THEN 0 ELSE m - 1 + 1) = m
      OBVIOUS
    <2> QED
      BY <2>2, <2>3, <2>4
  <1>8. \A t \in DOMAIN us : \A k \in 1..us[t] : <<t, k>> \in UnitsOf(us)
    BY DEF UnitsOf
  <1>9. \A u \in UnitsOf(us) : u[1] \in DOMAIN us /\ u[2] \in 1..us[u[1]] /\ u = <<u[1], u[2]>>
    BY <1>4
  <1> QED
    BY <1>6, <1>7, <1>8, <1>9

\* What a grant pays in a month counts as what it pays of that month's credits.
LEMMA MonthCounts ==
    ASSUME NEW us, Ledger(us), \A t \in DOMAIN us : us[t] >= 0, NEW paid, NEW i, NEW t \in DOMAIN us
    PROVE  Cardinality({u \in PaidFrom(us, paid, i) : u[1] = t}) = Cardinality(PaidIn(us, paid, t, i))
  <1>1. PICK K, T : K = PaidIn(us, paid, t, i) /\ T = {u \in PaidFrom(us, paid, i) : u[1] = t}
    OBVIOUS
  <1>2. PICK f : f = [k \in K |-> <<t, k>>]
    OBVIOUS
  <1>3. \A k \in K : k \in 1..us[t] /\ paid[<<t, k>>] = i /\ f[k] = <<t, k>>
    BY <1>1, <1>2 DEF PaidIn
  <1>4. \A k \in K : <<t, k>> \in UnitsOf(us)
    BY <1>3, UnitsAre
  <1>5. \A k \in K : f[k] \in T
    <2>1. ASSUME NEW k \in K PROVE f[k] \in T
      <3>1. f[k] = <<t, k>> /\ <<t, k>> \in UnitsOf(us) /\ paid[<<t, k>>] = i
        BY <1>3, <1>4
      <3>2. <<t, k>>[1] = t
        OBVIOUS
      <3> QED
        BY <1>1, <3>1, <3>2 DEF PaidFrom
    <2> QED
      BY <2>1
  <1>6. f \in [K -> T]
    BY <1>2, <1>5
  <1>7. \A x, z \in K : f[x] = f[z] => x = z
    <2>1. ASSUME NEW x \in K, NEW z \in K, f[x] = f[z] PROVE x = z
      <3>1. <<t, x>> = <<t, z>>
        BY <1>3, <2>1
      <3> QED
        BY <3>1
    <2> QED
      BY <2>1
  <1>8. \A u \in T : \E k \in K : f[k] = u
    <2>1. ASSUME NEW u \in T PROVE \E k \in K : f[k] = u
      <3>1. u \in UnitsOf(us) /\ paid[u] = i /\ u[1] = t
        BY <1>1, <2>1 DEF PaidFrom
      <3>2. u[2] \in 1..us[t] /\ u = <<t, u[2]>>
        BY <3>1, UnitsAre
      <3>3. u[2] \in K
        BY <1>1, <3>1, <3>2 DEF PaidIn
      <3> QED
        BY <1>3, <3>2, <3>3
    <2> QED
      BY <2>1
  <1>9. IsFiniteSet(K)
    <2>1. IsFiniteSet(1..us[t])
      BY UnitsAre
    <2>2. K \in SUBSET (1..us[t])
      BY <1>3
    <2> QED
      BY <2>1, <2>2, FS_Subset
  <1> QED
    BY <1>1, <1>6, <1>7, <1>8, <1>9, SameCount

\* So a grant pays in all what it pays month by month.
LEMMA GrantCounts ==
    ASSUME NEW us, Ledger(us), \A t \in DOMAIN us : us[t] >= 0, NEW paid, NEW i,
           NEW c, \A t \in DOMAIN us : c[t] = Cardinality(PaidIn(us, paid, t, i))
    PROVE  Cardinality(PaidFrom(us, paid, i)) = Total(DOMAIN us, c)
  <1>1. PICK U : U = PaidFrom(us, paid, i)
    OBVIOUS
  <1>2. IsFiniteSet(U) /\ \A u \in U : u[1] \in DOMAIN us
    <2>1. U \in SUBSET UnitsOf(us)
      BY <1>1 DEF PaidFrom
    <2>2. IsFiniteSet(UnitsOf(us)) /\ \A u \in UnitsOf(us) : u[1] \in DOMAIN us
      BY UnitsAre
    <2> QED
      BY <2>1, <2>2, FS_Subset
  <1>3. PICK m : m = [u \in U |-> u[1]]
    OBVIOUS
  <1>4. \A u \in U : m[u] = u[1] /\ m[u] \in DOMAIN us
    BY <1>2, <1>3
  <1>5. \A t \in DOMAIN us : c[t] = Cardinality({u \in U : m[u] = t})
    <2>1. ASSUME NEW t \in DOMAIN us PROVE c[t] = Cardinality({u \in U : m[u] = t})
      <3>1. {u \in U : m[u] = t} = {u \in U : u[1] = t}
        BY <1>4
      <3>2. Cardinality({u \in U : u[1] = t}) = Cardinality(PaidIn(us, paid, t, i))
        BY <1>1, MonthCounts
      <3> QED
        BY <3>1, <3>2
    <2> QED
      BY <2>1
  <1>6. IsFiniteSet(DOMAIN us)
    BY DEF Ledger
  <1> QED
    <2>1. Keyed(U, DOMAIN us, m, c)
      BY <1>4, <1>5 DEF Keyed
    <2> QED
      BY <1>1, <1>2, <1>6, <2>1, CountByKey

\* An allotment pays in a way.
LEMMA AllotsIsWay ==
    ASSUME NEW gs, Rows(gs), NEW us, Ledger(us), \A t \in DOMAIN us : us[t] >= 0, NEW paid, Allots(gs, us, paid)
    PROVE  Way(gs, us, WayOf(gs, us, paid))
  <1>1. PICK y : y = WayOf(gs, us, paid)
    OBVIOUS
  <1>2. \A t \in DOMAIN us : \A i \in DOMAIN gs : y[t][i] = Cardinality(PaidIn(us, paid, t, i))
    BY <1>1 DEF WayOf
  <1>3. paid \in [UnitsOf(us) -> DOMAIN gs]
    BY DEF Allots
  <1>4. ASSUME NEW t \in DOMAIN us
        PROVE  Total(DOMAIN gs, y[t]) = us[t] /\ \A i \in DOMAIN gs : y[t][i] \in Nat
    <2>1. PICK U : U = 1..us[t]
      OBVIOUS
    <2>2. IsFiniteSet(U) /\ Cardinality(U) = us[t] /\ \A k \in U : <<t, k>> \in UnitsOf(us)
      BY <2>1, UnitsAre
    <2>3. PICK m : m = [k \in U |-> paid[<<t, k>>]]
      OBVIOUS
    <2>4. \A k \in U : m[k] = paid[<<t, k>>] /\ m[k] \in DOMAIN gs
      BY <1>3, <2>2, <2>3
    <2>5. \A i \in DOMAIN gs : y[t][i] = Cardinality({k \in U : m[k] = i})
      <3>1. ASSUME NEW i \in DOMAIN gs PROVE y[t][i] = Cardinality({k \in U : m[k] = i})
        <4>1. {k \in U : m[k] = i} = PaidIn(us, paid, t, i)
          BY <2>1, <2>4 DEF PaidIn
        <4> QED
          BY <1>2, <4>1
      <3> QED
        BY <3>1
    <2>6. IsFiniteSet(DOMAIN gs)
      BY RowNumbers
    <2>7. Cardinality(U) = Total(DOMAIN gs, y[t]) /\ \A i \in DOMAIN gs : y[t][i] \in Nat
      <3>1. Keyed(U, DOMAIN gs, m, y[t])
        BY <2>4, <2>5 DEF Keyed
      <3> QED
        BY <2>2, <2>6, <3>1, CountByKey
    <2> QED
      BY <2>2, <2>7
  <1>5. ASSUME NEW t \in DOMAIN us, NEW i \in DOMAIN gs, y[t][i] # 0 PROVE gs[i].at <= t /\ t < ExpiresAt(gs[i])
    <2>1. PaidIn(us, paid, t, i) # {}
      BY <1>2, <1>5, FS_EmptySet
    <2>2. PICK k \in 1..us[t] : paid[<<t, k>>] = i
      BY <2>1 DEF PaidIn
    <2>3. <<t, k>> \in UnitsOf(us)
      BY UnitsAre
    <2>4. <<t, k>>[1] = t
      OBVIOUS
    <2> QED
      BY <2>2, <2>3, <2>4 DEF Allots
  <1>6. ASSUME NEW i \in DOMAIN gs PROVE Total(DOMAIN us, Column(us, y, i)) <= gs[i].credits
    <2>1. PICK c : c = Column(us, y, i)
      OBVIOUS
    <2>2. \A t \in DOMAIN us : c[t] = Cardinality(PaidIn(us, paid, t, i))
      BY <1>2, <2>1 DEF Column
    <2>3. Cardinality(PaidFrom(us, paid, i)) = Total(DOMAIN us, c)
      BY <2>2, GrantCounts
    <2>4. Cardinality(PaidFrom(us, paid, i)) <= gs[i].credits
      BY DEF Allots
    <2> QED
      BY <2>1, <2>3, <2>4
  <1>7. Way(gs, us, y)
    BY <1>4, <1>5, <1>6 DEF Way
  <1> QED
    BY <1>1, <1>7

\* Any way to pay is the way of an allotment.
LEMMA WayIsAllots ==
    ASSUME NEW gs, Rows(gs), NEW us, Ledger(us), \A t \in DOMAIN us : us[t] >= 0, NEW y, Way(gs, us, y)
    PROVE  \E paid : Allots(gs, us, paid) /\ \A t \in DOMAIN us : \A i \in DOMAIN gs : WayOf(gs, us, paid)[t][i] = y[t][i]
  <1>1. ASSUME NEW t \in DOMAIN us PROVE \E m : Deals(us[t], DOMAIN gs, y[t], m)
    <2>1. IsFiniteSet(DOMAIN gs) /\ (\A i \in DOMAIN gs : y[t][i] \in Nat) /\ Total(DOMAIN gs, y[t]) = us[t]
      BY RowNumbers DEF Way
    <2>2. Dealt(Total(DOMAIN gs, y[t]), DOMAIN gs, y[t])
      BY <2>1, Dealing
    <2> QED
      BY <2>1, <2>2 DEF Dealt
  <1>2. PICK d : d = [t \in DOMAIN us |-> CHOOSE m : Deals(us[t], DOMAIN gs, y[t], m)]
    OBVIOUS
  <1>3. \A t \in DOMAIN us : Deals(us[t], DOMAIN gs, y[t], d[t])
    <2>1. ASSUME NEW t \in DOMAIN us PROVE Deals(us[t], DOMAIN gs, y[t], d[t])
      <3>1. d[t] = CHOOSE m : Deals(us[t], DOMAIN gs, y[t], m)
        BY <1>2
      <3> QED
        BY <1>1, <3>1
    <2> QED
      BY <2>1
  <1>4. \A t \in DOMAIN us : /\ d[t] \in [1..us[t] -> DOMAIN gs]
                             /\ \A i \in DOMAIN gs : Cardinality({k \in 1..us[t] : d[t][k] = i}) = y[t][i]
    BY <1>3 DEF Deals
  <1>5. PICK paid : paid = [u \in UnitsOf(us) |-> d[u[1]][u[2]]]
    OBVIOUS
  <1>6. \A u \in UnitsOf(us) : u[1] \in DOMAIN us /\ u[2] \in 1..us[u[1]] /\ u = <<u[1], u[2]>>
    BY UnitsAre
  <1>7. paid \in [UnitsOf(us) -> DOMAIN gs]
    <2>1. \A u \in UnitsOf(us) : d[u[1]][u[2]] \in DOMAIN gs
      BY <1>4, <1>6
    <2> QED
      BY <1>5, <2>1
  <1>8. ASSUME NEW t \in DOMAIN us, NEW k \in 1..us[t] PROVE paid[<<t, k>>] = d[t][k] /\ <<t, k>> \in UnitsOf(us)
    <2>1. <<t, k>> \in UnitsOf(us)
      BY UnitsAre
    <2>2. <<t, k>>[1] = t /\ <<t, k>>[2] = k
      OBVIOUS
    <2> QED
      BY <1>5, <2>1, <2>2
  <1>9. \A t \in DOMAIN us : \A i \in DOMAIN gs : Cardinality(PaidIn(us, paid, t, i)) = y[t][i]
    <2>1. ASSUME NEW t \in DOMAIN us, NEW i \in DOMAIN gs PROVE Cardinality(PaidIn(us, paid, t, i)) = y[t][i]
      <3>1. PaidIn(us, paid, t, i) = {k \in 1..us[t] : d[t][k] = i}
        BY <1>8 DEF PaidIn
      <3> QED
        BY <1>4, <3>1
    <2> QED
      BY <2>1
  <1>10. ASSUME NEW u \in UnitsOf(us) PROVE gs[paid[u]].at <= u[1] /\ u[1] < ExpiresAt(gs[paid[u]])
    <2>1. PICK t, k, i : t = u[1] /\ k = u[2] /\ i = paid[u]
      OBVIOUS
    <2>2. t \in DOMAIN us /\ k \in 1..us[t] /\ u = <<t, k>> /\ i \in DOMAIN gs
      BY <1>6, <1>7, <2>1
    <2>3. k \in PaidIn(us, paid, t, i)
      BY <2>1, <2>2 DEF PaidIn
    <2>4. IsFiniteSet(PaidIn(us, paid, t, i))
      <3>1. IsFiniteSet(1..us[t])
        BY <2>2, UnitsAre
      <3>2. PaidIn(us, paid, t, i) \in SUBSET (1..us[t])
        BY DEF PaidIn
      <3> QED
        BY <3>1, <3>2, FS_Subset
    <2>5. Cardinality(PaidIn(us, paid, t, i)) # 0
      BY <2>3, <2>4, FS_EmptySet
    <2>6. y[t][i] # 0
      BY <1>9, <2>2, <2>5
    <2>7. gs[i].at <= t /\ t < ExpiresAt(gs[i])
      BY <2>2, <2>6 DEF Way
    <2> QED
      BY <2>1, <2>7
  <1>11. ASSUME NEW i \in DOMAIN gs PROVE Cardinality(PaidFrom(us, paid, i)) <= gs[i].credits
    <2>1. PICK c : c = Column(us, y, i)
      OBVIOUS
    <2>2. \A t \in DOMAIN us : c[t] = Cardinality(PaidIn(us, paid, t, i))
      BY <1>9, <2>1 DEF Column
    <2>3. Cardinality(PaidFrom(us, paid, i)) = Total(DOMAIN us, c)
      BY <2>2, GrantCounts
    <2>4. Total(DOMAIN us, c) <= gs[i].credits
      BY <2>1 DEF Way
    <2> QED
      BY <2>3, <2>4
  <1>12. Allots(gs, us, paid)
    BY <1>7, <1>10, <1>11 DEF Allots
  <1>13. \A t \in DOMAIN us : \A i \in DOMAIN gs : WayOf(gs, us, paid)[t][i] = y[t][i]
    BY <1>9 DEF WayOf
  <1> QED
    BY <1>12, <1>13

\* What an allotment lets lapse is what its way wastes.
LEMMA UnpaidIsWasted ==
    ASSUME NEW gs, Rows(gs), NEW us, Ledger(us), \A t \in DOMAIN us : us[t] >= 0,
           NEW now \in Int, \A t \in DOMAIN us : now < t => us[t] = 0,
           NEW paid, Allots(gs, us, paid),
           NEW y, Way(gs, us, y), \A t \in DOMAIN us : \A i \in DOMAIN gs : WayOf(gs, us, paid)[t][i] = y[t][i]
    PROVE  Total({i \in DOMAIN gs : ExpiresAt(gs[i]) <= now}, Unpaid(gs, us, paid)) = Wasted(gs, us, y, now)
  <1>1. ASSUME NEW i \in DOMAIN gs
        PROVE  Unpaid(gs, us, paid)[i] = Rest(gs, us, y, now)[i] /\ Unpaid(gs, us, paid)[i] \in Int
    <2>1. PICK c : c = Column(us, y, i)
      OBVIOUS
    <2>2. \A t \in DOMAIN us : c[t] = Cardinality(PaidIn(us, paid, t, i)) /\ c[t] = y[t][i] /\ c[t] \in Int
      <3>1. \A t \in DOMAIN us : WayOf(gs, us, paid)[t][i] = Cardinality(PaidIn(us, paid, t, i))
        BY DEF WayOf
      <3>2. \A t \in DOMAIN us : c[t] = y[t][i]
        BY <2>1 DEF Column
      <3>3. \A t \in DOMAIN us : y[t][i] \in Int
        BY DEF Way
      <3> QED
        BY <3>1, <3>2, <3>3
    <2>3. Cardinality(PaidFrom(us, paid, i)) = Total(DOMAIN us, c)
      BY <2>2, GrantCounts
    <2>4. IsFiniteSet(DOMAIN us) /\ Past(us, now) \in SUBSET DOMAIN us
      BY PastIs
    <2>5. \A t \in DOMAIN us \ Past(us, now) : c[t] = 0
      <3>1. ASSUME NEW t \in DOMAIN us, ~(t <= now) PROVE c[t] = 0
        <4>1. t \in Int
          BY DEF Ledger
        <4>2. us[t] = 0
          BY <3>1, <4>1
        <4>3. Total(DOMAIN gs, y[t]) = 0 /\ \A j \in DOMAIN gs : y[t][j] \in Nat
          BY <4>2 DEF Way
        <4>4. IsFiniteSet(DOMAIN gs) /\ \A j \in DOMAIN gs : y[t][j] \in Int /\ y[t][j] >= 0
          BY <4>3, RowNumbers
        <4>5. y[t][i] <= Total(DOMAIN gs, y[t])
          BY <4>4, PartOfTotal
        <4> QED
          BY <2>2, <4>3, <4>5
      <3> QED
        BY <3>1 DEF Past
    <2>6. Total(DOMAIN us, c) = Total(Past(us, now), c) /\ Total(Past(us, now), c) \in Int
      BY <2>2, <2>4, <2>5, TotalInPart
    <2>7. Rest(gs, us, y, now)[i] = gs[i].credits - Total(Past(us, now), c)
      BY <2>1 DEF Rest
    <2>8. Unpaid(gs, us, paid)[i] = gs[i].credits - Cardinality(PaidFrom(us, paid, i))
      BY DEF Unpaid
    <2>9. gs[i].credits \in Int
      BY DEF Rows
    <2> QED
      BY <2>3, <2>6, <2>7, <2>8, <2>9
  <1>2. PICK S : S = {i \in DOMAIN gs : ExpiresAt(gs[i]) <= now}
    OBVIOUS
  <1>3. IsFiniteSet(S) /\ \A i \in S : Unpaid(gs, us, paid)[i] \in Int /\ Unpaid(gs, us, paid)[i] = Rest(gs, us, y, now)[i]
    BY <1>1, <1>2, RowNumbers
  <1>4. Total(S, Unpaid(gs, us, paid)) = Total(S, Rest(gs, us, y, now))
    BY <1>3, TotalSame
  <1> QED
    BY <1>2, <1>4 DEF Wasted
------------------------------------------------------------------------------
(* Soonest to lapse first wastes the least. *)

\* Nothing was used before there was an account.
NotBefore == since # None => \A t \in DOMAIN usage : t < since => usage[t] = 0

LEMMA StepNotBefore == ASSUME Inv, Spending, NotBefore, [Next]_vars PROVE NotBefore'
  <1>1. TypeInv /\ Calendar /\ NotYet
    BY DEF Inv, Spending
  <1>2. /\ since \in (0..LastMonth) \cup {None} /\ None \notin 0..LastMonth /\ LastMonth \in Nat
        /\ usage \in [0..LastMonth -> Int] /\ month \in 0..LastMonth /\ (since # None => since <= month)
    BY <1>1, BillingAssumption DEF TypeInv, OwnerOK, LedgerOK, Calendar
  <1>3. since' = since \/ (since = None /\ usage' = usage)
    BY <1>1, StepGrows DEF Still, Grows
  <1>4. usage' = usage \/ \E n : usage' = [usage EXCEPT ![month] = n]
    <2>1. ASSUME NEW j \in Jobs, CanSpend(j) \/ Spend(j) PROVE usage' = usage \/ \E n : usage' = [usage EXCEPT ![month] = n]
      BY <2>1 DEF CanSpend, Spend
    <2>2. RefundCall => \E n : usage' = [usage EXCEPT ![month] = n]
      BY DEF RefundCall
    <2>3. Tick => usage' = usage
      BY DEF Tick
    <2> QED
      BY <1>1, <2>1, <2>2, <2>3, StepSpends
  <1>5. CASE since = None /\ usage' = usage
    <2>1. \A t \in DOMAIN usage : usage[t] = 0
      BY <1>1, <1>5 DEF NotYet
    <2> QED
      BY <1>5, <2>1 DEF NotBefore
  <1>6. CASE since' = since
    <2> SUFFICES ASSUME since # None, NEW t \in DOMAIN usage', t < since PROVE usage'[t] = 0
      BY <1>6 DEF NotBefore
    <2>1. DOMAIN usage' = DOMAIN usage
      BY <1>4
    <2>2. t \in DOMAIN usage /\ t \in Int /\ since \in Int /\ since <= month /\ month \in Int
      BY <1>2, <2>1
    <2>3. t # month
      BY <2>2
    <2>4. usage'[t] = usage[t]
      BY <1>4, <2>2, <2>3
    <2> QED
      BY <2>2, <2>4 DEF NotBefore
  <1> QED
    BY <1>3, <1>5, <1>6

\* The scene of an owner whose rows all give, and who was given no call back.
LEMMA OwnersScene ==
    ASSUME Inv, Spending, NotBefore, since # None,
           \A i \in DOMAIN grants : grants[i].credits > 0, \A t \in DOMAIN usage : usage[t] >= 0
    PROVE  Scene(grants, usage, since, month)
  <1>1. TypeInv /\ Calendar /\ Fresh
    BY DEF Inv, Spending
  <1>2. /\ since \in Nat /\ since <= month /\ month \in 0..LastMonth /\ LastMonth \in Nat
        /\ usage \in [0..LastMonth -> Int] /\ Dated(grants, month)
    BY <1>1, BillingAssumption DEF TypeInv, OwnerOK, LedgerOK, Calendar
  <1>3. Rows(grants) /\ \A i \in DOMAIN grants : grants[i].at <= month
    BY <1>2, DatedRows
  <1>4. Ledger(usage) /\ month \in Nat /\ month < Never
    BY <1>1, UsageIsLedger
  <1>5. Gives(grants)
    BY DEF Gives
  <1>6. since..month \in SUBSET DOMAIN usage
    BY <1>2
  <1>7. ASSUME NEW t \in DOMAIN usage, t \notin since..month PROVE usage[t] = 0
    <2>1. t \in Int /\ (t < since \/ month < t)
      BY <1>2, <1>7
    <2> QED
      BY <1>1, <2>1 DEF Fresh, NotBefore
  <1> QED
    BY <1>2, <1>3, <1>4, <1>5, <1>6, <1>7 DEF Scene

\* LapsedIn is a total of what is not paid.
Lapsing == {i \in DOMAIN grants : ExpiresAt(grants[i]) <= month}
Unspent(paid, i) == grants[i].credits - Cardinality({u \in Units : paid[u] = i})
Falls(S, paid, g) == [s \in SUBSET S |-> IF s = {} THEN 0 ELSE Unspent(paid, Any(s)) + g[s \ {Any(s)}]]

LEMMA LapsedInIs == ASSUME NEW paid PROVE LapsedIn(paid) = (CHOOSE g : g = Falls(Lapsing, paid, g))[Lapsing]
  BY DEF LapsedIn, MapThenSumSet, MapThenFoldSet, Falls, Unspent, Lapsing, Any

LEMMA LapsedInTotals ==
    ASSUME IsFiniteSet(Lapsing), NEW paid
    PROVE  LapsedIn(paid) = Total(Lapsing, Unpaid(grants, usage, paid))
  <1>1. PICK S, f : S = Lapsing /\ f = Unpaid(grants, usage, paid)
    OBVIOUS
  <1>2. \A i \in S : f[i] = Unspent(paid, i)
    <2>1. S \in SUBSET DOMAIN grants
      BY <1>1 DEF Lapsing
    <2>2. \A i \in DOMAIN grants : f[i] = grants[i].credits - Cardinality(PaidFrom(usage, paid, i))
      BY <1>1 DEF Unpaid
    <2>3. \A i : PaidFrom(usage, paid, i) = {u \in Units : paid[u] = i}
      BY DEF PaidFrom, UnitsOf, Units
    <2> QED
      BY <2>1, <2>2, <2>3 DEF Unspent
  <1>3. \A s \in SUBSET S : s # {} => f[Any(s)] = Unspent(paid, Any(s))
    <2>1. ASSUME NEW s \in SUBSET S, s # {} PROVE f[Any(s)] = Unspent(paid, Any(s))
      <3>1. Any(s) \in s
        BY <2>1, AnyIn
      <3>2. Any(s) \in S
        BY <3>1
      <3> QED
        BY <1>2, <3>2
    <2> QED
      BY <2>1
  <1>4. ASSUME NEW g PROVE Sums(S, f, g) = Falls(S, paid, g)
    BY <1>3 DEF Sums, Falls
  <1>5. \E g : g = Sums(S, f, g)
    BY <1>1, SumsExist
  <1>6. PICK c : c = CHOOSE g : g = Falls(S, paid, g)
    OBVIOUS
  <1>7. c = Falls(S, paid, c)
    <2>1. \E g : g = Falls(S, paid, g)
      BY <1>4, <1>5
    <2> QED
      BY <1>6, <2>1
  <1>8. c = Sums(S, f, c)
    BY <1>4, <1>7
  <1>9. Total(S, f) = c[S]
    <2>1. S \in SUBSET S
      OBVIOUS
    <2> QED
      BY <1>1, <1>8, <2>1, SumsAreTotals
  <1>10. LapsedIn(paid) = c[S]
    BY <1>1, <1>6, LapsedInIs
  <1> QED
    BY <1>1, <1>9, <1>10

LEMMA AllotmentsAre == ASSUME NEW paid PROVE paid \in Allotments <=> Allots(grants, usage, paid)
  <1>1. Units = UnitsOf(usage)
    BY DEF Units, UnitsOf
  <1>2. \A i : PaidFrom(usage, paid, i) = {u \in Units : paid[u] = i}
    BY <1>1 DEF PaidFrom
  <1>3. paid \in Allotments <=>
           /\ paid \in [Units -> DOMAIN grants]
           /\ \A u \in Units : grants[paid[u]].at <= u[1] /\ u[1] < ExpiresAt(grants[paid[u]])
           /\ \A i \in DOMAIN grants : Cardinality({u \in Units : paid[u] = i}) <= grants[i].credits
    BY Zenon DEF Allotments
  <1>4. (\A i \in DOMAIN grants : Cardinality({u \in Units : paid[u] = i}) <= grants[i].credits)
        <=> \A i \in DOMAIN grants : Cardinality(PaidFrom(usage, paid, i)) <= grants[i].credits
    BY <1>2
  <1>5. paid \in Allotments <=>
           /\ paid \in [UnitsOf(usage) -> DOMAIN grants]
           /\ \A u \in UnitsOf(usage) : grants[paid[u]].at <= u[1] /\ u[1] < ExpiresAt(grants[paid[u]])
           /\ \A i \in DOMAIN grants : Cardinality(PaidFrom(usage, paid, i)) <= grants[i].credits
    BY <1>1, <1>3, <1>4
  <1> QED
    BY <1>5, Zenon DEF Allots

LEMMA InvLapsesLeast == ASSUME Inv, Spending, NotBefore PROVE LapsesLeast
  <1> SUFFICES ASSUME since # None, \A i \in DOMAIN grants : grants[i].credits > 0, \A t \in DOMAIN usage : usage[t] >= 0,
                      NEW other \in Allotments
               PROVE  /\ \E paid \in Allotments : Balance.lapsed = LapsedIn(paid)
                      /\ \A paid \in Allotments : Balance.lapsed <= LapsedIn(paid)
    BY DEF LapsesLeast
  <1>1. PICK gs, us, start, now : gs = grants /\ us = usage /\ start = since /\ now = month
    OBVIOUS
  <1>2. Scene(gs, us, start, now)
    BY <1>1, OwnersScene
  <1>3. /\ Rows(gs) /\ Ledger(us) /\ (\A t \in DOMAIN us : us[t] >= 0) /\ start \in Nat /\ now \in Nat /\ now \in Int
        /\ start <= now /\ now < Never /\ \A t \in DOMAIN us : now < t => us[t] = 0
    <2>1. \A t \in DOMAIN us : now < t => us[t] = 0
      BY <1>1 DEF Spending, Fresh
    <2> QED
      BY <1>2, <2>1, SceneParts
  <1>4. PICK best : best = Greedy(gs, us, start, now)
    OBVIOUS
  <1>5. Balance.lapsed = Rounds(gs, us, start..now)[now].lapsed
    <2>1. balance(gs, us, start, now) = MonthByMonth(gs, us, start, now)
      BY <1>3, PointsAreEnough
    <2>2. MonthByMonth(gs, us, start, now).lapsed = Rounds(gs, us, start..now)[now].lapsed
      BY DEF MonthByMonth, Result
    <2>3. Balance = balance(gs, us, start, now)
      BY <1>1 DEF Balance
    <2> QED
      BY <2>1, <2>2, <2>3
  <1>6. ASSUME NEW paid, Allots(gs, us, paid), NEW y, Way(gs, us, y),
               \A t \in DOMAIN us : \A i \in DOMAIN gs : WayOf(gs, us, paid)[t][i] = y[t][i]
        PROVE  LapsedIn(paid) = Wasted(gs, us, y, now)
    <2>1. Lapsing = {i \in DOMAIN gs : ExpiresAt(gs[i]) <= now}
      BY <1>1 DEF Lapsing
    <2>2. Lapsing \in SUBSET DOMAIN gs
      BY <2>1
    <2>3. IsFiniteSet(Lapsing)
      BY <1>3, <2>2, RowNumbers
    <2>4. LapsedIn(paid) = Total(Lapsing, Unpaid(gs, us, paid))
      BY <1>1, <2>3, LapsedInTotals
    <2>5. Total({i \in DOMAIN gs : ExpiresAt(gs[i]) <= now}, Unpaid(gs, us, paid)) = Wasted(gs, us, y, now)
      BY <1>3, <1>6, UnpaidIsWasted
    <2> QED
      BY <2>1, <2>4, <2>5
  <1>7. ASSUME NEW paid \in Allotments
        PROVE  /\ Way(gs, us, best) /\ Balance.lapsed = Wasted(gs, us, best, now)
               /\ Balance.lapsed <= LapsedIn(paid)
    <2>1. Allots(gs, us, paid)
      BY <1>1, AllotmentsAre
    <2>2. PICK y : y = WayOf(gs, us, paid)
      OBVIOUS
    <2>3. Way(gs, us, y)
      BY <1>3, <2>1, <2>2, AllotsIsWay
    <2>4. LapsedIn(paid) = Wasted(gs, us, y, now)
      BY <1>6, <2>1, <2>2, <2>3
    <2>5. /\ Way(gs, us, best)
          /\ Rounds(gs, us, start..now)[now].lapsed = Wasted(gs, us, best, now)
          /\ Wasted(gs, us, best, now) <= Wasted(gs, us, y, now)
      BY <1>2, <1>4, <2>3, GreedyIsBest
    <2> QED
      BY <1>5, <2>4, <2>5
  <1>8. \E paid \in Allotments : Balance.lapsed = LapsedIn(paid)
    <2>1. Way(gs, us, best) /\ Balance.lapsed = Wasted(gs, us, best, now)
      BY <1>7
    <2>2. PICK paid : Allots(gs, us, paid) /\ \A t \in DOMAIN us : \A i \in DOMAIN gs : WayOf(gs, us, paid)[t][i] = best[t][i]
      BY <1>3, <2>1, WayIsAllots
    <2>3. LapsedIn(paid) = Wasted(gs, us, best, now)
      BY <1>6, <2>1, <2>2
    <2>4. paid \in Allotments
      BY <1>1, <2>2, AllotmentsAre
    <2> QED
      BY <2>1, <2>3, <2>4
  <1> QED
    BY <1>7, <1>8

\* Soonest to lapse first wastes the least, for any plans, prices, calendar and any way at all of paying
\* for what was used (billing/__init__.py's balance).
THEOREM LapsesLeastHolds == Spec => []LapsesLeast
  <1>1. Init => Spending /\ NotBefore
    <2>1. Init => since = None
      BY DEF Init
    <2> QED
      BY <2>1, InitSpending DEF NotBefore
  <1> DEFINE SInv == Spending /\ NotBefore
  <1>2. Inv /\ SInv /\ [Next]_vars => SInv'
    BY StepSpending, StepNotBefore
  <1>3. Inv /\ SInv => LapsesLeast
    BY InvLapsesLeast
  <1>4. Init => SInv
    BY <1>1
  <1> HIDE DEF SInv
  <1> QED
    BY <1>2, <1>3, <1>4, AlwaysInv, PTL DEF Spec
=============================================================================
