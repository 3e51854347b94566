---------------------------- MODULE CreditBalance ----------------------------
(***************************************************************************)
(* billing.balance: what of an owner's credits is left.  The ledger is     *)
(* spent against the grants in time order, soonest to lapse first, and     *)
(* what is left of a grant lapses when it expires.                         *)
(*                                                                         *)
(* Times are ticks of one month; credits are whole.  A grant is a record   *)
(* [kind, credits, for, at]; `usage[t]` is what the ledger recorded in     *)
(* tick t, which a refunded call may make negative.                        *)
(*                                                                         *)
(* X_Slip is a slip in the code X models (see LockTable).                  *)
(***************************************************************************)
EXTENDS Integers, Sequences, FiniteSetsExt

CONSTANTS TOPUP_MONTHS, Never

ASSUME TopupAssumption == TOPUP_MONTHS \in Nat \ {0} /\ Never \in Nat

\* expires_at: a month's plan credits at its end, a top-up TOPUP_MONTHS after it was bought;
\* the trial, what an admin gave and what was taken back do not lapse.
ExpiresAt(g) == CASE g.kind = "plan"  -> g.at + 1
                  [] g.kind = "topup" -> g.at + TOPUP_MONTHS
                  [] OTHER            -> Never

Least(a, b) == IF a < b THEN a ELSE b
Total(S, f) == MapThenSumSet(LAMBDA x : f[x], S)

\* sorted(active, key=expires_at): the first to lapse first, then in the order they were granted.
Sooner_Slip(grants, i, j) == i < j
Sooner(grants, i, j) ==
    \/ ExpiresAt(grants[i]) < ExpiresAt(grants[j])
    \/ ExpiresAt(grants[i]) = ExpiresAt(grants[j]) /\ i < j

\* The loop that takes an amount from the active grants: each gives what those before it could not;
\* a negative amount (a refund) goes to the first.
TakenFrom(grants, st, i, amount) ==
    LET before == {j \in st.active : Sooner(grants, j, i)}
        rest == amount - Total(before, st.left)
    IN  IF i \notin st.active THEN 0
        ELSE IF amount < 0 THEN (IF before = {} THEN amount ELSE 0)
        ELSE IF rest <= 0 THEN 0 ELSE Least(rest, st.left[i])

Take(grants, st, amount) ==
    LET took == [i \in DOMAIN grants |-> TakenFrom(grants, st, i, amount)]
    IN  [st EXCEPT !.left = [i \in DOMAIN grants |-> @[i] - took[i]],
                   !.debt = @ + amount - Total(DOMAIN grants, took)]

\* A grant that has come by: credits pay what is owed first; a refund is owed from what is left.
Arrive_Slip(grants, st, i) ==
    IF grants[i].credits < 0
    THEN LET all == st.debt - grants[i].credits IN Take(grants, [st EXCEPT !.debt = 0], all)
    ELSE LET pays == Least(st.debt, grants[i].credits)
         IN  [st EXCEPT !.left[i] = grants[i].credits, !.debt = @ - pays, !.active = @ \cup {i}]
Arrive(grants, st, i) ==
    IF grants[i].credits < 0
    THEN LET all == st.debt - grants[i].credits IN Take(grants, [st EXCEPT !.debt = 0], all)
    ELSE LET pays == Least(st.debt, grants[i].credits)
         IN  [st EXCEPT !.left[i] = grants[i].credits - pays, !.debt = @ - pays, !.active = @ \cup {i}]

Lapse(grants, st, point) ==
    LET gone == {i \in st.active : ExpiresAt(grants[i]) <= point}
    IN  [st EXCEPT !.lapsed = @ + Total(gone, st.left),
                   !.left = [i \in DOMAIN grants |-> IF i \in gone THEN 0 ELSE @[i]],
                   !.active = @ \ gone]

\* What was granted since the last point comes by, in the order of the rows.
Come(grants, st, last, point) ==
    LET after[n \in 0..Len(grants)] ==
            IF n = 0 THEN st
            ELSE IF last < grants[n].at /\ grants[n].at <= point THEN Arrive(grants, after[n - 1], n)
            ELSE after[n - 1]
    IN  after[Len(grants)]

\* What the ledger recorded between two points; the last one runs to now and beyond.
SpentIn(usage, from, until) == Total({t \in DOMAIN usage : from <= t /\ t < until}, usage)
Earlier(points, p) == {q \in points : q < p}
Until(points, p) == LET later == {q \in points : p < q} IN IF later = {} THEN Never ELSE Min(later)

\* One round of the loop over the points: what was granted since the last one, what has lapsed,
\* and what was spent until the next.
Round(grants, usage, st, last, points, p) ==
    Take(grants, Lapse(grants, Come(grants, st, last, p), p), SpentIn(usage, p, Until(points, p)))

Nothing(grants) == [left |-> [i \in DOMAIN grants |-> 0], active |-> {}, debt |-> 0, lapsed |-> 0]

\* The rounds: where the account stands after the one at each point.
Rounds(grants, usage, points) ==
    LET stands[p \in points] ==
            IF Earlier(points, p) = {} THEN Round(grants, usage, Nothing(grants), -1, points, p)
            ELSE LET last == Max(Earlier(points, p)) IN Round(grants, usage, stands[last], last, points, p)
    IN  stands

Result(st, usage, start) ==
    [left   |-> Total(st.active, st.left) - st.debt,
     lapsed |-> st.lapsed,
     used   |-> SpentIn(usage, start, Never)]

\* The points the code works at: the start, now, and every grant and lapse between.
Points(grants, start, now) ==
    LET times == {grants[i].at : i \in DOMAIN grants} \cup {ExpiresAt(grants[i]) : i \in DOMAIN grants}
    IN  {start, now} \cup {t \in times : start < t /\ t < now}

balance(grants, usage, start, now) ==
    Result(Rounds(grants, usage, Points(grants, start, now))[now], usage, start)

\* What it means, with no choice of points: month after month.
MonthByMonth(grants, usage, start, now) == Result(Rounds(grants, usage, start..now)[now], usage, start)
===============================================================================
