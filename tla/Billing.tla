------------------------------- MODULE Billing -------------------------------
(***************************************************************************)
(* What one owner buys (billing/__init__.py): the account made on first    *)
(* read, checkouts at a payment provider, the provider's webhooks and the  *)
(* browser's signed payment that confirm them (billing/webhooks.py,        *)
(* billing_api.py), refunds, an admin's credits, and the check that lets   *)
(* work spend.  What is left is CreditBalance's `balance`.                 *)
(*                                                                         *)
(* Each action is one transaction of the code, so any two requests         *)
(* interleave between theirs.  A provider sends a payment's event until    *)
(* it is answered: it may arrive twice, late, or again while the first is  *)
(* still handled.                                                          *)
(*                                                                         *)
(* X_Slip is a slip in the code X models (see LockTable).                  *)
(***************************************************************************)
EXTENDS CreditBalance

CONSTANTS
    Plans, PlanCredits,    \* PLANS: the plans, and the credits of a month of each
    TrialCredits, TopupCredits, GivenCredits,
    Checkouts,             \* checkouts ever opened
    Handlers,              \* requests handled at a time: a webhook, or a browser's confirmation
    Admins,                \* refunds under way at a time
    Jobs,                  \* work that asks before it spends one credit
    None,
    LastMonth,             \* bound on the calendar
    MaxGiven, MaxUsed,     \* bounds on an admin's grants and on the credits spent
    MaxCrashes

ASSUME BillingAssumption ==
    /\ PlanCredits \in [Plans -> Nat \ {0}] /\ None \notin Plans /\ "topup" \notin Plans
    /\ {TrialCredits, TopupCredits, GivenCredits} \subseteq Nat \ {0}
    /\ None \notin Checkouts /\ None # "topup" /\ None \notin 0..LastMonth /\ IsFiniteSet(Jobs)
    /\ {LastMonth, MaxGiven, MaxUsed, MaxCrashes} \subseteq Nat /\ LastMonth < Never

VARIABLES
    since,      \* billing_accounts.created_at, None until the account is made
    plan,       \* billing_accounts.plan
    grants,     \* credit_grants, as CreditBalance takes them
    usage,      \* what the ledger recorded, month by month
    month,
    orders,     \* [Checkouts -> what it buys, whether the money was taken, its billing_paid key,
                \*               whether the browser still has the payment to hand in]
    invoices,   \* [Checkouts -> invoices issued for it, and billing_bought of them]
    event,      \* [Checkouts -> the provider's event: "none", "sent" or "answered"]
    seen,       \* the billing_event keys
    handler,    \* [Handlers -> where it is, the checkout, and whether a webhook brought it]
    refunded,   \* [Checkouts -> the billing_refund key: "none", "claimed" or "refunded"]
    sentBack,   \* [Checkouts -> how often the provider gave the money back]
    admin,      \* [Admins -> where it is, the checkout]
    asked,      \* the jobs that can_spend let through and that have not spent yet
    given, crashes

owner == <<since, plan, grants>>
payments == <<orders, invoices, event, seen, handler>>
refunds == <<refunded, sentBack, admin>>
bounds == <<given, crashes>>
vars == <<owner, usage, month, payments, refunds, asked, bounds>>

Items == Plans \cup {"topup"}
Idle == [pc |-> "idle", of |-> None, hook |-> FALSE]
Resting == [pc |-> "idle", of |-> None]
Unopened == [item |-> None, paid |-> FALSE, claimed |-> FALSE, browser |-> FALSE]

Unread ==
    /\ plan = None /\ grants = <<>>
    /\ orders = [c \in Checkouts |-> Unopened]
    /\ invoices = [c \in Checkouts |-> [count |-> 0, credits |-> 0, plan |-> None]]
    /\ event = [c \in Checkouts |-> "none"] /\ seen = {}
    /\ handler = [h \in Handlers |-> Idle]
    /\ refunded = [c \in Checkouts |-> "none"] /\ sentBack = [c \in Checkouts |-> 0]
    /\ admin = [a \in Admins |-> Resting]
    /\ crashes = 0

Init ==
    /\ Unread
    /\ since = None /\ month = 0 /\ usage = [t \in 0..LastMonth |-> 0]
    /\ asked = {} /\ given = 0

\* `for` is what the row's reference says: the plan, or the payment a refund is of.
Grant(kind, credits, what) == [kind |-> kind, credits |-> credits, for |-> what, at |-> month]
PlanGrantsNow == {i \in DOMAIN grants : grants[i].kind = "plan" /\ grants[i].at = month}
HasPlanGrant(p) == \E i \in PlanGrantsNow : grants[i].for = p
------------------------------------------------------------------------------
(* The account *)

\* account: the trial on the first read, the plan's credits on the first read of a month.
Account ==
    IF since = None THEN <<Grant("trial", TrialCredits, None)>>
    ELSE IF plan # None /\ PlanGrantsNow = {} THEN Append(grants, Grant("plan", PlanCredits[plan], plan))
    ELSE grants

ReadAccount(then) ==
    /\ grants' = then
    /\ since' = IF since = None THEN month ELSE since
    /\ UNCHANGED plan

View ==
    /\ ReadAccount(Account) /\ grants' # grants
    /\ UNCHANGED <<usage, month, payments, refunds, asked, bounds>>

Tick ==
    /\ month < LastMonth /\ month' = month + 1
    /\ UNCHANGED <<owner, usage, payments, refunds, asked, bounds>>
------------------------------------------------------------------------------
(* Buying *)

\* buy_plan, buy_topup: a plan other than the one the account is on.
MayBuy(item) == item # plan

\* _start: the provider opens a checkout, and what it buys is kept under its id (billing_pending).
Open(c, item) ==
    /\ orders[c] = Unopened /\ MayBuy(item)
    /\ ReadAccount(Account)
    /\ orders' = [orders EXCEPT ![c].item = item]
    /\ UNCHANGED <<usage, month, invoices, event, seen, handler, refunds, asked, bounds>>

\* A provider without keys takes no money and says paid at once: the request completes the purchase.
BuyAtOnce(h, c, item) ==
    /\ handler[h] = Idle /\ orders[c] = Unopened /\ MayBuy(item)
    /\ ReadAccount(Account)
    /\ orders' = [orders EXCEPT ![c].item = item, ![c].paid = TRUE]
    /\ handler' = [handler EXCEPT ![h] = [pc |-> "grant", of |-> c, hook |-> FALSE]]
    /\ UNCHANGED <<usage, month, invoices, event, seen, refunds, asked, bounds>>

\* The buyer pays on the provider's page, which sends an event, and hands the browser a signed payment.
Pay(c) ==
    /\ orders[c].item # None /\ ~orders[c].paid
    /\ orders' = [orders EXCEPT ![c].paid = TRUE, ![c].browser = TRUE]
    /\ event' = [event EXCEPT ![c] = "sent"]
    /\ UNCHANGED <<owner, usage, month, invoices, seen, handler, refunds, asked, bounds>>

\* handle_stripe, handle_razorpay: an event that is remembered is answered "duplicate".
Deliver_Slip(h, c) ==
    /\ handler[h] = Idle /\ event[c] = "sent"
    /\ IF c \in seen
       THEN event' = [event EXCEPT ![c] = "answered"] /\ UNCHANGED handler
       ELSE handler' = [handler EXCEPT ![h] = [pc |-> "account", of |-> c, hook |-> TRUE]] /\ UNCHANGED event
    /\ seen' = seen \cup {c}
    /\ UNCHANGED <<owner, usage, month, orders, invoices, refunds, asked, bounds>>
Deliver(h, c) ==
    /\ handler[h] = Idle /\ event[c] = "sent"
    /\ IF c \in seen
       THEN event' = [event EXCEPT ![c] = "answered"] /\ UNCHANGED handler
       ELSE handler' = [handler EXCEPT ![h] = [pc |-> "account", of |-> c, hook |-> TRUE]] /\ UNCHANGED event
    /\ UNCHANGED <<owner, usage, month, orders, invoices, seen, refunds, asked, bounds>>

\* razorpay_verify: the browser hands in the payment.
Verify(h, c) ==
    /\ handler[h] = Idle /\ orders[c].browser
    /\ orders' = [orders EXCEPT ![c].browser = FALSE]
    /\ handler' = [handler EXCEPT ![h] = [pc |-> "account", of |-> c, hook |-> FALSE]]
    /\ UNCHANGED <<owner, usage, month, invoices, event, seen, refunds, asked, bounds>>

\* fulfil reads the account of the checkout it was told of.
FulfilReads(h) ==
    /\ handler[h].pc = "account"
    /\ ReadAccount(Account)
    /\ handler' = [handler EXCEPT ![h].pc = "claim"]
    /\ UNCHANGED <<usage, month, orders, invoices, event, seen, refunds, asked, bounds>>

\* _complete: a plan's credits once for each plan and month, a top-up's always; and the invoice.
Granted(item) == IF item = "topup" THEN TopupCredits ELSE IF HasPlanGrant(item) THEN 0 ELSE PlanCredits[item]

Complete(c, item) ==
    LET credits == Granted(item)
        bought == IF item \in Plans THEN item ELSE None
    IN  /\ plan' = IF item \in Plans THEN item ELSE plan
        /\ grants' = IF credits = 0 THEN grants
                     ELSE Append(grants, Grant(IF item \in Plans THEN "plan" ELSE "topup", credits, bought))
        /\ invoices' = [invoices EXCEPT ![c] = [count |-> @.count + 1, credits |-> credits, plan |-> bought]]
        /\ UNCHANGED since

AfterFulfil(h) == IF handler[h].hook THEN [handler[h] EXCEPT !.pc = "remember"] ELSE Idle

\* fulfil: the first to write billing_paid completes the purchase, in the same transaction.
Claim_Slip(h) ==
    LET c == handler[h].of
    IN  /\ handler[h].pc = "claim"
        /\ Complete(c, orders[c].item)
        /\ orders' = [orders EXCEPT ![c].claimed = TRUE]
        /\ handler' = [handler EXCEPT ![h] = AfterFulfil(h)]
        /\ UNCHANGED <<usage, month, event, seen, refunds, asked, bounds>>
Claim(h) ==
    LET c == handler[h].of
    IN  /\ handler[h].pc = "claim"
        /\ IF orders[c].claimed THEN UNCHANGED <<owner, invoices>> ELSE Complete(c, orders[c].item)
        /\ orders' = [orders EXCEPT ![c].claimed = TRUE]
        /\ handler' = [handler EXCEPT ![h] = AfterFulfil(h)]
        /\ UNCHANGED <<usage, month, event, seen, refunds, asked, bounds>>

\* buy_plan, buy_topup with a provider that paid at once.
CompleteAtOnce(h) ==
    LET c == handler[h].of
    IN  /\ handler[h].pc = "grant"
        /\ Complete(c, orders[c].item)
        /\ handler' = [handler EXCEPT ![h] = Idle]
        /\ UNCHANGED <<usage, month, orders, event, seen, refunds, asked, bounds>>

\* _remember: the event's id, once it was handled.
Remember(h) ==
    /\ handler[h].pc = "remember"
    /\ seen' = seen \cup {handler[h].of}
    /\ handler' = [handler EXCEPT ![h].pc = "answer"]
    /\ UNCHANGED <<owner, usage, month, orders, invoices, event, refunds, asked, bounds>>

Answer(h) ==
    /\ handler[h].pc = "answer"
    /\ event' = [event EXCEPT ![handler[h].of] = "answered"]
    /\ handler' = [handler EXCEPT ![h] = Idle]
    /\ UNCHANGED <<owner, usage, month, orders, invoices, seen, refunds, asked, bounds>>
------------------------------------------------------------------------------
(* Refunds, and an admin's credits *)

\* refund: one claim for each invoice; what it granted is read with it.
ClaimRefund_Slip(a, c) ==
    /\ admin[a] = Resting /\ invoices[c].count > 0
    /\ refunded' = [refunded EXCEPT ![c] = "claimed"]
    /\ admin' = [admin EXCEPT ![a] = [pc |-> "ask", of |-> c]]
    /\ UNCHANGED <<owner, usage, month, payments, sentBack, asked, bounds>>
ClaimRefund(a, c) ==
    /\ admin[a] = Resting /\ invoices[c].count > 0 /\ refunded[c] = "none"
    /\ refunded' = [refunded EXCEPT ![c] = "claimed"]
    /\ admin' = [admin EXCEPT ![a] = [pc |-> "ask", of |-> c]]
    /\ UNCHANGED <<owner, usage, month, payments, sentBack, asked, bounds>>

\* The provider knows the invoice's refund by its idempotency key, and gives the money back once.
GivesBack(c) == sentBack' = [sentBack EXCEPT ![c] = 1]

\* The provider gives the money back and says so; or it refuses, or its answer is lost (ProviderError).
AskProvider(a) ==
    LET c == admin[a].of
    IN  /\ admin[a].pc = "ask"
        /\ \/ GivesBack(c) /\ admin' = [admin EXCEPT ![a].pc = "take"]
           \/ GivesBack(c) /\ admin' = [admin EXCEPT ![a].pc = "undo"]
           \/ UNCHANGED sentBack /\ admin' = [admin EXCEPT ![a].pc = "undo"]
        /\ UNCHANGED <<owner, usage, month, payments, refunded, asked, bounds>>

\* The credits the invoice granted go, and the plan it started.
TakeBack(a) ==
    LET c == admin[a].of
        took == invoices[c].credits
    IN  /\ admin[a].pc = "take"
        /\ refunded' = [refunded EXCEPT ![c] = "refunded"]
        /\ grants' = IF took = 0 THEN grants ELSE Append(grants, Grant("refund", -took, c))
        /\ plan' = IF invoices[c].plan = plan THEN None ELSE plan
        /\ admin' = [admin EXCEPT ![a] = Resting]
        /\ UNCHANGED <<since, usage, month, payments, sentBack, asked, bounds>>

\* The refund did not go through: the claim is taken off, and the next one may try.
Undo(a) ==
    /\ admin[a].pc = "undo"
    /\ refunded' = [refunded EXCEPT ![admin[a].of] = "none"]
    /\ admin' = [admin EXCEPT ![a] = Resting]
    /\ UNCHANGED <<owner, usage, month, payments, sentBack, asked, bounds>>

\* admin_grant: credits given, or a reversal.
AdminGrant(credits) ==
    /\ given < MaxGiven /\ given' = given + 1
    /\ since' = IF since = None THEN month ELSE since
    /\ grants' = Append(Account, Grant(IF credits > 0 THEN "admin" ELSE "refund", credits, None))
    /\ UNCHANGED <<plan, usage, month, payments, refunds, asked, crashes>>
------------------------------------------------------------------------------
(* Spending *)

Left(g) == balance(g, usage, since, month).left

\* can_spend: credits are left.  The work is paid for later.
MaySpend_Slip(j) == TRUE
MaySpend(j) == Left(Account) > 0
CanSpend(j) ==
    /\ j \notin asked /\ since # None /\ MaySpend(j)
    /\ ReadAccount(Account)
    /\ asked' = asked \cup {j}
    /\ UNCHANGED <<usage, month, payments, refunds, bounds>>

Used == Total(DOMAIN usage, usage)

\* The vendor call is recorded in the ledger.
Spend(j) ==
    /\ j \in asked /\ Used < MaxUsed
    /\ usage' = [usage EXCEPT ![month] = @ + 1]
    /\ asked' = asked \ {j}
    /\ UNCHANGED <<owner, month, payments, refunds, bounds>>

\* A call that failed is given back as a negative row.
RefundCall ==
    /\ Used > 0
    /\ usage' = [usage EXCEPT ![month] = @ - 1]
    /\ UNCHANGED <<owner, month, payments, refunds, asked, bounds>>
------------------------------------------------------------------------------
\* The server goes down: its requests end where they are.
Crash ==
    /\ crashes < MaxCrashes /\ crashes' = crashes + 1
    /\ handler' = [h \in Handlers |-> Idle]
    /\ admin' = [a \in Admins |-> Resting]
    /\ asked' = {}
    /\ UNCHANGED <<owner, usage, month, orders, invoices, event, seen, refunded, sentBack, given>>

Handle(h) == FulfilReads(h) \/ Claim(h) \/ CompleteAtOnce(h) \/ Remember(h) \/ Answer(h)
Refunding(a) == AskProvider(a) \/ TakeBack(a) \/ Undo(a)

Next ==
    \/ View \/ Tick \/ RefundCall \/ Crash
    \/ \E c \in Checkouts : Pay(c) \/ \E item \in Items : Open(c, item)
    \/ \E h \in Handlers, c \in Checkouts :
          Deliver(h, c) \/ Verify(h, c) \/ \E item \in Items : BuyAtOnce(h, c, item)
    \/ \E h \in Handlers : Handle(h)
    \/ \E a \in Admins : Refunding(a) \/ \E c \in Checkouts : ClaimRefund(a, c)
    \/ \E credits \in {GivenCredits, -GivenCredits} : AdminGrant(credits)
    \/ \E j \in Jobs : CanSpend(j) \/ Spend(j)

Spec == Init /\ [][Next]_vars

\* A provider sends an event until it is answered, and a request that runs goes on.
Fairness ==
    /\ \A c \in Checkouts : WF_vars(\E h \in Handlers : Deliver(h, c))
    /\ WF_vars(\E h \in Handlers : Handle(h))

FairSpec == Spec /\ Fairness
------------------------------------------------------------------------------
(* What billing promises *)

\* Types: every key of meta and every row has one of the values the code writes.
TypeOK ==
    /\ since \in (0..LastMonth) \cup {None} /\ plan \in Plans \cup {None} /\ month \in 0..LastMonth
    /\ \A i \in DOMAIN grants : grants[i].credits \in Int \ {0} /\ grants[i].at \in 0..LastMonth
    /\ usage \in [0..LastMonth -> Int]
    /\ \A c \in Checkouts : orders[c].item = None => orders[c] = Unopened
    /\ invoices \in [Checkouts -> [count : Nat, credits : Nat, plan : Plans \cup {None}]]
    /\ event \in [Checkouts -> {"none", "sent", "answered"}] /\ seen \subseteq Checkouts
    /\ \A h \in Handlers : handler[h] = Idle \/ handler[h].of \in Checkouts
    /\ refunded \in [Checkouts -> {"none", "claimed", "refunded"}] /\ sentBack \in [Checkouts -> Nat]
    /\ \A a \in Admins : admin[a] = Resting \/ admin[a].of \in Checkouts
    /\ asked \subseteq Jobs /\ given \in 0..MaxGiven /\ crashes \in 0..MaxCrashes

Credits(S) == Total(S, [i \in DOMAIN grants |-> grants[i].credits])
GrantsOf(kind, what) == {i \in DOMAIN grants : grants[i].kind = kind /\ grants[i].for = what}

\* A payment is granted once, however often its event and the browser's confirmation arrive and
\* wherever a crash falls between them (webhooks.py: "two different events for one payment still
\* grant once"): it has one invoice, never before the money was taken, its event is answered only
\* when its purchase is done, and a plan's credits come once in a month, whether the month's first
\* read grants them, a purchase does, or both at once.
PaidOnce ==
    /\ \A c \in Checkouts :
        /\ invoices[c].count <= 1
        /\ invoices[c].count = 1 => orders[c].paid
        /\ event[c] = "answered" => invoices[c].count = 1
    /\ \A i, j \in DOMAIN grants :
        grants[i].kind = "plan" /\ grants[j].kind = "plan"
        /\ grants[i].for = grants[j].for /\ grants[i].at = grants[j].at => i = j

\* A refund is whole and happens once: the provider gives the money back at most once whatever is
\* tried again, and exactly the credits the payment granted are taken back, after the money went;
\* and one that failed may be tried again (only a crash leaves a claim that nobody works on).
RefundIsWhole ==
    \A c \in Checkouts :
        /\ sentBack[c] <= 1
        /\ refunded[c] = "refunded" => sentBack[c] = 1
        /\ Credits(GrantsOf("refund", c)) = IF refunded[c] = "refunded" THEN -invoices[c].credits ELSE 0
        /\ refunded[c] = "claimed" => crashes > 0 \/ \E a \in Admins : admin[a].of = c

Balance == balance(grants, usage, since, month)

\* No credit is lost or made: what is left, what lapsed and what was used add up to what was granted;
\* and the points balance chooses to work at are enough: while no call was given back, month after
\* month comes to the same.
BalanceIsExact ==
    since # None =>
        LET b == Balance
        IN  /\ b.left + b.lapsed + b.used = Credits(DOMAIN grants)
            /\ (\A t \in DOMAIN usage : usage[t] >= 0) => b = MonthByMonth(grants, usage, since, month)

\* Each credit used, paid from a grant that had come and had not lapsed.
Units == UNION {{<<t, k>> : k \in 1..usage[t]} : t \in DOMAIN usage}
Allotments ==
    {paid \in [Units -> DOMAIN grants] :
        /\ \A u \in Units : grants[paid[u]].at <= u[1] /\ u[1] < ExpiresAt(grants[paid[u]])
        /\ \A i \in DOMAIN grants : Cardinality({u \in Units : paid[u] = i}) <= grants[i].credits}
LapsedIn(paid) ==
    MapThenSumSet(LAMBDA i : grants[i].credits - Cardinality({u \in Units : paid[u] = i}),
                  {i \in DOMAIN grants : ExpiresAt(grants[i]) <= month})

\* Soonest to lapse first wastes the least: when every credit used could be paid from a grant of its
\* time, what lapsed is the least that any way of paying could have let lapse.
LapsesLeast ==
    (since # None /\ \A i \in DOMAIN grants : grants[i].credits > 0) /\ (\A t \in DOMAIN usage : usage[t] >= 0)
    => LET all == {LapsedIn(paid) : paid \in Allotments}
           lapsed == Balance.lapsed
       IN  all # {} => lapsed \in all /\ \A n \in all : lapsed <= n

\* The check before paid work is read before it is used, so work may go past the credits: by no more
\* than one credit for each job at work, and what was taken back after it was spent.  This is of an
\* owner no past month of whom gave back more than it used: what such a month gave back goes to a
\* grant even when credits are owed, and may lapse with it while the debt stays.
OverspendIsBounded ==
    since # None /\ (\A t \in DOMAIN usage : t < month => usage[t] >= 0)
    => Balance.left >= Credits({i \in DOMAIN grants : grants[i].credits < 0}) - Cardinality(Jobs)

\* A payment whose event the provider sends is granted in the end, through duplicates and crashes.
PaidIsGranted == \A c \in Checkouts : event[c] = "sent" ~> invoices[c].count >= 1
==============================================================================
