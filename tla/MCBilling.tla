------------------------------ MODULE MCBilling ------------------------------
(* Two plans, of which the second is worth more.  A behaviour either pays and is *)
(* refunded, with webhooks and a crash, or spends what it bought at once and was *)
(* given: `part` says which.                                                     *)
EXTENDS Billing, TLC
VARIABLE part
Worth == ("A" :> 1) @@ ("B" :> 2)
Sym == Permutations(Checkouts) \cup Permutations(Handlers) \cup Permutations(Jobs)

AtOnce == \A c \in Checkouts : event[c] = "none" /\ orders[c].paid = (orders[c].item # None)
Hosted == \A h \in Handlers : handler[h].pc # "grant"
Requests == Cardinality({h \in Handlers : handler[h] # Idle})
Refunds == Cardinality({a \in Admins : admin[a] # Resting})

Bought(items) == \A c \in Checkouts : orders[c].item \in items \cup {None}

Paying ==
    /\ Hosted /\ Bought(Plans) /\ Requests + Refunds <= 2
    /\ Cardinality({c \in Checkouts : orders[c].browser}) <= 1
    /\ asked = {} /\ Used = 0 /\ month = 0 /\ given = 0
Spending ==
    /\ AtOnce /\ Bought({"A", "topup"}) /\ Requests <= (IF asked = {} THEN 1 ELSE 0)
    /\ crashes = 0 /\ (\A c \in Checkouts : refunded[c] = "none") /\ \A t \in 0..LastMonth : usage[t] \in -1..2

AllVars == <<since, plan, grants, usage, month, orders, invoices, event, seen, handler,
             refunded, sentBack, admin, asked, given, crashes, part>>

MCInit == Init /\ part \in {"paying", "spending"}
MCNext ==
    /\ Next
    /\ part = "paying" => Paying'
    /\ part = "spending" => Spending'
    /\ UNCHANGED part
MCSpec == MCInit /\ [][MCNext]_AllVars
==============================================================================
