------------------------------ MODULE LockTable ------------------------------
(***************************************************************************)
(* The rows of `video_locks` and what one transaction of jobs/locks.py     *)
(* does to the row of one video.  A video with no row is Ready; a row says *)
(* who holds it and how much of its lease is left.  The code compares      *)
(* `lease_expires_at` with the clock; here a row carries what is left of   *)
(* its lease, so that "lease_expires_at <= now" is left = 0.               *)
(*                                                                         *)
(* A holder is a string with a prefix in the code: req-, turn:, gate:,     *)
(* pause:, or the bare id of an Activity job.  Here it is a kind and the   *)
(* id of the piece of work.                                                *)
(*                                                                         *)
(* A definition whose name ends in _Slip is a plausible slip in the code   *)
(* that the definition after it models; PROJECT.json says which property   *)
(* catches it.  No specification uses one.                                 *)
(***************************************************************************)
EXTENDS Integers

CONSTANTS
    Work,        \* ids of requests, turns and jobs
    Person,      \* who may start an action
    Nobody,      \* started_by of a lock no request took (a batch, a batch export)
    Ready,       \* the value of a video that has no row
    Lease,       \* LEASE: what a request, a turn or a job is given
    GateLease,   \* GATE_LEASE: a turn that waits for the user's go
    PauseLease   \* AUTO_STOP_S + LEASE_GRACE_S: a paused turn

Kinds == {"req", "turn", "job", "gate", "pause"}
Holder == [kind : Kinds, id : Work]
By(kind, w) == [kind |-> kind, id |-> w]

Starter == Person \cup {Nobody}
Lock == [holder : Holder, by : Starter, left : Nat]

ASSUME LeaseAssumption ==
    /\ Lease \in Nat \ {0}
    /\ GateLease \in Nat \ {0}
    /\ PauseLease \in Nat \ {0}
    /\ Ready \notin Lock

\* The lease a take or a hand gives a holder of this kind.
LeaseOf(kind) == CASE kind = "gate"  -> GateLease
                   [] kind = "pause" -> PauseLease
                   [] OTHER          -> Lease

Held(r, h) == r # Ready /\ r.holder = h
IsGate(r) == r # Ready /\ r.holder.kind = "gate"
IsPaused(r) == r # Ready /\ r.holder.kind = "pause"

\* VideoLocks.get: the lock in force; an expired one reads as none.
InForce(r) == r # Ready /\ r.left > 0

\* `over` in _take_lock: a gate may be taken over by the person whose turn waits, and one that
\* nobody started by anyone.
OverGate_Slip(r, p) == IsGate(r)
OverGate(r, p) == IsGate(r) /\ r.by \in {Nobody, p}

\* VideoLocks.take_in: free, expired, already ours, or one `over` lets through.
MayTake_Slip(r, h, p, overGate) == ~InForce(r) \/ overGate
MayTake(r, h, p, overGate) ==
    \/ ~InForce(r)
    \/ Held(r, h)
    \/ overGate /\ OverGate(r, p)

Taken(h, p) == [holder |-> h, by |-> p, left |-> LeaseOf(h.kind)]

\* VideoLocks.hand_in: the row passes from `old` to `new`; nothing when `old` no longer has it
\* (the lease left is not looked at).
Handed(r, old, new) ==
    IF Held(r, old) THEN [r EXCEPT !.holder = new, !.left = LeaseOf(new.kind)] ELSE r

\* VideoLocks.release / release_in: only the holder's row goes.
Released(r, h) == IF Held(r, h) THEN Ready ELSE r

\* VideoLocks.renew: the holder's lease starts again, at LEASE whatever the kind.
Renewed(r, h) == IF Held(r, h) THEN [r EXCEPT !.left = Lease] ELSE r

\* VideoLocks.sweep: a row whose lease ran out is deleted.
Swept_Slip(r) == IF r # Ready /\ r.left <= 1 THEN Ready ELSE r
Swept(r) == IF r # Ready /\ r.left = 0 THEN Ready ELSE r

\* VideoLocks.clear_leftovers: a restart deletes every row but a gate's or a pause's.
Kept(r) == IF IsGate(r) \/ IsPaused(r) THEN r ELSE Ready
==============================================================================
