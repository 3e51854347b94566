------------------------------ MODULE VoiceGuard ------------------------------
(***************************************************************************)
(* Whose voice may be cloned and spoken with (safety/voice_guard.py,       *)
(* orchestrator/clones.py): threads of a video's turns that voice a line,  *)
(* each making its speaker's clone when there is none; the checks of       *)
(* consent a speaker reads a phrase for (safety_api.py); the owner's       *)
(* withdrawal of one voice, or of the video's consent; Save to My voices;  *)
(* strikes, an admin's suspension and restore; calls the vendor or the     *)
(* database refuses, a crash and a start.  The flags voice guard and       *)
(* voices.cloning_verified are on.                                         *)
(*                                                                         *)
(* None of the routes takes the video's lock, and a turn that was stopped  *)
(* leaves its thread inside a vendor call, so lines of one video overlap.  *)
(*                                                                         *)
(* X_Slip is a slip in the code X models (see LockTable).                  *)
(***************************************************************************)
EXTENDS Naturals, FiniteSets

CONSTANTS
    Speaker, Line, Clone, Check, None,
    Limit,             \* limits: clones an account may make in the window, day or month
    Strikes,           \* STRIKES in the window
    MaxBlocks,         \* bound on blocked lines
    MaxFaults,         \* bound on deletes and clones the vendor refuses, lost records and crashes
    ConsentAlone       \* whether consent is withdrawn only while nothing else of the owner's is under way

ASSUME VoiceAssumption ==
    /\ IsFiniteSet(Speaker) /\ IsFiniteSet(Line) /\ IsFiniteSet(Clone) /\ None \notin Clone \cup Speaker
    /\ {Limit, Strikes} \subseteq Nat \ {0} /\ {MaxBlocks, MaxFaults} \subseteq Nat
    /\ ConsentAlone \in BOOLEAN

VARIABLES
    check,      \* liveness_attempts: [Check -> its status, or "none" or, its recording with the verifier, "heard"]
    clones,     \* videos.speakers: [Speaker -> the clone made for them, or None]
    rec,        \* voice_records: [Clone -> [status, vendor, who, counted]]
    there,      \* clones the vendor has
    mine,       \* clones kept in My voices
    suspended,  \* whether meta holds the account's voice_suspension
    blocks,     \* line_checks whose verdict is block
    line,       \* [Line -> [pc, who, voice]]
    refused,    \* CloneService._refused
    leaving,    \* the owner's withdrawal of a voice: [pc, voice]
    keeping,    \* the clone Save to My voices has checked, or None
    ending,     \* the withdrawal of consent: [pc, before, kept, todo, failed, now]
    ended,      \* whether consent was withdrawn, and no phrase was read since
    draining,   \* queued deletes the start has listed
    up, faults

voices == <<clones, rec, there, mine>>
account == <<suspended, blocks>>
lines == <<line, refused>>
owner == <<leaving, keeping, ending, ended>>
server == <<draining, up, faults>>
vars == <<check, voices, account, lines, owner, server>>

Statuses == {"none", "waiting", "heard", "passed", "review", "failed", "withdrawn"}
NoRecord == [status |-> "none", vendor |-> "none", who |-> None, counted |-> FALSE]
Silent == [pc |-> "idle", who |-> None, voice |-> None]
Stays == [pc |-> "idle", voice |-> None]
NotEnding == [pc |-> "idle", before |-> {}, kept |-> {}, todo |-> {}, failed |-> {}, now |-> None]

TypeOK ==
    /\ check \in [Check -> Statuses]
    /\ clones \in [Speaker -> Clone \cup {None}]
    /\ rec \in [Clone -> [status : {"none", "active", "suspended", "withdrawn"},
                          vendor : {"none", "live", "delete_queued", "deleted"},
                          who : Speaker \cup {None}, counted : BOOLEAN]]
    /\ there \subseteq Clone /\ mine \subseteq Clone
    /\ suspended \in BOOLEAN /\ blocks \in 0..MaxBlocks
    /\ line \in [Line -> [pc : {"idle", "asked", "wants", "making", "made", "set", "scope", "words", "strike"},
                          who : Speaker \cup {None}, voice : Clone \cup {None}]]
    /\ refused \subseteq Speaker
    /\ leaving \in [pc : {"idle", "delete", "mark", "compare", "forget"}, voice : Clone \cup {None}]
    /\ keeping \in Clone \cup {None}
    /\ ending \in [pc : {"idle", "purge", "delete", "forget", "mark", "clear"}, before : SUBSET Clone, kept : SUBSET Clone,
                   todo : SUBSET (Speaker \X Clone), failed : SUBSET Clone, now : Speaker \cup {None}]
    /\ ended \in BOOLEAN /\ draining \subseteq Clone
    /\ up \in BOOLEAN /\ faults \in 0..MaxFaults

Init ==
    /\ check = [a \in Check |-> "none"]
    /\ clones = [s \in Speaker |-> None] /\ rec = [c \in Clone |-> NoRecord]
    /\ there = {} /\ mine = {} /\ suspended = FALSE /\ blocks = 0
    /\ line = [l \in Line |-> Silent] /\ refused = {}
    /\ leaving = Stays /\ keeping = None /\ ending = NotEnding /\ ended = FALSE
    /\ draining = {} /\ up = TRUE /\ faults = 0

Fault == faults < MaxFaults /\ faults' = faults + 1
\* The owner's other requests, while consent is being withdrawn.
Open == up /\ (~ConsentAlone \/ ending.pc = "idle")
Write(cs, status, vendor) ==
    rec' = [c \in Clone |-> IF c \in cs /\ rec[c] # NoRecord
                            THEN [rec[c] EXCEPT !.status = status, !.vendor = vendor] ELSE rec[c]]
------------------------------------------------------------------------------
(* The checks of consent *)

\* start_liveness: one that passed is shown instead (one with a reviewer too, unless a fresh phrase is
\* asked for).  One that is over changes nothing any more, and makes room here for the next.
StartCheck(a) ==
    /\ Open /\ check[a] \in {"none", "failed", "withdrawn"}
    /\ ~\E b \in Check : check[b] = "passed"
    /\ check' = [check EXCEPT ![a] = "waiting"]
    /\ UNCHANGED <<voices, account, lines, owner, server>>

\* check_liveness up to the verifier: the row still reads waiting, unless the phrase expired.
SendRecording(a) ==
    /\ Open /\ check[a] = "waiting"
    /\ \/ check' = [check EXCEPT ![a] = "heard"] /\ ended' = FALSE
       \/ check' = [check EXCEPT ![a] = "failed"] /\ UNCHANGED ended
    /\ UNCHANGED <<voices, account, lines, leaving, keeping, ending, server>>

\* check_liveness from there: written whatever the row reads by now.
Verified(a) ==
    /\ up /\ check[a] = "heard"
    /\ \E verdict \in {"passed", "review", "failed"} : check' = [check EXCEPT ![a] = verdict]
    /\ UNCHANGED <<voices, account, lines, owner, server>>

DecideConsent(a) ==
    /\ up /\ check[a] = "review"
    /\ \E verdict \in {"passed", "failed"} : check' = [check EXCEPT ![a] = verdict]
    /\ UNCHANGED <<voices, account, lines, owner, server>>

VerifiedConsent == \E a \in Check : check[a] = "passed"
------------------------------------------------------------------------------
(* One line: _voice_for, CloneService.resolve, before_synthesis *)

At(l, pc) == up /\ line[l].pc = pc
To(l, pc) == line' = [line EXCEPT ![l].pc = pc]
Speaks(l, voice) == line' = [line EXCEPT ![l] = [pc |-> "scope", who |-> None, voice |-> voice]]
Heard(l, pc) == line' = [line EXCEPT ![l] = [Silent EXCEPT !.pc = pc]]
Ends(l) == line' = [line EXCEPT ![l] = Silent]
\* The lock of a speaker, from the second look to the record.
Cloning(s) == \E l \in Line : line[l].who = s /\ line[l].pc \in {"making", "made", "set"}

Ask(l) ==
    /\ Open /\ At(l, "idle")
    /\ IF VerifiedConsent
       THEN \E s \in Speaker : line' = [line EXCEPT ![l] = [pc |-> "asked", who |-> s, voice |-> None]]
       ELSE Speaks(l, None)
    /\ UNCHANGED <<check, voices, account, refused, owner, server>>

\* The first look at the speaker's clone, without their lock.
Look(l) ==
    /\ At(l, "asked")
    /\ LET made == clones[line[l].who] IN IF made # None THEN Speaks(l, made) ELSE To(l, "wants")
    /\ UNCHANGED <<check, voices, account, refused, owner, server>>

\* can_clone: not suspended, and under the limits of the window, whatever became of the clones made.
MayClone_Slip == ~suspended /\ Cardinality({c \in Clone : rec[c].counted /\ rec[c].status = "active"}) < Limit
MayClone == ~suspended /\ Cardinality({c \in Clone : rec[c].counted}) < Limit

\* The second look, under the lock; a refusal that is remembered; too little speech; the guard, which
\* may also refuse for the list of people no clone is made of, or want the statement confirmed first.
LookAgain_Slip(l) ==
    LET s == line[l].who IN
    /\ At(l, "wants")
    /\ \/ clones[s] # None /\ Speaks(l, clones[s])
       \/ clones[s] = None /\ s \in refused /\ Speaks(l, None)
       \/ clones[s] = None /\ s \notin refused /\ ((MayClone /\ To(l, "making")) \/ Speaks(l, None) \/ Ends(l))
    /\ UNCHANGED <<check, voices, account, refused, owner, server>>
LookAgain(l) ==
    LET s == line[l].who IN
    /\ At(l, "wants") /\ ~Cloning(s)
    /\ \/ clones[s] # None /\ Speaks(l, clones[s])
       \/ clones[s] = None /\ s \in refused /\ Speaks(l, None)
       \/ clones[s] = None /\ s \notin refused /\ ((MayClone /\ To(l, "making")) \/ Speaks(l, None) \/ Ends(l))
    /\ UNCHANGED <<check, voices, account, refused, owner, server>>

Unmade == {c \in Clone : c \notin there /\ rec[c] = NoRecord /\ ~\E l \in Line : line[l].voice = c}

\* The vendor makes a clone with a name of its own, or refuses for good, or is out.
Make(l) ==
    /\ At(l, "making")
    /\ \/ LET c == CHOOSE c \in Unmade : TRUE
          IN  /\ Unmade # {} /\ there' = there \cup {c}
              /\ line' = [line EXCEPT ![l].pc = "made", ![l].voice = c]
              /\ UNCHANGED <<refused, faults>>
       \/ refused' = refused \cup {line[l].who} /\ Speaks(l, None) /\ Fault /\ UNCHANGED there
       \/ Speaks(l, None) /\ UNCHANGED <<refused, there, faults>>
    /\ UNCHANGED <<check, clones, rec, mine, account, owner, draining, up>>

SetClone(l) ==
    /\ At(l, "made") /\ To(l, "set")
    /\ clones' = [clones EXCEPT ![line[l].who] = line[l].voice]
    /\ UNCHANGED <<check, rec, there, mine, account, refused, owner, server>>

\* record_voice: a write that fails does not fail the clone.
RecordVoice(l) ==
    /\ At(l, "set") /\ Speaks(l, line[l].voice)
    /\ \/ /\ rec' = [rec EXCEPT ![line[l].voice] = [status |-> "active", vendor |-> "live", who |-> line[l].who, counted |-> TRUE]]
          /\ UNCHANGED faults
       \/ Fault /\ UNCHANGED rec
    /\ UNCHANGED <<check, clones, there, mine, account, refused, owner, draining, up>>

\* check_scope, and the statement the user has to confirm: a voice nothing is recorded of may speak.
CheckScope(l) ==
    LET v == line[l].voice IN
    /\ At(l, "scope")
    /\ \/ Heard(l, "words") /\ (v # None => rec[v] = NoRecord \/ (rec[v].status = "active" /\ ~suspended))
       \/ Ends(l) /\ (IF v = None THEN FALSE ELSE rec[v] # NoRecord)
    /\ UNCHANGED <<check, voices, account, refused, owner, server>>

\* check_line: it passes and is spoken, or is held for a person; or is blocked, and written down.
CheckLine(l) ==
    /\ At(l, "words")
    /\ \/ Ends(l) /\ UNCHANGED blocks
       \/ blocks < MaxBlocks /\ blocks' = blocks + 1 /\ To(l, "strike")
    /\ UNCHANGED <<check, voices, suspended, refused, owner, server>>

\* suspend: the account, and every clone of its that is in use.
Suspend_Slip ==
    /\ suspended' = TRUE
    /\ rec' = [c \in Clone |-> IF rec[c] # NoRecord THEN [rec[c] EXCEPT !.status = "suspended"] ELSE rec[c]]
Suspend ==
    /\ suspended' = TRUE
    /\ rec' = [c \in Clone |-> IF rec[c].status = "active" THEN [rec[c] EXCEPT !.status = "suspended"] ELSE rec[c]]

Strike(l) ==
    /\ At(l, "strike") /\ Ends(l)
    /\ IF blocks >= Strikes /\ ~suspended THEN Suspend ELSE UNCHANGED <<rec, suspended>>
    /\ UNCHANGED <<check, clones, there, mine, blocks, refused, owner, server>>
------------------------------------------------------------------------------
(* The admin *)

AdminSuspends ==
    /\ up /\ Suspend
    /\ UNCHANGED <<check, clones, there, mine, blocks, lines, owner, server>>

Restore ==
    /\ up /\ suspended' = FALSE
    /\ rec' = [c \in Clone |-> IF rec[c].status = "suspended" THEN [rec[c] EXCEPT !.status = "active"] ELSE rec[c]]
    /\ UNCHANGED <<check, clones, there, mine, blocks, lines, owner, server>>
------------------------------------------------------------------------------
(* The owner takes one voice back: withdraw, forget_withdrawn_voice *)

Withdraw(c) ==
    /\ Open /\ leaving = Stays /\ rec[c] # NoRecord
    /\ leaving' = [pc |-> "delete", voice |-> c]
    /\ IF rec[c].status = "withdrawn" THEN UNCHANGED rec ELSE Write({c}, "withdrawn", "delete_queued")
    /\ UNCHANGED <<check, clones, there, mine, account, lines, keeping, ending, ended, server>>

\* _delete_at_vendor: a refusal leaves it queued.
DeleteAtVendor ==
    /\ up /\ leaving.pc = "delete"
    /\ \/ there' = there \ {leaving.voice} /\ leaving' = [leaving EXCEPT !.pc = "mark"] /\ UNCHANGED faults
       \/ Fault /\ leaving' = [leaving EXCEPT !.pc = "compare"] /\ UNCHANGED there
    /\ UNCHANGED <<check, clones, rec, mine, account, lines, keeping, ending, ended, draining, up>>

MarkDeleted ==
    /\ up /\ leaving.pc = "mark" /\ leaving' = [leaving EXCEPT !.pc = "compare"]
    /\ rec' = [rec EXCEPT ![leaving.voice].vendor = "deleted"]
    /\ UNCHANGED <<check, clones, there, mine, account, lines, keeping, ending, ended, server>>

Compare ==
    /\ up /\ leaving.pc = "compare"
    /\ leaving' = IF clones[rec[leaving.voice].who] = leaving.voice THEN [leaving EXCEPT !.pc = "forget"] ELSE Stays
    /\ UNCHANGED <<check, voices, account, lines, keeping, ending, ended, server>>

Forget ==
    /\ up /\ leaving.pc = "forget" /\ leaving' = Stays
    /\ clones' = [clones EXCEPT ![rec[leaving.voice].who] = None]
    /\ UNCHANGED <<check, rec, there, mine, account, lines, keeping, ending, ended, server>>
------------------------------------------------------------------------------
(* Save to My voices: promote, keep_promoted_voice *)

AsksToKeep(c) ==
    /\ Open /\ keeping = None /\ c \notin mine /\ rec[c].status = "active" /\ VerifiedConsent
    /\ keeping' = c
    /\ UNCHANGED <<check, voices, account, lines, leaving, ending, ended, server>>

Keep ==
    /\ up /\ keeping # None /\ keeping' = None /\ mine' = mine \cup {keeping}
    /\ UNCHANGED <<check, clones, rec, there, account, lines, leaving, ending, ended, server>>
------------------------------------------------------------------------------
(* Consent withdrawn: withdraw_consent_now, CloneService.purge, withdraw_checks *)

\* Nothing of the owner's is under way: no line, no recording, no voice taken back or kept.
Quiet ==
    /\ \A l \in Line : line[l] = Silent
    /\ \A a \in Check : check[a] # "heard"
    /\ leaving = Stays /\ keeping = None

MadeNow == {clones[s] : s \in Speaker} \ {None}

EndConsent ==
    /\ up /\ ending.pc = "idle" /\ (ConsentAlone => Quiet)
    /\ ending' = [NotEnding EXCEPT !.pc = "purge", !.before = MadeNow, !.kept = mine]
    /\ UNCHANGED <<check, voices, account, lines, leaving, keeping, ended, server>>

\* purge reads the clones again.
Purge ==
    /\ up /\ ending.pc = "purge"
    /\ ending' = [ending EXCEPT !.pc = "delete", !.todo = {<<s, clones[s]>> : s \in {t \in Speaker : clones[t] # None}}]
    /\ UNCHANGED <<check, voices, account, lines, leaving, keeping, ended, server>>

\* A kept one is only forgotten; one the vendor does not delete stays its speaker's.
PurgeOne ==
    /\ up /\ ending.pc = "delete"
    /\ \E t \in ending.todo :
         \/ /\ there' = there \ ({t[2]} \ ending.kept)
            /\ ending' = [ending EXCEPT !.pc = "forget", !.todo = @ \ {t}, !.now = t[1]]
            /\ UNCHANGED faults
         \/ /\ t[2] \notin ending.kept /\ Fault
            /\ ending' = [ending EXCEPT !.todo = @ \ {t}, !.failed = @ \cup {t[2]}]
            /\ UNCHANGED there
    /\ UNCHANGED <<check, clones, rec, mine, account, lines, leaving, keeping, ended, draining, up>>

PurgeForgets ==
    /\ up /\ ending.pc = "forget"
    /\ ending' = [ending EXCEPT !.pc = "delete", !.now = None]
    /\ clones' = [clones EXCEPT ![ending.now] = None]
    /\ UNCHANGED <<check, rec, there, mine, account, lines, leaving, keeping, ended, server>>

Purged ==
    /\ up /\ ending.pc = "delete" /\ ending.todo = {}
    /\ ending' = [ending EXCEPT !.pc = "mark", !.before = @ \ ending.kept] /\ refused' = {}
    /\ UNCHANGED <<check, voices, account, line, leaving, keeping, ended, server>>

\* mark_withdrawn: what purge did not name as failed was deleted.
MarkWithdrawn_Slip ==
    /\ up /\ ending.pc = "mark" /\ ending.before # {}
    /\ \E c \in ending.before :
         /\ Write({c}, "withdrawn", "deleted")
         /\ ending' = [ending EXCEPT !.before = @ \ {c}]
    /\ UNCHANGED <<check, clones, there, mine, account, lines, leaving, keeping, ended, server>>
MarkWithdrawn ==
    /\ up /\ ending.pc = "mark"
    /\ \E c \in ending.before :
         /\ Write({c}, "withdrawn", IF c \in ending.failed THEN "delete_queued" ELSE "deleted")
         /\ ending' = [ending EXCEPT !.before = @ \ {c}]
    /\ UNCHANGED <<check, clones, there, mine, account, lines, leaving, keeping, ended, server>>

ConsentEnds ==
    /\ up /\ ending.pc = "mark" /\ ending.before = {} /\ ending' = NotEnding /\ ended' = TRUE
    /\ check' = [a \in Check |-> IF check[a] \in {"passed", "review"} THEN "withdrawn" ELSE check[a]]
    /\ UNCHANGED <<voices, account, lines, leaving, keeping, server>>
------------------------------------------------------------------------------
(* The server *)

\* What its threads were at is gone; a recording with the verifier is still unread.
Crash ==
    /\ up /\ up' = FALSE /\ Fault
    /\ line' = [l \in Line |-> Silent] /\ refused' = {}
    /\ leaving' = Stays /\ keeping' = None /\ ending' = NotEnding /\ draining' = {}
    /\ check' = [a \in Check |-> IF check[a] = "heard" THEN "waiting" ELSE check[a]]
    /\ UNCHANGED <<voices, account, ended>>

Backfilled(c) == \E s \in Speaker : clones[s] = c /\ rec[c] = NoRecord

\* at_start: a record for each clone in use that has none, and the queued deletes.
Start ==
    /\ ~up /\ up' = TRUE
    /\ rec' = [c \in Clone |-> IF Backfilled(c)
                               THEN [status |-> "active", vendor |-> "live", who |-> CHOOSE s \in Speaker : clones[s] = c, counted |-> FALSE]
                               ELSE rec[c]]
    /\ draining' = {c \in Clone : rec[c].vendor = "delete_queued"}
    /\ UNCHANGED <<check, clones, there, mine, account, lines, owner, faults>>

\* drain_vendor_deletes: one that the vendor refuses stays queued.
DrainOne(c) ==
    /\ up /\ c \in draining /\ draining' = draining \ {c}
    /\ \/ there' = there \ {c} /\ rec' = [rec EXCEPT ![c].vendor = "deleted"] /\ UNCHANGED faults
       \/ Fault /\ UNCHANGED <<there, rec>>
    /\ UNCHANGED <<check, clones, mine, account, lines, owner, up>>

Next ==
    \/ \E a \in Check : StartCheck(a) \/ SendRecording(a) \/ Verified(a) \/ DecideConsent(a)
    \/ \E l \in Line : \/ Ask(l) \/ Look(l) \/ LookAgain(l) \/ Make(l) \/ SetClone(l) \/ RecordVoice(l)
                       \/ CheckScope(l) \/ CheckLine(l) \/ Strike(l)
    \/ AdminSuspends \/ Restore
    \/ \E c \in Clone : Withdraw(c) \/ AsksToKeep(c) \/ DrainOne(c)
    \/ DeleteAtVendor \/ MarkDeleted \/ Compare \/ Forget \/ Keep
    \/ EndConsent \/ Purge \/ PurgeOne \/ PurgeForgets \/ Purged \/ MarkWithdrawn \/ ConsentEnds
    \/ Crash \/ Start

Spec == Init /\ [][Next]_vars
------------------------------------------------------------------------------
Over(c) == rec[c].status = "withdrawn"

\* A speaker has one voice of theirs in use at the vendor at a time, kept ones apart, however many lines
\* of theirs are voiced at once and whatever fails between a clone and its record.
OneVoice ==
    \A s \in Speaker : Cardinality({c \in there : rec[c].who = s /\ ~Over(c) /\ c \notin mine}) <= 1

\* However many lines are voiced at once, and whatever was withdrawn since, the window's limit is
\* passed by no more clones than lines that were let through together.
LimitBounded ==
    Cardinality({c \in Clone : rec[c].counted}) < Limit + Cardinality(Line)

\* A voice that was withdrawn stays so, through suspensions, restores, records and starts; and while the
\* vendor has it, it waits to be deleted.
WithdrawnStays ==
    [][\A c \in Clone : Over(c) => Over(c)' /\ (c \in there' => rec'[c].vendor = "delete_queued")]_vars

\* Once consent was withdrawn, and until it is given again, no clone of the video that the account did not
\* keep is at the vendor, unless it waits to be deleted, or a crash lost it before anything named it.
ConsentGone ==
    ended => \A c \in there : \/ c \in mine
                              \/ Over(c) /\ rec[c].vendor = "delete_queued"
                              \/ rec[c] = NoRecord /\ c \notin MadeNow

\* "consent is cleared so nothing new is cloned until it is given again" (api/main.py, withdraw_consent_now).
NothingNewIsCloned == [][ended => there' \subseteq there]_vars
==============================================================================
