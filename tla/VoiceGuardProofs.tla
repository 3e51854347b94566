---------------------------- MODULE VoiceGuardProofs ----------------------------
(***************************************************************************)
(* Proofs about VoiceGuard for any speakers, lines, clones, checks, limits *)
(* and bounds: the type invariant, the limit of the window, one voice of a *)
(* speaker at the vendor but for those a withdrawal let go of, and         *)
(* withdrawn voices that stay so.  Nothing is assumed of what crosses      *)
(* what: consent may be withdrawn in the middle of anything.               *)
(***************************************************************************)
EXTENDS VoiceGuard, FiniteSetTheorems, TLAPS

Records == [status : {"none", "active", "suspended", "withdrawn"},
            vendor : {"none", "live", "delete_queued", "deleted"}, who : Speaker \cup {None}, counted : BOOLEAN]
Voicings == [pc : {"idle", "asked", "wants", "making", "made", "set", "scope", "words", "strike"},
             who : Speaker \cup {None}, voice : Clone \cup {None}]
Leavings == [pc : {"idle", "delete", "mark", "compare", "forget"}, voice : Clone \cup {None}]
Endings == [pc : {"idle", "purge", "delete", "forget", "mark", "clear"}, before : SUBSET Clone, kept : SUBSET Clone,
            todo : SUBSET (Speaker \X Clone), failed : SUBSET Clone, now : Speaker \cup {None}]

\* A line that looks for its speaker's clone knows whose, without which its next look would mean nothing.
Asking == {"asked", "wants", "making", "made", "set"}

CheckOK == check \in [Check -> Statuses]
ClonesOK == clones \in [Speaker -> Clone \cup {None}] /\ there \subseteq Clone /\ mine \subseteq Clone
RecOK == rec \in [Clone -> Records]
AccountOK == suspended \in BOOLEAN /\ blocks \in 0..MaxBlocks
LineOK == line \in [Line -> Voicings] /\ \A l \in Line : line[l].pc \in Asking => line[l].who \in Speaker
LinesOK == LineOK /\ refused \subseteq Speaker
OwnerOK == leaving \in Leavings /\ keeping \in Clone \cup {None} /\ ending \in Endings /\ ended \in BOOLEAN
ServerOK == draining \subseteq Clone /\ up \in BOOLEAN /\ faults \in 0..MaxFaults
PartsOK == CheckOK /\ ClonesOK /\ RecOK /\ AccountOK /\ LinesOK /\ OwnerOK /\ ServerOK

LEMMA PartsType == PartsOK => TypeOK
  BY DEF TypeOK, PartsOK, CheckOK, ClonesOK, RecOK, AccountOK, LineOK, LinesOK, OwnerOK, ServerOK, Records, Voicings,
     Leavings, Endings

LEMMA QuietTypes == Silent \in Voicings /\ Stays \in Leavings /\ NotEnding \in Endings /\ NoRecord \in Records
  BY DEF Silent, Voicings, Stays, Leavings, NotEnding, Endings, NoRecord, Records

LEMMA InitTypes == Init => PartsOK
  <1> SUFFICES ASSUME Init PROVE PartsOK
    OBVIOUS
  <1>1. CheckOK
    BY DEF Init, CheckOK, Statuses
  <1>2. ClonesOK /\ RecOK
    BY QuietTypes DEF Init, ClonesOK, RecOK
  <1>3. AccountOK
    <2>1. MaxBlocks \in Nat
      BY VoiceAssumption
    <2>2. blocks \in 0..MaxBlocks
      BY <2>1 DEF Init
    <2> QED
      BY <2>2 DEF Init, AccountOK
  <1>4. LinesOK /\ OwnerOK
    BY QuietTypes DEF Init, LineOK, LinesOK, OwnerOK, Silent, Asking
  <1>5. ServerOK
    BY VoiceAssumption DEF Init, ServerOK
  <1> QED
    BY <1>1, <1>2, <1>3, <1>4, <1>5 DEF PartsOK

LEMMA FaultTypes == ASSUME ServerOK, Fault \/ UNCHANGED faults PROVE faults' \in 0..MaxFaults
  BY VoiceAssumption DEF ServerOK, Fault

\* Records that are written keep whom they are of, and whether they count.
LEMMA WriteTypes ==
    ASSUME RecOK, NEW cs, NEW status \in {"active", "suspended", "withdrawn"},
           NEW vendor \in {"live", "delete_queued", "deleted"}, Write(cs, status, vendor)
    PROVE  /\ RecOK'
           /\ \A c \in Clone : /\ rec'[c].who = rec[c].who /\ rec'[c].counted = rec[c].counted
                               /\ rec'[c] = NoRecord <=> rec[c] = NoRecord
                               /\ c \notin cs => rec'[c] = rec[c]
                               /\ c \in cs /\ rec[c] # NoRecord => rec'[c].status = status /\ rec'[c].vendor = vendor
  <1>1. \A c \in Clone : rec[c] \in Records
    BY DEF RecOK
  <1>2. \A c \in Clone : rec'[c] = IF c \in cs /\ rec[c] # NoRecord
                                   THEN [rec[c] EXCEPT !.status = status, !.vendor = vendor] ELSE rec[c]
    BY DEF Write
  <1>3. \A r \in Records : /\ [r EXCEPT !.status = status, !.vendor = vendor] \in Records
                           /\ [r EXCEPT !.status = status, !.vendor = vendor].status = status
                           /\ [r EXCEPT !.status = status, !.vendor = vendor].vendor = vendor
                           /\ [r EXCEPT !.status = status, !.vendor = vendor].who = r.who
                           /\ [r EXCEPT !.status = status, !.vendor = vendor].counted = r.counted
    BY DEF Records
  <1>4. status # NoRecord.status
    BY DEF NoRecord
  <1>5. \A c \in Clone : rec'[c] \in Records
    <2> TAKE c \in Clone
    <2> QED
      BY <1>1, <1>2, <1>3
  <1>6. RecOK'
    <2>1. rec' = [c \in Clone |-> rec'[c]]
      BY DEF Write
    <2> QED
      BY <1>5, <2>1 DEF RecOK
  <1>7. ASSUME NEW c \in Clone
        PROVE  /\ rec'[c].who = rec[c].who /\ rec'[c].counted = rec[c].counted
               /\ rec'[c] = NoRecord <=> rec[c] = NoRecord
               /\ c \notin cs => rec'[c] = rec[c]
               /\ c \in cs /\ rec[c] # NoRecord => rec'[c].status = status /\ rec'[c].vendor = vendor
    <2>1. CASE c \in cs /\ rec[c] # NoRecord
      <3>1. rec'[c] = [rec[c] EXCEPT !.status = status, !.vendor = vendor] /\ rec[c] \in Records
        BY <1>1, <1>2, <2>1
      <3>2. /\ rec'[c].status = status /\ rec'[c].vendor = vendor /\ rec'[c].who = rec[c].who
            /\ rec'[c].counted = rec[c].counted
        BY <1>3, <3>1
      <3> QED
        BY <1>4, <2>1, <3>2
    <2>2. CASE ~(c \in cs /\ rec[c] # NoRecord)
      BY <1>2, <2>2
    <2> QED
      BY <2>1, <2>2
  <1> QED
    BY <1>6, <1>7

LEMMA SuspendTypes ==
    ASSUME RecOK, Suspend \/ (suspended' = FALSE /\ rec' = [c \in Clone |-> IF rec[c].status = "suspended"
                                                                THEN [rec[c] EXCEPT !.status = "active"] ELSE rec[c]])
    PROVE  RecOK' /\ suspended' \in BOOLEAN
  <1>1. \A c \in Clone, status \in {"active", "suspended"} : [rec[c] EXCEPT !.status = status] \in Records
    BY DEF RecOK, Records
  <1>2. RecOK'
    BY <1>1 DEF Suspend, RecOK
  <1> QED
    BY <1>2 DEF Suspend

\* One line moves on.
LEMMA LineMoves ==
    ASSUME LineOK, NEW l \in Line, NEW v \in Voicings, line' = [line EXCEPT ![l] = v],
           v.pc \in Asking => v.who \in Speaker
    PROVE  LineOK' /\ line'[l] = v /\ \A m \in Line : m # l => line'[m] = line[m]
  BY DEF LineOK

LEMMA LineTo ==
    ASSUME LineOK, NEW l \in Line,
           NEW pc \in {"wants", "making", "made", "set", "strike"}, To(l, pc),
           pc \in Asking => line[l].pc \in Asking
    PROVE  /\ LineOK' /\ \A m \in Line : m # l => line'[m] = line[m]
           /\ line'[l].pc = pc /\ line'[l].who = line[l].who /\ line'[l].voice = line[l].voice
  <1>1. line[l] \in Voicings /\ (line[l].pc \in Asking => line[l].who \in Speaker)
    BY DEF LineOK
  <1>2. [line[l] EXCEPT !.pc = pc] \in Voicings /\ line' = [line EXCEPT ![l] = [line[l] EXCEPT !.pc = pc]]
    BY <1>1 DEF To, Voicings
  <1>3. /\ [line[l] EXCEPT !.pc = pc].pc = pc /\ [line[l] EXCEPT !.pc = pc].who = line[l].who
        /\ [line[l] EXCEPT !.pc = pc].voice = line[l].voice
    BY <1>1 DEF Voicings
  <1> QED
    BY <1>1, <1>2, <1>3, LineMoves

LEMMA LineSpeaks ==
    ASSUME LineOK, NEW l \in Line, NEW voice \in Clone \cup {None}, Speaks(l, voice)
    PROVE  LineOK' /\ line'[l].pc = "scope" /\ \A m \in Line : m # l => line'[m] = line[m]
  <1> DEFINE v == [pc |-> "scope", who |-> None, voice |-> voice]
  <1>1. v \in Voicings /\ v.pc = "scope" /\ v.pc \notin Asking
    BY DEF Voicings, Asking
  <1>2. line' = [line EXCEPT ![l] = v]
    BY DEF Speaks
  <1> QED
    BY <1>1, <1>2, LineMoves

LEMMA LineEnds ==
    ASSUME LineOK, NEW l \in Line, Ends(l) \/ Heard(l, "words")
    PROVE  LineOK' /\ line'[l].pc \in {"idle", "words"} /\ \A m \in Line : m # l => line'[m] = line[m]
  <1>1. Silent \in Voicings /\ [Silent EXCEPT !.pc = "words"] \in Voicings /\ Silent.pc = "idle"
        /\ [Silent EXCEPT !.pc = "words"].pc = "words"
    BY DEF Silent, Voicings
  <1> QED
    BY <1>1, LineMoves DEF Ends, Heard, Asking

LEMMA CheckTypes ==
    ASSUME PartsOK, NEW a \in Check, StartCheck(a) \/ SendRecording(a) \/ Verified(a) \/ DecideConsent(a)
    PROVE  PartsOK'
  <1>1. CheckOK'
    BY DEF StartCheck, SendRecording, Verified, DecideConsent, PartsOK, CheckOK, Statuses
  <1>2. UNCHANGED <<voices, account, lines, leaving, keeping, ending, server>> /\ ended' \in BOOLEAN
    BY DEF StartCheck, SendRecording, Verified, DecideConsent, owner, PartsOK, OwnerOK
  <1> QED
    BY <1>1, <1>2 DEF PartsOK, ClonesOK, RecOK, AccountOK, LineOK, LinesOK, OwnerOK, ServerOK, voices, account, lines,
       server

\* A line that speaks, asks, looks and ends touches nothing but itself.
LEMMA LookTypes ==
    ASSUME PartsOK, NEW l \in Line, Ask(l) \/ Look(l) \/ LookAgain(l) \/ CheckScope(l)
    PROVE  PartsOK'
  <1>t. LineOK /\ line[l] \in Voicings
    BY DEF PartsOK, LinesOK, LineOK
  <1>c. line[l].who \in Speaker => clones[line[l].who] \in Clone \cup {None}
    BY DEF PartsOK, ClonesOK
  <1>w. line[l].pc \in Asking => line[l].who \in Speaker
    BY <1>t DEF LineOK
  <1>1. LineOK'
    <2>1. CASE Ask(l)
      <3>1. \A s \in Speaker : [pc |-> "asked", who |-> s, voice |-> None] \in Voicings
        BY DEF Voicings
      <3> QED
        BY <2>1, <3>1, <1>t, LineMoves, LineSpeaks DEF Ask
    <2>2. CASE Look(l)
      BY <2>2, <1>t, <1>c, <1>w, LineTo, LineSpeaks DEF Look, At, Asking
    <2>3. CASE LookAgain(l)
      BY <2>3, <1>t, <1>c, <1>w, LineTo, LineSpeaks, LineEnds DEF LookAgain, At, Asking
    <2>4. CASE CheckScope(l)
      BY <2>4, <1>t, LineEnds DEF CheckScope
    <2> QED
      BY <2>1, <2>2, <2>3, <2>4
  <1>2. UNCHANGED <<check, voices, account, refused, owner, server>>
    BY DEF Ask, Look, LookAgain, CheckScope
  <1> QED
    BY <1>1, <1>2 DEF PartsOK, CheckOK, ClonesOK, RecOK, AccountOK, LinesOK, OwnerOK, ServerOK, voices, account, owner,
       server

LEMMA MakeTypes ==
    ASSUME PartsOK, NEW l \in Line, Make(l) \/ SetClone(l) \/ RecordVoice(l) \/ CheckLine(l) \/ Strike(l)
    PROVE  PartsOK'
  <1>t. LineOK /\ LinesOK /\ line[l] \in Voicings /\ ServerOK /\ RecOK
    BY DEF PartsOK, LinesOK, LineOK
  <1>w. line[l].pc \in Asking => line[l].who \in Speaker
    BY <1>t DEF LineOK
  <1>1. CASE Make(l)
    <2>1. LineOK' /\ there' \subseteq Clone
      <3>1. CASE Speaks(l, None) /\ UNCHANGED there
        BY <1>t, <3>1, LineSpeaks DEF PartsOK, ClonesOK
      <3>2. ASSUME NEW c \in Clone, there' = there \cup {c}, line' = [line EXCEPT ![l].pc = "made", ![l].voice = c]
            PROVE  LineOK' /\ there' \subseteq Clone
        <4>1. [line[l] EXCEPT !.pc = "made", !.voice = c] \in Voicings
          BY <1>t DEF Voicings
        <4>2. line' = [line EXCEPT ![l] = [line[l] EXCEPT !.pc = "made", !.voice = c]]
          BY <3>2
        <4>3. [line[l] EXCEPT !.pc = "made", !.voice = c].who \in Speaker
          BY <1>1, <1>t, <1>w DEF Make, At, Asking, Voicings
        <4>4. LineOK'
          BY <1>t, <4>1, <4>2, <4>3, LineMoves
        <4> QED
          BY <3>2, <4>4 DEF PartsOK, ClonesOK
      <3> QED
        BY <1>1, <3>1, <3>2 DEF Make, Unmade
    <2>2. refused' \subseteq Speaker
      BY <1>1, <1>t, <1>w DEF Make, At, Asking, LinesOK
    <2>3. faults' \in 0..MaxFaults
      BY <1>1, <1>t, FaultTypes DEF Make
    <2> QED
      BY <1>1, <2>1, <2>2, <2>3 DEF Make, PartsOK, CheckOK, ClonesOK, RecOK, AccountOK, LinesOK, OwnerOK, ServerOK,
         account, owner
  <1>2. CASE SetClone(l)
    <2>1. LineOK'
      BY <1>2, <1>t, LineTo DEF SetClone, At, Asking
    <2>2. clones' \in [Speaker -> Clone \cup {None}]
      BY <1>2, <1>t DEF SetClone, PartsOK, ClonesOK, Voicings
    <2> QED
      BY <1>2, <2>1, <2>2 DEF SetClone, PartsOK, CheckOK, ClonesOK, RecOK, AccountOK, LinesOK, OwnerOK, ServerOK, account,
         owner, server
  <1>3. CASE RecordVoice(l)
    <2>1. LineOK'
      BY <1>3, <1>t, LineSpeaks DEF RecordVoice, Voicings
    <2>2. RecOK'
      <3>1. [status |-> "active", vendor |-> "live", who |-> line[l].who, counted |-> TRUE] \in Records
        BY <1>t DEF Records, Voicings
      <3> QED
        BY <1>3, <1>t, <3>1 DEF RecordVoice, RecOK
    <2>3. faults' \in 0..MaxFaults
      BY <1>3, <1>t, FaultTypes DEF RecordVoice
    <2> QED
      BY <1>3, <2>1, <2>2, <2>3 DEF RecordVoice, PartsOK, CheckOK, ClonesOK, AccountOK, LinesOK, OwnerOK, ServerOK,
         account, owner
  <1>4. CASE CheckLine(l)
    <2>1. LineOK'
      BY <1>4, <1>t, LineTo, LineEnds DEF CheckLine, Asking
    <2>2. blocks' \in 0..MaxBlocks
      BY <1>4, VoiceAssumption DEF CheckLine, PartsOK, AccountOK
    <2> QED
      BY <1>4, <2>1, <2>2 DEF CheckLine, PartsOK, CheckOK, ClonesOK, RecOK, AccountOK, LinesOK, OwnerOK, ServerOK, voices,
         owner, server
  <1>5. CASE Strike(l)
    <2>1. LineOK'
      BY <1>5, <1>t, LineEnds DEF Strike
    <2>2. RecOK' /\ suspended' \in BOOLEAN
      BY <1>5, SuspendTypes DEF Strike, PartsOK, AccountOK, RecOK
    <2> QED
      BY <1>5, <2>1, <2>2 DEF Strike, PartsOK, CheckOK, ClonesOK, AccountOK, LinesOK, OwnerOK, ServerOK, owner, server
  <1> QED
    BY <1>1, <1>2, <1>3, <1>4, <1>5

LEMMA AdminTypes == ASSUME PartsOK, AdminSuspends \/ Restore PROVE PartsOK'
  <1>1. RecOK' /\ suspended' \in BOOLEAN
    BY SuspendTypes DEF AdminSuspends, Restore, PartsOK
  <1> QED
    BY <1>1 DEF AdminSuspends, Restore, PartsOK, CheckOK, ClonesOK, AccountOK, LineOK, LinesOK, OwnerOK, ServerOK, lines,
       owner, server

LEMMA LeaveTypes ==
    ASSUME PartsOK,
           (\E c \in Clone : Withdraw(c)) \/ DeleteAtVendor \/ MarkDeleted \/ Compare \/ Forget
    PROVE  PartsOK'
  <1>t. RecOK /\ ServerOK /\ leaving \in Leavings
    BY DEF PartsOK, OwnerOK
  <1>1. leaving' \in Leavings
    <2>1. \A pc \in {"mark", "compare", "forget"} : [leaving EXCEPT !.pc = pc] \in Leavings
      BY <1>t DEF Leavings
    <2>2. \A c \in Clone : [pc |-> "delete", voice |-> c] \in Leavings
      BY DEF Leavings
    <2>3. CASE \E c \in Clone : Withdraw(c)
      BY <2>2, <2>3 DEF Withdraw
    <2>4. CASE DeleteAtVendor \/ MarkDeleted
      BY <2>1, <2>4 DEF DeleteAtVendor, MarkDeleted
    <2>5. CASE Compare \/ Forget
      BY <2>1, <2>5, QuietTypes DEF Compare, Forget
    <2> QED
      BY <2>3, <2>4, <2>5
  <1>2. RecOK'
    <2>1. ASSUME NEW c \in Clone, Withdraw(c) PROVE RecOK'
      BY <1>t, <2>1, WriteTypes DEF Withdraw, RecOK
    <2>2. CASE MarkDeleted
      BY <1>t, <2>2 DEF MarkDeleted, RecOK, Records
    <2>3. CASE DeleteAtVendor \/ Compare \/ Forget
      BY <1>t, <2>3 DEF DeleteAtVendor, Compare, Forget, voices, RecOK
    <2> QED
      BY <2>1, <2>2, <2>3
  <1>3. ClonesOK'
    BY DEF Withdraw, DeleteAtVendor, MarkDeleted, Compare, Forget, voices, PartsOK, ClonesOK
  <1>4. faults' \in 0..MaxFaults /\ UNCHANGED <<draining, up>>
    BY <1>t, FaultTypes DEF Withdraw, DeleteAtVendor, MarkDeleted, Compare, Forget, server, ServerOK
  <1>5. UNCHANGED <<check, account, lines, keeping, ending, ended>>
    BY DEF Withdraw, DeleteAtVendor, MarkDeleted, Compare, Forget
  <1> QED
    BY <1>1, <1>2, <1>3, <1>4, <1>5 DEF PartsOK, CheckOK, AccountOK, LineOK, LinesOK, OwnerOK, ServerOK, account, lines

LEMMA KeepTypes == ASSUME PartsOK, (\E c \in Clone : AsksToKeep(c)) \/ Keep PROVE PartsOK'
  <1>1. keeping' \in Clone \cup {None} /\ mine' \subseteq Clone
    BY DEF AsksToKeep, Keep, voices, PartsOK, OwnerOK, ClonesOK
  <1>2. UNCHANGED <<check, clones, rec, there, account, lines, leaving, ending, ended, server>>
    BY DEF AsksToKeep, Keep, voices
  <1> QED
    BY <1>1, <1>2 DEF PartsOK, CheckOK, ClonesOK, RecOK, AccountOK, LineOK, LinesOK, OwnerOK, ServerOK, account, lines,
       server

LEMMA MadeNowType == ClonesOK => MadeNow \subseteq Clone
  BY DEF ClonesOK, MadeNow

LEMMA EndTypes ==
    ASSUME PartsOK, EndConsent \/ Purge \/ PurgeOne \/ PurgeForgets \/ Purged \/ MarkWithdrawn \/ ConsentEnds
    PROVE  PartsOK'
  <1>t. ClonesOK /\ RecOK /\ ServerOK /\ ending \in Endings /\ CheckOK /\ LinesOK
    BY DEF PartsOK, OwnerOK
  <1>1. CASE EndConsent
    <2>1. [NotEnding EXCEPT !.pc = "purge", !.before = MadeNow, !.kept = mine] \in Endings
      BY <1>t, MadeNowType DEF NotEnding, Endings, ClonesOK
    <2> QED
      BY <1>1, <2>1 DEF EndConsent, PartsOK, CheckOK, ClonesOK, RecOK, AccountOK, LineOK, LinesOK, OwnerOK, ServerOK,
         voices, account, lines, server
  <1>2. CASE Purge
    <2>1. {<<s, clones[s]>> : s \in {t \in Speaker : clones[t] # None}} \in SUBSET (Speaker \X Clone)
      BY <1>t DEF ClonesOK
    <2>2. [ending EXCEPT !.pc = "delete", !.todo = {<<s, clones[s]>> : s \in {t \in Speaker : clones[t] # None}}] \in Endings
      BY <1>t, <2>1 DEF Endings
    <2> QED
      BY <1>2, <2>2 DEF Purge, PartsOK, CheckOK, ClonesOK, RecOK, AccountOK, LineOK, LinesOK, OwnerOK, ServerOK, voices,
         account, lines, server
  <1>3. CASE PurgeOne
    <2>1. PICK t \in ending.todo :
            \/ /\ there' = there \ ({t[2]} \ ending.kept)
               /\ ending' = [ending EXCEPT !.pc = "forget", !.todo = @ \ {t}, !.now = t[1]]
            \/ /\ there' = there
               /\ ending' = [ending EXCEPT !.todo = @ \ {t}, !.failed = @ \cup {t[2]}]
      BY <1>3 DEF PurgeOne
    <2>2. t[1] \in Speaker /\ t[2] \in Clone
      BY <1>t DEF Endings
    <2>3. /\ [ending EXCEPT !.pc = "forget", !.todo = @ \ {t}, !.now = t[1]] \in Endings
          /\ [ending EXCEPT !.todo = @ \ {t}, !.failed = @ \cup {t[2]}] \in Endings
      BY <1>t, <2>2 DEF Endings
    <2>4. ending' \in Endings /\ there' \subseteq Clone
      BY <1>t, <2>1, <2>3 DEF ClonesOK
    <2>5. faults' \in 0..MaxFaults
      BY <1>3, <1>t, FaultTypes DEF PurgeOne
    <2> QED
      BY <1>3, <2>4, <2>5 DEF PurgeOne, PartsOK, CheckOK, ClonesOK, RecOK, AccountOK, LineOK, LinesOK, OwnerOK, ServerOK,
         account, lines
  <1>4. CASE PurgeForgets
    <2>1. [ending EXCEPT !.pc = "delete", !.now = None] \in Endings
      BY <1>t DEF Endings
    <2> QED
      BY <1>4, <2>1 DEF PurgeForgets, PartsOK, CheckOK, ClonesOK, RecOK, AccountOK, LineOK, LinesOK, OwnerOK, ServerOK,
         account, lines, server
  <1>5. CASE Purged
    <2>1. [ending EXCEPT !.pc = "mark", !.before = @ \ ending.kept] \in Endings
      BY <1>t DEF Endings
    <2> QED
      BY <1>5, <2>1 DEF Purged, PartsOK, CheckOK, ClonesOK, RecOK, AccountOK, LineOK, LinesOK, OwnerOK, ServerOK, voices,
         account, server
  <1>6. CASE MarkWithdrawn
    <2>1. PICK c \in ending.before : /\ Write({c}, "withdrawn", IF c \in ending.failed THEN "delete_queued" ELSE "deleted")
                                     /\ ending' = [ending EXCEPT !.before = @ \ {c}]
      BY <1>6 DEF MarkWithdrawn
    <2>2. ending' \in Endings
      BY <1>t, <2>1 DEF Endings
    <2>3. RecOK'
      BY <1>t, <2>1, WriteTypes
    <2> QED
      BY <1>6, <2>2, <2>3 DEF MarkWithdrawn, PartsOK, CheckOK, ClonesOK, AccountOK, LineOK, LinesOK, OwnerOK, ServerOK,
         account, lines, server
  <1>7. CASE ConsentEnds
    <2>1. CheckOK'
      BY <1>7, <1>t DEF ConsentEnds, CheckOK, Statuses
    <2> QED
      BY <1>7, <2>1, QuietTypes DEF ConsentEnds, PartsOK, ClonesOK, RecOK, AccountOK, LineOK, LinesOK, OwnerOK, ServerOK,
         voices, account, lines, server
  <1> QED
    BY <1>1, <1>2, <1>3, <1>4, <1>5, <1>6, <1>7

LEMMA ServerTypes ==
    ASSUME PartsOK, Crash \/ Start \/ (\E c \in Clone : DrainOne(c)) \/ UNCHANGED vars
    PROVE  PartsOK'
  <1>t. ClonesOK /\ RecOK /\ ServerOK /\ CheckOK /\ LinesOK
    BY DEF PartsOK
  <1>1. CASE Crash
    <2>1. CheckOK'
      BY <1>1, <1>t DEF Crash, CheckOK, Statuses
    <2>2. LinesOK' /\ OwnerOK'
      BY <1>1, <1>t, QuietTypes DEF Crash, LineOK, LinesOK, OwnerOK, PartsOK, Silent, Asking
    <2>3. ServerOK'
      BY <1>1, <1>t, FaultTypes DEF Crash, ServerOK
    <2> QED
      BY <1>1, <2>1, <2>2, <2>3 DEF Crash, PartsOK, ClonesOK, RecOK, AccountOK, voices, account
  <1>2. CASE Start
    <2>1. RecOK'
      <3>1. ASSUME NEW c \in Clone, Backfilled(c)
            PROVE  [status |-> "active", vendor |-> "live", who |-> CHOOSE s \in Speaker : clones[s] = c,
                    counted |-> FALSE] \in Records
        BY <3>1 DEF Backfilled, Records
      <3> QED
        BY <1>2, <1>t, <3>1 DEF Start, RecOK
    <2>2. ServerOK'
      BY <1>2, <1>t DEF Start, ServerOK
    <2> QED
      BY <1>2, <2>1, <2>2 DEF Start, PartsOK, CheckOK, ClonesOK, AccountOK, LineOK, LinesOK, OwnerOK, account, lines, owner
  <1>3. ASSUME NEW c \in Clone, DrainOne(c) PROVE PartsOK'
    <2>1. RecOK'
      BY <1>3, <1>t DEF DrainOne, RecOK, Records
    <2>2. ServerOK'
      BY <1>3, <1>t, FaultTypes DEF DrainOne, ServerOK
    <2> QED
      BY <1>3, <2>1, <2>2 DEF DrainOne, PartsOK, CheckOK, ClonesOK, AccountOK, LineOK, LinesOK, OwnerOK, account, lines,
         owner
  <1>4. CASE UNCHANGED vars
    BY <1>4 DEF vars, PartsOK, CheckOK, ClonesOK, RecOK, AccountOK, LineOK, LinesOK, OwnerOK, ServerOK, voices, account,
       lines, owner, server
  <1> QED
    BY <1>1, <1>2, <1>3, <1>4

LEMMA PartsNext == PartsOK /\ [Next]_vars => PartsOK'
  BY CheckTypes, LookTypes, MakeTypes, AdminTypes, LeaveTypes, KeepTypes, EndTypes, ServerTypes DEF Next

LEMMA PartsAlways == Spec => []PartsOK
  BY InitTypes, PartsNext, PTL DEF Spec

\* The types hold always.
THEOREM TypeCorrect == Spec => []TypeOK
  BY PartsType, PartsAlways, PTL
------------------------------------------------------------------------------
(* The limit of the window *)

InClone == {"making", "made", "set"}
Counted == {c \in Clone : rec[c].counted}
Through == {l \in Line : line[l].pc \in InClone}

\* A line that was let through holds the place of the clone it will count.
LimitKept == Cardinality(Counted) + Cardinality(Through) < Limit + Cardinality(Line)

LEMMA Finite ==
    /\ IsFiniteSet(Counted) /\ Cardinality(Counted) \in Nat /\ Counted \subseteq Clone
    /\ IsFiniteSet(Through) /\ Cardinality(Through) \in Nat /\ Through \subseteq Line
    /\ Cardinality(Line) \in Nat /\ Cardinality(Through) <= Cardinality(Line) /\ Limit \in Nat \ {0}
  <1>1. IsFiniteSet(Clone) /\ IsFiniteSet(Line) /\ Limit \in Nat \ {0}
    BY VoiceAssumption
  <1>2. Counted \subseteq Clone /\ Through \subseteq Line
    BY DEF Counted, Through
  <1>3. IsFiniteSet(Counted) /\ IsFiniteSet(Through) /\ Cardinality(Through) <= Cardinality(Line)
    BY <1>1, <1>2, FS_Subset
  <1> QED
    BY <1>1, <1>2, <1>3, FS_CardinalityType

LEMMA FewerKept ==
    ASSUME LimitKept, \A c \in Clone : rec'[c].counted => rec[c].counted,
           \A l \in Line : line'[l].pc \in InClone => line[l].pc \in InClone
    PROVE  LimitKept'
  <1> DEFINE C == {c \in Clone : rec'[c].counted}
             T == {l \in Line : line'[l].pc \in InClone}
  <1>1. C \subseteq Counted /\ T \subseteq Through
    BY DEF Counted, Through
  <1>2. Cardinality(C) <= Cardinality(Counted) /\ Cardinality(T) <= Cardinality(Through)
        /\ IsFiniteSet(C) /\ IsFiniteSet(T)
    BY <1>1, Finite, FS_Subset
  <1>3. Cardinality(C) \in Nat /\ Cardinality(T) \in Nat
    BY <1>2, FS_CardinalityType
  <1>4. Cardinality(C) + Cardinality(T) < Limit + Cardinality(Line)
    <2>1. Cardinality(Counted) + Cardinality(Through) < Limit + Cardinality(Line)
      BY DEF LimitKept
    <2> HIDE DEF C, T
    <2> QED
      BY <1>2, <1>3, <2>1, Finite
  <1> QED
    BY <1>4 DEF LimitKept, Counted, Through

\* Every line but one stays, and that one is let through at most where it is said to be.
LEMMA LineStep ==
    ASSUME PartsOK, NEW l \in Line,
           Ask(l) \/ Look(l) \/ LookAgain(l) \/ Make(l) \/ SetClone(l) \/ RecordVoice(l) \/ CheckScope(l)
             \/ CheckLine(l) \/ Strike(l)
    PROVE  /\ \A m \in Line : m # l => line'[m] = line[m]
           /\ line'[l].pc \in InClone => line[l].pc \in InClone \/ (LookAgain(l) /\ MayClone)
           /\ RecordVoice(l) => line[l].pc = "set" /\ line'[l].pc = "scope" /\ line[l].voice \in Clone \cup {None}
  <1>t. LineOK /\ line[l] \in Voicings /\ (line[l].pc \in Asking => line[l].who \in Speaker)
    BY DEF PartsOK, LinesOK, LineOK
  <1>v. line[l].voice \in Clone \cup {None}
    BY <1>t DEF Voicings
  <1>c. line[l].who \in Speaker => clones[line[l].who] \in Clone \cup {None}
    BY DEF PartsOK, ClonesOK
  <1>1. CASE Ask(l)
    <2>1. CASE Speaks(l, None)
      BY <1>1, <1>t, <2>1, LineSpeaks DEF Ask, At, RecordVoice, InClone
    <2>2. CASE \E s \in Speaker : line' = [line EXCEPT ![l] = [pc |-> "asked", who |-> s, voice |-> None]]
      BY <1>1, <1>t, <2>2 DEF LineOK, Ask, At, RecordVoice, InClone
    <2> QED
      BY <1>1, <2>1, <2>2 DEF Ask
  <1>2. CASE Look(l)
    <2>1. line[l].pc = "asked" /\ clones[line[l].who] \in Clone \cup {None}
      BY <1>2, <1>t, <1>c DEF Look, At, Asking
    <2>2. CASE Speaks(l, clones[line[l].who])
      BY <2>1, <2>2, <1>t, LineSpeaks DEF At, RecordVoice, InClone
    <2>3. CASE To(l, "wants")
      BY <2>1, <2>3, <1>t, LineTo DEF At, RecordVoice, InClone, Asking
    <2> QED
      BY <1>2, <2>2, <2>3 DEF Look
  <1>3. CASE LookAgain(l)
    <2>1. line[l].pc = "wants" /\ clones[line[l].who] \in Clone \cup {None}
      BY <1>3, <1>t, <1>c DEF LookAgain, At, Asking
    <2>2. CASE MayClone /\ To(l, "making")
      BY <1>3, <2>1, <2>2, <1>t, LineTo DEF At, RecordVoice, Asking
    <2>3. CASE Speaks(l, clones[line[l].who]) \/ Speaks(l, None)
      BY <2>1, <2>3, <1>t, LineSpeaks DEF At, RecordVoice, InClone
    <2>4. CASE Ends(l)
      BY <2>1, <2>4, <1>t, LineEnds DEF At, RecordVoice, InClone
    <2> QED
      BY <1>3, <2>2, <2>3, <2>4 DEF LookAgain
  <1>4. CASE Make(l)
    <2>1. line[l].pc = "making"
      BY <1>4 DEF Make, At
    <2>2. CASE Speaks(l, None)
      BY <2>1, <2>2, <1>t, LineSpeaks DEF At, RecordVoice, InClone
    <2>3. CASE \E c \in Clone : line' = [line EXCEPT ![l].pc = "made", ![l].voice = c]
      BY <2>1, <2>3, <1>t DEF LineOK, At, RecordVoice, InClone
    <2> QED
      BY <1>4, <2>2, <2>3 DEF Make, Unmade
  <1>5. CASE SetClone(l)
    BY <1>5, <1>t, LineTo DEF SetClone, At, RecordVoice, InClone, Asking
  <1>6. CASE RecordVoice(l)
    BY <1>6, <1>t, <1>v, LineSpeaks DEF RecordVoice, At, InClone
  <1>7. CASE CheckScope(l)
    BY <1>7, <1>t, LineEnds DEF CheckScope, At, RecordVoice, InClone
  <1>8. CASE CheckLine(l)
    BY <1>8, <1>t, LineEnds, LineTo DEF CheckLine, At, RecordVoice, InClone, Asking
  <1>9. CASE Strike(l)
    BY <1>9, <1>t, LineEnds DEF Strike, At, RecordVoice, InClone
  <1> QED
    BY <1>1, <1>2, <1>3, <1>4, <1>5, <1>6, <1>7, <1>8, <1>9

LEMMA LimitStarts == Init => LimitKept
  <1> SUFFICES ASSUME Init PROVE LimitKept
    OBVIOUS
  <1>1. Counted = {} /\ Through = {}
    BY DEF Init, Counted, Through, NoRecord, Silent, InClone
  <1>2. Cardinality(Counted) = 0 /\ Cardinality(Through) = 0
    BY <1>1, FS_EmptySet
  <1> QED
    BY <1>2, Finite DEF LimitKept

\* Nothing else counts a clone.
LEMMA CountedStays ==
    ASSUME PartsOK, [Next]_vars, ~\E l \in Line : RecordVoice(l)
    PROVE  \A c \in Clone : rec'[c].counted => rec[c].counted
  <1>t. RecOK
    BY DEF PartsOK
  <1>r. \A c \in Clone : rec[c] \in Records
    BY <1>t DEF RecOK
  <1>f. \A r \in Records, v \in {"active", "suspended"} : [r EXCEPT !.status = v].counted = r.counted
    BY DEF Records
  <1>d. \A r \in Records : [r EXCEPT !.vendor = "deleted"].counted = r.counted
    BY DEF Records
  <1>s. ASSUME Suspend PROVE \A c \in Clone : rec'[c].counted => rec[c].counted
    BY <1>r, <1>f, <1>s DEF Suspend
  <1>1. CASE UNCHANGED rec
    BY <1>1
  <1>2. ASSUME NEW l \in Line, Strike(l) PROVE \A c \in Clone : rec'[c].counted => rec[c].counted
    BY <1>2, <1>s DEF Strike
  <1>3. CASE AdminSuspends
    BY <1>3, <1>s DEF AdminSuspends
  <1>4. CASE Restore
    BY <1>4, <1>r, <1>f DEF Restore
  <1>5. ASSUME NEW d \in Clone, Withdraw(d) PROVE \A c \in Clone : rec'[c].counted => rec[c].counted
    BY <1>5, <1>t, WriteTypes DEF Withdraw
  <1>6. CASE MarkDeleted
    BY <1>6, <1>t, <1>r, <1>d DEF MarkDeleted, RecOK
  <1>7. CASE MarkWithdrawn
    BY <1>7, <1>t, WriteTypes DEF MarkWithdrawn
  <1>8. CASE Start
    BY <1>8 DEF Start
  <1>9. ASSUME NEW d \in Clone, DrainOne(d) PROVE \A c \in Clone : rec'[c].counted => rec[c].counted
    BY <1>9, <1>t, <1>r, <1>d DEF DrainOne, RecOK
  <1>10. CASE \E a \in Check : StartCheck(a) \/ SendRecording(a) \/ Verified(a) \/ DecideConsent(a)
    BY <1>10, <1>1 DEF StartCheck, SendRecording, Verified, DecideConsent, voices
  <1>11. CASE \E l \in Line : Ask(l) \/ Look(l) \/ LookAgain(l) \/ Make(l) \/ SetClone(l) \/ CheckScope(l) \/ CheckLine(l)
    BY <1>11, <1>1 DEF Ask, Look, LookAgain, Make, SetClone, CheckScope, CheckLine, voices
  <1>12. CASE DeleteAtVendor \/ Compare \/ Forget \/ Keep \/ \E c \in Clone : AsksToKeep(c)
    BY <1>12, <1>1 DEF DeleteAtVendor, Compare, Forget, Keep, AsksToKeep, voices
  <1>13. CASE EndConsent \/ Purge \/ PurgeOne \/ PurgeForgets \/ Purged \/ ConsentEnds \/ Crash \/ UNCHANGED vars
    BY <1>13, <1>1 DEF EndConsent, Purge, PurgeOne, PurgeForgets, Purged, ConsentEnds, Crash, vars, voices
  <1> QED
    BY <1>2, <1>3, <1>4, <1>5, <1>6, <1>7, <1>8, <1>9, <1>10, <1>11, <1>12, <1>13 DEF Next

\* No step but a line's own lets a line through.
LEMMA ThroughStays ==
    ASSUME PartsOK, [Next]_vars,
           ~\E l \in Line : Ask(l) \/ Look(l) \/ LookAgain(l) \/ Make(l) \/ SetClone(l) \/ RecordVoice(l) \/ CheckScope(l)
                              \/ CheckLine(l) \/ Strike(l)
    PROVE  line' = line \/ (Crash /\ \A l \in Line : line'[l] = Silent)
  <1>1. CASE UNCHANGED lines
    BY <1>1 DEF lines
  <1>2. CASE Crash
    BY <1>2 DEF Crash
  <1>3. CASE \E a \in Check : StartCheck(a) \/ SendRecording(a) \/ Verified(a) \/ DecideConsent(a)
    BY <1>1, <1>3 DEF StartCheck, SendRecording, Verified, DecideConsent
  <1>4. CASE AdminSuspends \/ Restore \/ Start \/ \E c \in Clone : Withdraw(c) \/ AsksToKeep(c) \/ DrainOne(c)
    BY <1>1, <1>4 DEF AdminSuspends, Restore, Start, Withdraw, AsksToKeep, DrainOne
  <1>5. CASE DeleteAtVendor \/ MarkDeleted \/ Compare \/ Forget \/ Keep
    BY <1>1, <1>5 DEF DeleteAtVendor, MarkDeleted, Compare, Forget, Keep
  <1>6. CASE EndConsent \/ Purge \/ PurgeOne \/ PurgeForgets \/ MarkWithdrawn \/ ConsentEnds
    BY <1>1, <1>6 DEF EndConsent, Purge, PurgeOne, PurgeForgets, MarkWithdrawn, ConsentEnds
  <1>7. CASE Purged
    BY <1>7 DEF Purged
  <1>8. CASE UNCHANGED vars
    BY <1>1, <1>8 DEF vars
  <1> QED
    BY <1>2, <1>3, <1>4, <1>5, <1>6, <1>7, <1>8 DEF Next

LEMMA LimitNext == PartsOK /\ LimitKept /\ [Next]_vars => LimitKept'
  <1> SUFFICES ASSUME PartsOK, LimitKept, [Next]_vars PROVE LimitKept'
    OBVIOUS
  <1>1. ASSUME NEW l \in Line, LookAgain(l), MayClone, ~\E m \in Line : RecordVoice(m) PROVE LimitKept'
    <2> DEFINE C == {c \in Clone : rec'[c].counted}
               T == {m \in Line : line'[m].pc \in InClone}
    <2>1. C \subseteq Counted /\ T \subseteq Line
      BY <1>1, CountedStays DEF Counted
    <2>2. Cardinality(C) <= Cardinality(Counted) /\ IsFiniteSet(C) /\ Cardinality(T) <= Cardinality(Line) /\ IsFiniteSet(T)
      BY <2>1, Finite, FS_Subset, VoiceAssumption
    <2>3. Cardinality(C) \in Nat /\ Cardinality(T) \in Nat
      BY <2>2, FS_CardinalityType
    <2>4. Cardinality(Counted) < Limit
      BY <1>1 DEF MayClone, Counted
    <2>5. Cardinality(C) + Cardinality(T) < Limit + Cardinality(Line)
      <3> HIDE DEF C, T
      <3> QED
        BY <2>2, <2>3, <2>4, Finite
    <2> QED
      BY <2>5 DEF LimitKept, Counted, Through
  <1>2. ASSUME NEW l \in Line, RecordVoice(l) PROVE LimitKept'
    <2> DEFINE C == {c \in Clone : rec'[c].counted}
               T == {m \in Line : line'[m].pc \in InClone}
               v == line[l].voice
    <2>1. l \in Through /\ T \subseteq Through \ {l}
      BY <1>2, LineStep DEF Through, InClone
    <2>2. C \subseteq Counted \cup {v}
      BY <1>2 DEF RecordVoice, Counted, PartsOK, RecOK
    <2>3. /\ IsFiniteSet(Counted \cup {v})
          /\ Cardinality(Counted \cup {v}) = Cardinality(Counted) \/ Cardinality(Counted \cup {v}) = Cardinality(Counted) + 1
      BY Finite, FS_AddElement
    <2>4. IsFiniteSet(Through \ {l}) /\ Cardinality(Through \ {l}) = Cardinality(Through) - 1
      BY <2>1, Finite, FS_RemoveElement
    <2>5. /\ Cardinality(C) <= Cardinality(Counted \cup {v}) /\ IsFiniteSet(C)
          /\ Cardinality(T) <= Cardinality(Through \ {l}) /\ IsFiniteSet(T)
      BY <2>1, <2>2, <2>3, <2>4, FS_Subset
    <2>6. Cardinality(C) \in Nat /\ Cardinality(T) \in Nat
      BY <2>5, FS_CardinalityType
    <2>7. Cardinality(Counted) + Cardinality(Through) < Limit + Cardinality(Line)
      BY DEF LimitKept
    <2>8. Cardinality(C) + Cardinality(T) < Limit + Cardinality(Line)
      <3> HIDE DEF C, T
      <3> QED
        BY <2>3, <2>4, <2>5, <2>6, <2>7, Finite
    <2> QED
      BY <2>8 DEF LimitKept, Counted, Through
  <1>3. ASSUME NEW l \in Line, ~\E m \in Line : RecordVoice(m), ~(LookAgain(l) /\ MayClone),
               Ask(l) \/ Look(l) \/ LookAgain(l) \/ Make(l) \/ SetClone(l) \/ CheckScope(l) \/ CheckLine(l) \/ Strike(l)
        PROVE  LimitKept'
    <2>1. \A c \in Clone : rec'[c].counted => rec[c].counted
      BY <1>3, CountedStays
    <2>2. \A m \in Line : line'[m].pc \in InClone => line[m].pc \in InClone
      BY <1>3, LineStep
    <2> QED
      BY <2>1, <2>2, FewerKept
  <1>4. CASE ~\E l \in Line : Ask(l) \/ Look(l) \/ LookAgain(l) \/ Make(l) \/ SetClone(l) \/ RecordVoice(l) \/ CheckScope(l)
                                \/ CheckLine(l) \/ Strike(l)
    <2>1. \A c \in Clone : rec'[c].counted => rec[c].counted
      BY <1>4, CountedStays
    <2>2. \A m \in Line : line'[m].pc \in InClone => line[m].pc \in InClone
      BY <1>4, ThroughStays DEF Silent, InClone
    <2> QED
      BY <2>1, <2>2, FewerKept
  <1> QED
    BY <1>1, <1>2, <1>3, <1>4

\* However many lines are voiced at once, the window's limit is passed by no more clones than lines.
THEOREM LimitHolds == Spec => []LimitBounded
  <1>1. Spec => []LimitKept
    BY LimitStarts, LimitNext, PartsAlways, PTL DEF Spec
  <1>2. LimitKept => LimitBounded
    BY Finite DEF LimitKept, LimitBounded, Counted
  <1> QED
    BY <1>1, <1>2, PTL
------------------------------------------------------------------------------
------------------------------------------------------------------------------
(* One voice of a speaker, and voices that stay withdrawn *)

\* What a line between its second look and its record relies on, and leaves to no other line.
LinesKnow == \A l \in Line :
    /\ line[l].pc \in {"making", "made"} => clones[line[l].who] = None
    /\ line[l].pc \in {"made", "set"} => line[l].voice \in Clone /\ rec[line[l].voice] = NoRecord
LinesApart == \A l, m \in Line :
    /\ line[l].pc \in InClone /\ line[m].pc \in InClone /\ line[l].who = line[m].who => l = m
    /\ line[l].pc \in {"made", "set"} /\ line[m].pc \in {"made", "set"} /\ line[l].voice = line[m].voice => l = m

\* A record has whose voice it is; what is to be deleted has one.
Recorded == \A c \in Clone : rec[c] # NoRecord => rec[c].who \in Speaker /\ rec[c].status # "none"
Drains == \A c \in draining : rec[c] # NoRecord

\* What the withdrawal of one voice knows at each of its steps.
Leaves == leaving.pc # "idle" =>
    /\ leaving.voice \in Clone /\ Over(leaving.voice)
    /\ leaving.pc = "mark" => leaving.voice \notin there

\* Of a server that is down nothing is under way.
DownIsQuiet == ~up => \A l \in Line : line[l] = Silent

GuardInv == LinesKnow /\ LinesApart /\ Recorded /\ Drains /\ Leaves /\ DownIsQuiet

\* Which steps write what.
LEMMA Changes ==
    ASSUME [Next]_vars
    PROVE  /\ \/ UNCHANGED rec \/ AdminSuspends \/ Restore \/ MarkDeleted \/ MarkWithdrawn \/ Start
              \/ (\E l \in Line : RecordVoice(l) \/ Strike(l)) \/ (\E c \in Clone : Withdraw(c) \/ DrainOne(c))
           /\ UNCHANGED there \/ DeleteAtVendor \/ PurgeOne \/ (\E l \in Line : Make(l)) \/ (\E c \in Clone : DrainOne(c))
           /\ UNCHANGED clones \/ Forget \/ PurgeForgets \/ (\E l \in Line : SetClone(l))
           /\ UNCHANGED mine \/ Keep
           /\ UNCHANGED keeping \/ Keep \/ Crash \/ (\E c \in Clone : AsksToKeep(c))
           /\ \/ UNCHANGED leaving \/ DeleteAtVendor \/ MarkDeleted \/ Compare \/ Forget \/ Crash
              \/ (\E c \in Clone : Withdraw(c))
           /\ \/ UNCHANGED ending \/ EndConsent \/ Purge \/ PurgeOne \/ PurgeForgets \/ Purged \/ MarkWithdrawn
              \/ ConsentEnds \/ Crash
           /\ UNCHANGED draining \/ Crash \/ Start \/ (\E c \in Clone : DrainOne(c))
           /\ UNCHANGED up \/ Crash \/ Start
  <1> DEFINE Same == UNCHANGED <<rec, there, clones, mine, keeping, leaving, ending, draining, up>>
  <1>1. CASE \E a \in Check : StartCheck(a) \/ SendRecording(a) \/ Verified(a) \/ DecideConsent(a)
    <2>1. Same
      BY <1>1 DEF StartCheck, SendRecording, Verified, DecideConsent, voices, owner, server
    <2> QED
      BY <2>1
  <1>2. CASE \E l \in Line : Ask(l) \/ Look(l) \/ LookAgain(l) \/ CheckScope(l) \/ CheckLine(l)
    <2>1. Same
      BY <1>2 DEF Ask, Look, LookAgain, CheckScope, CheckLine, voices, owner, server
    <2> QED
      BY <2>1
  <1>3. CASE \E l \in Line : Make(l) \/ SetClone(l) \/ RecordVoice(l) \/ Strike(l)
    BY <1>3 DEF Make, SetClone, RecordVoice, Strike, owner, server
  <1>4. CASE AdminSuspends \/ Restore
    BY <1>4 DEF AdminSuspends, Restore, owner, server
  <1>5. CASE (\E c \in Clone : Withdraw(c)) \/ MarkDeleted \/ Compare
    BY <1>5 DEF Withdraw, MarkDeleted, Compare, voices, server
  <1>6. CASE DeleteAtVendor \/ Forget
    BY <1>6 DEF DeleteAtVendor, Forget, server
  <1>7. CASE (\E c \in Clone : AsksToKeep(c)) \/ Keep
    BY <1>7 DEF AsksToKeep, Keep, voices, server
  <1>8. CASE EndConsent \/ Purge \/ Purged \/ ConsentEnds
    BY <1>8 DEF EndConsent, Purge, Purged, ConsentEnds, voices, server
  <1>9. CASE PurgeOne \/ PurgeForgets \/ MarkWithdrawn
    BY <1>9 DEF PurgeOne, PurgeForgets, MarkWithdrawn, server
  <1>10. CASE Crash
    BY <1>10 DEF Crash, voices
  <1>11. CASE Start \/ \E c \in Clone : DrainOne(c)
    BY <1>11 DEF Start, DrainOne, owner
  <1>12. CASE UNCHANGED vars
    BY <1>12 DEF vars, voices, owner, server
  <1> QED
    BY <1>1, <1>2, <1>3, <1>4, <1>5, <1>6, <1>7, <1>8, <1>9, <1>10, <1>11, <1>12 DEF Next

\* What a step does to records: one is kept with whom it is of, and a withdrawn one stays withdrawn.
LEMMA RecordsStep ==
    ASSUME PartsOK, GuardInv, [Next]_vars
    PROVE  /\ \A c \in Clone : rec[c] # NoRecord => /\ rec'[c].who = rec[c].who /\ rec'[c].status # "none"
                                                    /\ Over(c) => rec'[c].status = "withdrawn"
           /\ \A c \in Clone : rec[c] = NoRecord =>
                \/ rec'[c] = NoRecord
                \/ /\ rec'[c].status = "active" /\ rec'[c].who \in Speaker /\ clones' = clones
                   /\ \/ Start /\ clones[rec'[c].who] = c
                      \/ \E l \in Line : RecordVoice(l) /\ line[l].voice = c /\ rec'[c].who = line[l].who
           /\ \A c \in Clone : rec'[c].status = "withdrawn" =>
                \/ Over(c) /\ rec'[c].vendor = rec[c].vendor
                \/ rec'[c].vendor = "delete_queued"
                \/ c \notin there'
                \/ MarkWithdrawn
  <1>t. RecOK /\ LineOK
    BY DEF PartsOK, LinesOK
  <1>n. NoRecord.status = "none"
    BY DEF NoRecord
  <1>r. \A c \in Clone : rec[c] \in Records /\ (rec[c] # NoRecord => rec[c].who \in Speaker /\ rec[c].status # "none")
    BY <1>t DEF RecOK, GuardInv, Recorded
  <1>f. \A r \in Records, v \in {"active", "suspended"} :
          /\ [r EXCEPT !.status = v].status = v /\ [r EXCEPT !.status = v].who = r.who
          /\ [r EXCEPT !.status = v].vendor = r.vendor
    BY DEF Records
  <1>d. \A r \in Records : /\ [r EXCEPT !.vendor = "deleted"].status = r.status
                           /\ [r EXCEPT !.vendor = "deleted"].who = r.who
    BY DEF Records
  <1> DEFINE Kept(c) == rec[c] # NoRecord => /\ rec'[c].who = rec[c].who /\ rec'[c].status # "none"
                                             /\ Over(c) => rec'[c].status = "withdrawn"
             New(c) == rec[c] = NoRecord =>
                \/ rec'[c] = NoRecord
                \/ /\ rec'[c].status = "active" /\ rec'[c].who \in Speaker /\ clones' = clones
                   /\ \/ Start /\ clones[rec'[c].who] = c
                      \/ \E l \in Line : RecordVoice(l) /\ line[l].voice = c /\ rec'[c].who = line[l].who
             Goes(c) == rec'[c].status = "withdrawn" =>
                \/ Over(c) /\ rec'[c].vendor = rec[c].vendor
                \/ rec'[c].vendor = "delete_queued"
                \/ c \notin there'
                \/ MarkWithdrawn
  <1> SUFFICES ASSUME NEW c \in Clone PROVE Kept(c) /\ New(c) /\ Goes(c)
    OBVIOUS
  <1>0. CASE rec'[c] = rec[c]
    BY <1>0, <1>r DEF Over
  <1>1. CASE Suspend
    <2>1. rec'[c] = IF rec[c].status = "active" THEN [rec[c] EXCEPT !.status = "suspended"] ELSE rec[c]
      BY <1>1 DEF Suspend
    <2>2. CASE rec[c].status = "active"
      <3>1. rec'[c].status = "suspended" /\ rec'[c].who = rec[c].who
        BY <1>r, <1>f, <2>1, <2>2
      <3> QED
        BY <3>1, <2>2, <1>n DEF Over
    <2>3. CASE rec[c].status # "active"
      BY <1>0, <2>1, <2>3
    <2> QED
      BY <2>2, <2>3
  <1>2. CASE \E l \in Line : Strike(l)
    BY <1>0, <1>1, <1>2 DEF Strike
  <1>3. CASE AdminSuspends
    BY <1>1, <1>3 DEF AdminSuspends
  <1>4. CASE Restore
    <2>1. rec'[c] = IF rec[c].status = "suspended" THEN [rec[c] EXCEPT !.status = "active"] ELSE rec[c]
      BY <1>4 DEF Restore
    <2>2. CASE rec[c].status = "suspended"
      <3>1. rec'[c].status = "active" /\ rec'[c].who = rec[c].who
        BY <1>r, <1>f, <2>1, <2>2
      <3> QED
        BY <3>1, <2>2, <1>n DEF Over
    <2>3. CASE rec[c].status # "suspended"
      BY <1>0, <2>1, <2>3
    <2> QED
      BY <2>2, <2>3
  <1>5. ASSUME NEW d \in Clone, Withdraw(d) PROVE Kept(c) /\ New(c) /\ Goes(c)
    <2>1. CASE rec' = rec
      BY <1>0, <2>1
    <2>2. CASE Write({d}, "withdrawn", "delete_queued")
      <3>1. CASE c = d
        <4>1. rec'[c].status = "withdrawn" /\ rec'[c].vendor = "delete_queued" /\ rec'[c].who = rec[c].who
              /\ rec[c] # NoRecord
          BY <1>5, <1>t, <2>2, <3>1, WriteTypes DEF Withdraw
        <4> QED
          BY <4>1
      <3>2. CASE c # d
        BY <1>0, <1>t, <2>2, <3>2, WriteTypes
      <3> QED
        BY <3>1, <3>2
    <2> QED
      BY <1>5, <2>1, <2>2 DEF Withdraw
  <1>6. CASE MarkDeleted
    <2>1. leaving.voice \in Clone /\ Over(leaving.voice) /\ leaving.voice \notin there
      BY <1>6 DEF MarkDeleted, GuardInv, Leaves
    <2>2. rec[leaving.voice] # NoRecord
      BY <2>1, <1>n DEF Over
    <2>3. CASE c = leaving.voice
      <3>1. rec'[c].status = rec[c].status /\ rec'[c].who = rec[c].who /\ c \notin there'
        BY <1>6, <1>t, <1>r, <1>d, <2>1, <2>3 DEF MarkDeleted, RecOK
      <3> QED
        BY <1>r, <2>2, <2>3, <3>1 DEF Over
    <2>4. CASE c # leaving.voice
      BY <1>0, <1>6, <1>t, <2>4 DEF MarkDeleted, RecOK
    <2> QED
      BY <2>3, <2>4
  <1>7. CASE MarkWithdrawn
    <2>1. PICK d \in ending.before : Write({d}, "withdrawn", IF d \in ending.failed THEN "delete_queued" ELSE "deleted")
      BY <1>7 DEF MarkWithdrawn
    <2>3. CASE c = d /\ rec[c] # NoRecord
      <3>1. rec'[c].status = "withdrawn" /\ rec'[c].who = rec[c].who
        BY <1>t, <2>1, <2>3, WriteTypes
      <3> QED
        BY <1>7, <2>3, <3>1
    <2>4. CASE c # d \/ rec[c] = NoRecord
      <3>1. rec'[c] = rec[c]
        BY <1>t, <2>1, <2>4, WriteTypes
      <3> QED
        BY <1>0, <3>1
    <2> QED
      BY <2>3, <2>4
  <1>8. CASE Start
    <2>1. CASE Backfilled(c)
      <3>1. rec'[c] = [status |-> "active", vendor |-> "live", who |-> CHOOSE s \in Speaker : clones[s] = c, counted |-> FALSE]
        BY <1>8, <2>1 DEF Start
      <3>2. rec[c] = NoRecord /\ \E s \in Speaker : clones[s] = c
        BY <2>1 DEF Backfilled
      <3>3. rec'[c].status = "active" /\ rec'[c].who \in Speaker /\ clones[rec'[c].who] = c /\ clones' = clones
        BY <1>8, <3>1, <3>2 DEF Start
      <3> QED
        BY <1>8, <3>2, <3>3
    <2>2. CASE ~Backfilled(c)
      <3>1. rec'[c] = rec[c]
        BY <1>8, <2>2 DEF Start
      <3> QED
        BY <1>0, <3>1
    <2> QED
      BY <2>1, <2>2
  <1>9. ASSUME NEW d \in Clone, DrainOne(d) PROVE Kept(c) /\ New(c) /\ Goes(c)
    <2>1. CASE rec' = rec
      BY <1>0, <2>1
    <2>2. CASE there' = there \ {d} /\ rec' = [rec EXCEPT ![d].vendor = "deleted"]
      <3>1. CASE c = d
        <4>1. rec[c] # NoRecord
          BY <1>9, <3>1 DEF DrainOne, GuardInv, Drains
        <4>2. rec'[c].status = rec[c].status /\ rec'[c].who = rec[c].who /\ c \notin there'
          BY <1>t, <1>r, <1>d, <2>2, <3>1 DEF RecOK
        <4> QED
          BY <1>r, <4>1, <4>2 DEF Over
      <3>2. CASE c # d
        BY <1>0, <1>t, <2>2, <3>2 DEF RecOK
      <3> QED
        BY <3>1, <3>2
    <2> QED
      BY <1>9, <2>1, <2>2 DEF DrainOne
  <1>10. ASSUME NEW l \in Line, RecordVoice(l) PROVE Kept(c) /\ New(c) /\ Goes(c)
    <2>1. CASE rec' = rec
      BY <1>0, <2>1
    <2>2. CASE c # line[l].voice
      BY <1>0, <1>10, <1>t, <2>2 DEF RecordVoice, RecOK
    <2>3. CASE c = line[l].voice /\ rec' # rec
      <3>1. line[l].pc = "set" /\ line[l].who \in Speaker
        BY <1>10, <1>t DEF RecordVoice, At, LineOK, Asking
      <3>2. rec[c] = NoRecord
        BY <2>3, <3>1 DEF GuardInv, LinesKnow
      <3>3. rec'[c] = [status |-> "active", vendor |-> "live", who |-> line[l].who, counted |-> TRUE] /\ clones' = clones
        BY <1>10, <1>t, <2>3 DEF RecordVoice, RecOK
      <3>4. rec'[c].status = "active" /\ rec'[c].who = line[l].who
        BY <3>3
      <3> QED
        BY <1>10, <2>3, <3>1, <3>2, <3>3, <3>4
    <2> QED
      BY <2>1, <2>2, <2>3
  <1> QED
    BY <1>0, <1>2, <1>3, <1>4, <1>5, <1>6, <1>7, <1>8, <1>9, <1>10, Changes

\* A clone that comes to the vendor is one nothing was recorded of, and nothing is now.
LEMMA ThereStep ==
    ASSUME PartsOK, [Next]_vars
    PROVE  \A c \in there' : c \in there \/ (c \in Clone /\ rec[c] = NoRecord /\ rec' = rec /\ clones' = clones)
  <1>1. CASE UNCHANGED there
    BY <1>1
  <1>2. CASE DeleteAtVendor \/ PurgeOne \/ \E c \in Clone : DrainOne(c)
    BY <1>2 DEF DeleteAtVendor, PurgeOne, DrainOne
  <1>3. ASSUME NEW l \in Line, Make(l)
        PROVE  \A c \in there' : c \in there \/ (c \in Clone /\ rec[c] = NoRecord /\ rec' = rec /\ clones' = clones)
    BY <1>3 DEF Make, Unmade
  <1> QED
    BY <1>1, <1>2, <1>3, Changes

\* A speaker's name is set anew only where it was set to nothing.
LEMMA ClonesStep ==
    ASSUME PartsOK, GuardInv, [Next]_vars, NEW s \in Speaker
    PROVE  clones'[s] = clones[s] \/ clones'[s] = None \/ (clones[s] = None /\ \E l \in Line : SetClone(l) /\ line[l].who = s)
  <1>c. clones \in [Speaker -> Clone \cup {None}]
    BY DEF PartsOK, ClonesOK
  <1>1. CASE UNCHANGED clones
    BY <1>1
  <1>2. CASE Forget \/ PurgeForgets
    BY <1>2, <1>c DEF Forget, PurgeForgets
  <1>3. ASSUME NEW l \in Line, SetClone(l)
        PROVE  clones'[s] = clones[s] \/ (clones[s] = None /\ line[l].who = s)
    BY <1>3, <1>c DEF SetClone, At, GuardInv, LinesKnow
  <1> QED
    BY <1>1, <1>2, <1>3, Changes

LEMMA MineStep == ASSUME [Next]_vars PROVE mine \subseteq mine'
  BY Changes DEF Keep

LEMMA RecordedNext == ASSUME PartsOK, GuardInv, [Next]_vars PROVE Recorded' /\ Drains'
  <1>n. NoRecord.status = "none"
    BY DEF NoRecord
  <1>1. Recorded'
    <2> SUFFICES ASSUME NEW c \in Clone, rec'[c] # NoRecord PROVE rec'[c].who \in Speaker /\ rec'[c].status # "none"
      BY DEF Recorded
    <2>1. CASE rec[c] = NoRecord
      BY <2>1, RecordsStep
    <2>2. CASE rec[c] # NoRecord
      BY <2>2, RecordsStep DEF GuardInv, Recorded
    <2> QED
      BY <2>1, <2>2
  <1>2. Drains'
    <2> SUFFICES ASSUME NEW c \in draining' PROVE rec'[c] # NoRecord
      BY DEF Drains
    <2>1. CASE Start
      <3>1. c \in Clone /\ rec[c].vendor = "delete_queued"
        BY <2>1 DEF Start
      <3>2. rec[c] # NoRecord
        BY <3>1 DEF NoRecord
      <3> QED
        BY <1>n, <3>1, <3>2, RecordsStep
    <2>2. CASE ~Start
      <3>1. c \in draining
        BY <2>2, Changes DEF Crash, DrainOne
      <3>2. c \in Clone /\ rec[c] # NoRecord
        BY <3>1 DEF PartsOK, ServerOK, GuardInv, Drains
      <3> QED
        BY <1>n, <3>2, RecordsStep
    <2> QED
      BY <2>1, <2>2
  <1> QED
    BY <1>1, <1>2

\* While the server is down, nothing of the owner's is under way.
LEMMA DownNext == ASSUME PartsOK, GuardInv, [Next]_vars PROVE DownIsQuiet'
  <1>1. CASE Crash
    BY <1>1 DEF Crash, DownIsQuiet
  <1>2. CASE ~Crash
    <2> SUFFICES ASSUME ~up' PROVE \A l \in Line : line'[l] = Silent
      BY DEF DownIsQuiet
    <2>1. ~Start
      BY DEF Start
    <2>2. ~up /\ \A l \in Line : line[l] = Silent
      BY <1>2, <2>1, Changes DEF GuardInv, DownIsQuiet
    <2>3. ~\E l \in Line : Ask(l) \/ Look(l) \/ LookAgain(l) \/ Make(l) \/ SetClone(l) \/ RecordVoice(l) \/ CheckScope(l)
                            \/ CheckLine(l) \/ Strike(l)
      BY <2>2 DEF Ask, Look, LookAgain, Make, SetClone, RecordVoice, CheckScope, CheckLine, Strike, At, Open
    <2> QED
      BY <2>2, <2>3, ThroughStays
  <1> QED
    BY <1>1, <1>2

LEMMA LeavesNext == ASSUME PartsOK, GuardInv, [Next]_vars PROVE Leaves'
  <1>n. NoRecord.status = "none" /\ None \notin Clone
    BY VoiceAssumption DEF NoRecord
  <1>t. RecOK /\ leaving \in Leavings
    BY DEF PartsOK, OwnerOK
  <1>o. ASSUME NEW c \in Clone, Over(c) PROVE rec[c] # NoRecord /\ rec'[c].status = "withdrawn" /\ rec'[c].who = rec[c].who
                                              /\ rec[c].who \in Speaker /\ (c \notin there => c \notin there')
    <2>1. rec[c] # NoRecord
      BY <1>n, <1>o DEF Over
    <2> QED
      BY <1>o, <2>1, RecordsStep, ThereStep DEF GuardInv, Recorded
  <1>l. leaving.pc # "idle" => leaving.voice \in Clone /\ Over(leaving.voice)
    BY DEF GuardInv, Leaves
  <1>1. CASE UNCHANGED leaving
    <2> SUFFICES ASSUME leaving.pc # "idle"
                 PROVE  /\ rec'[leaving.voice].status = "withdrawn"
                        /\ leaving.pc = "mark" => leaving.voice \notin there'
      BY <1>1, <1>l DEF Leaves, Over
    <2> QED
      BY <1>l, <1>o DEF GuardInv, Leaves
  <1>2. CASE Crash \/ Forget
    BY <1>2 DEF Crash, Forget, Stays, Leaves
  <1>3. ASSUME NEW c \in Clone, Withdraw(c) PROVE Leaves'
    <2>1. leaving'.pc = "delete" /\ leaving'.voice = c
      BY <1>3 DEF Withdraw
    <2>2. rec'[c].status = "withdrawn"
      BY <1>3, <1>t, WriteTypes DEF Withdraw
    <2> QED
      BY <2>1, <2>2 DEF Leaves, Over
  <1>4. CASE DeleteAtVendor
    <2>1. leaving.pc = "delete" /\ leaving.voice \in Clone /\ rec'[leaving.voice].status = "withdrawn"
      BY <1>4, <1>l, <1>o DEF DeleteAtVendor
    <2>2. leaving'.voice = leaving.voice /\ \/ leaving'.pc = "mark" /\ leaving.voice \notin there'
                                            \/ leaving'.pc = "compare"
      BY <1>4, <1>t DEF DeleteAtVendor, Leavings
    <2> QED
      BY <2>1, <2>2 DEF Leaves, Over
  <1>5. CASE MarkDeleted
    <2>1. leaving.pc = "mark" /\ leaving.voice \in Clone /\ rec'[leaving.voice].status = "withdrawn"
      BY <1>5, <1>l, <1>o DEF MarkDeleted
    <2>2. leaving'.voice = leaving.voice /\ leaving'.pc = "compare"
      BY <1>5, <1>t DEF MarkDeleted, Leavings
    <2> QED
      BY <2>1, <2>2 DEF Leaves, Over
  <1>6. CASE Compare
    <2>1. leaving.pc = "compare" /\ leaving.voice \in Clone /\ Over(leaving.voice) /\ UNCHANGED <<clones, rec>>
      BY <1>6, <1>l DEF Compare, voices
    <2>2. \/ leaving' = Stays
          \/ /\ clones[rec[leaving.voice].who] = leaving.voice
             /\ leaving'.voice = leaving.voice /\ leaving'.pc = "forget"
      BY <1>6, <1>t DEF Compare, Leavings
    <2> QED
      BY <2>1, <2>2 DEF Leaves, Over, Stays
  <1> QED
    BY <1>1, <1>2, <1>3, <1>4, <1>5, <1>6, Changes

\* A line that steps, and is not between its second look and its record any more.
LEMMA LineOut ==
    ASSUME GuardInv, LineOK', NEW l \in Line, \A m \in Line : m # l => line'[m] = line[m], line'[l].pc \notin InClone,
           UNCHANGED clones,
           \A m \in Line : m # l /\ line[m].pc \in {"made", "set"} => rec'[line[m].voice] = NoRecord
    PROVE  LinesKnow' /\ LinesApart'
  <1>1. LinesKnow'
    <2> SUFFICES ASSUME NEW m \in Line
                 PROVE  /\ line'[m].pc \in {"making", "made"} => clones'[line'[m].who] = None
                        /\ line'[m].pc \in {"made", "set"} => line'[m].voice \in Clone /\ rec'[line'[m].voice] = NoRecord
      BY DEF LinesKnow
    <2>1. CASE m = l
      BY <2>1 DEF InClone
    <2>2. CASE m # l
      BY <2>2 DEF GuardInv, LinesKnow
    <2> QED
      BY <2>1, <2>2
  <1>2. LinesApart'
    <2> SUFFICES ASSUME NEW m \in Line, NEW n \in Line
                 PROVE  /\ line'[m].pc \in InClone /\ line'[n].pc \in InClone /\ line'[m].who = line'[n].who => m = n
                        /\ line'[m].pc \in {"made", "set"} /\ line'[n].pc \in {"made", "set"}
                             /\ line'[m].voice = line'[n].voice => m = n
      BY DEF LinesApart
    <2>1. CASE m = l \/ n = l
      BY <2>1 DEF InClone
    <2>2. CASE m # l /\ n # l
      BY <2>2 DEF GuardInv, LinesApart
    <2> QED
      BY <2>1, <2>2
  <1> QED
    BY <1>1, <1>2

\* The speaker of a line that steps keeps to itself what it has of them.
LEMMA LineIn ==
    ASSUME GuardInv, LineOK', NEW l \in Line, \A m \in Line : m # l => line'[m] = line[m],
           line'[l].pc \in InClone, line'[l].who = line[l].who, rec' = rec,
           \A m \in Line : m # l /\ line[m].pc \in InClone => line[m].who # line[l].who,
           \A m \in Line : line[m].pc \in InClone => line[m].who \in Speaker,
           \A m \in Line : m # l /\ line[m].pc \in {"made", "set"} /\ line'[l].pc \in {"made", "set"} =>
                            line[m].voice # line'[l].voice,
           \A s \in Speaker : s # line[l].who => clones'[s] = clones[s],
           line'[l].pc \in {"making", "made"} => clones'[line[l].who] = None,
           line'[l].pc \in {"made", "set"} => line'[l].voice \in Clone /\ rec[line'[l].voice] = NoRecord
    PROVE  LinesKnow' /\ LinesApart'
  <1>1. LinesKnow'
    <2> SUFFICES ASSUME NEW m \in Line
                 PROVE  /\ line'[m].pc \in {"making", "made"} => clones'[line'[m].who] = None
                        /\ line'[m].pc \in {"made", "set"} => line'[m].voice \in Clone /\ rec'[line'[m].voice] = NoRecord
      BY DEF LinesKnow
    <2>1. CASE m = l
      BY <2>1
    <2>2. CASE m # l /\ line[m].pc \in InClone
      <3>1. clones'[line[m].who] = clones[line[m].who] /\ line'[m] = line[m]
        BY <2>2
      <3> QED
        BY <3>1 DEF GuardInv, LinesKnow
    <2>3. CASE m # l /\ line[m].pc \notin InClone
      BY <2>3 DEF InClone
    <2> QED
      BY <2>1, <2>2, <2>3
  <1>2. LinesApart'
    <2> SUFFICES ASSUME NEW m \in Line, NEW n \in Line
                 PROVE  /\ line'[m].pc \in InClone /\ line'[n].pc \in InClone /\ line'[m].who = line'[n].who => m = n
                        /\ line'[m].pc \in {"made", "set"} /\ line'[n].pc \in {"made", "set"}
                             /\ line'[m].voice = line'[n].voice => m = n
      BY DEF LinesApart
    <2>1. CASE m = l /\ n # l
      BY <2>1
    <2>2. CASE n = l /\ m # l
      BY <2>2
    <2>3. CASE m # l /\ n # l
      BY <2>3 DEF GuardInv, LinesApart
    <2> QED
      BY <2>1, <2>2, <2>3
  <1> QED
    BY <1>1, <1>2

LEMMA LinesNext == ASSUME PartsOK, GuardInv, [Next]_vars PROVE LinesKnow' /\ LinesApart'
  <1>t. LineOK /\ LineOK' /\ \A l \in Line : line[l] \in Voicings
    BY PartsNext DEF PartsOK, LinesOK, LineOK
  <1>c. clones \in [Speaker -> Clone \cup {None}] /\ None \notin Clone
    BY VoiceAssumption DEF PartsOK, ClonesOK
  <1>w. \A l \in Line : line[l].pc \in InClone => line[l].who \in Speaker
    BY <1>t DEF LineOK, InClone, Asking
  <1>n. NoRecord.status = "none"
    BY DEF NoRecord
  <1>o. ASSUME NEW l \in Line, ~Start,
               Ask(l) \/ Look(l) \/ LookAgain(l) \/ Make(l) \/ SetClone(l) \/ RecordVoice(l) \/ CheckScope(l)
                 \/ CheckLine(l) \/ Strike(l)
        PROVE  \A m \in Line : m # l => line'[m] = line[m]
    BY <1>o, LineStep
  \* What a line made stays unrecorded, unless it records it.
  <1>v. ASSUME NEW m \in Line, line[m].pc \in {"made", "set"}, rec'[line[m].voice] # NoRecord
        PROVE  Start \/ \E l \in Line : RecordVoice(l) /\ line[l].pc = "set" /\ line[l].voice = line[m].voice
    <2>1. line[m].voice \in Clone /\ rec[line[m].voice] = NoRecord
      BY <1>v DEF GuardInv, LinesKnow
    <2> QED
      BY <1>v, <2>1, RecordsStep DEF RecordVoice, At
  <1>1. CASE Start \/ (\A l \in Line : line'[l] = Silent)
    <2>1. \A l \in Line : line'[l] = Silent
      BY <1>1 DEF Start, lines, GuardInv, DownIsQuiet
    <2> QED
      BY <2>1 DEF LinesKnow, LinesApart, Silent, InClone
  <1>2. CASE line' = line /\ ~Start /\ ~\E l \in Line : RecordVoice(l) \/ SetClone(l)
    <2>1. \A l \in Line : line[l].pc \in {"made", "set"} => rec'[line[l].voice] = NoRecord
      BY <1>2, <1>v
    <2>2. \A l \in Line : line[l].pc \in {"making", "made"} => clones'[line[l].who] = None
      <3> SUFFICES ASSUME NEW l \in Line, line[l].pc \in {"making", "made"} PROVE clones'[line[l].who] = None
        OBVIOUS
      <3>1. clones[line[l].who] = None /\ line[l].who \in Speaker
        BY <1>w DEF GuardInv, LinesKnow, InClone
      <3> QED
        BY <1>2, <3>1, ClonesStep
    <2> QED
      BY <1>2, <2>1, <2>2 DEF LinesKnow, LinesApart, GuardInv
  <1>3. ASSUME NEW l \in Line, ~Start, ~RecordVoice(l), UNCHANGED clones, line'[l].pc \notin InClone,
               Ask(l) \/ Look(l) \/ LookAgain(l) \/ Make(l) \/ CheckScope(l) \/ CheckLine(l) \/ Strike(l)
        PROVE  LinesKnow' /\ LinesApart'
    <2>1. \A m \in Line : m # l => line'[m] = line[m]
      BY <1>3, <1>o
    <2>2. \A m \in Line : ~RecordVoice(m)
      <3>1. ASSUME NEW m \in Line, RecordVoice(m) PROVE FALSE
        <4>1. m # l
          BY <1>3, <3>1
        <4>2. line[m].pc = "set" /\ line'[m].pc = "scope"
          BY <3>1, LineStep
        <4> QED
          BY <2>1, <4>1, <4>2
      <3> QED
        BY <3>1
    <2>3. \A m \in Line : m # l /\ line[m].pc \in {"made", "set"} => rec'[line[m].voice] = NoRecord
      BY <1>3, <1>v, <2>2
    <2> QED
      BY <1>3, <1>t, <2>1, <2>3, LineOut
  <1>4. ASSUME NEW l \in Line, RecordVoice(l), ~Start PROVE LinesKnow' /\ LinesApart'
    <2>1. line[l].pc = "set" /\ line'[l].pc = "scope" /\ \A m \in Line : m # l => line'[m] = line[m]
      BY <1>4, LineStep
    <2>2. \A m \in Line : m # l /\ line[m].pc \in {"made", "set"} => rec'[line[m].voice] = NoRecord
      <3> SUFFICES ASSUME NEW m \in Line, m # l, line[m].pc \in {"made", "set"}, rec'[line[m].voice] # NoRecord
                   PROVE  FALSE
        OBVIOUS
      <3>1. PICK k \in Line : RecordVoice(k) /\ line[k].pc = "set" /\ line[k].voice = line[m].voice
        BY <1>4, <1>v
      <3>2. k = m
        BY <3>1 DEF GuardInv, LinesApart
      <3>3. line'[m].pc = "scope"
        BY <3>1, <3>2, LineStep
      <3> QED
        BY <2>1, <3>1, <3>2, <3>3
    <2>3. clones' = clones
      BY <1>4 DEF RecordVoice
    <2> QED
      BY <1>t, <2>1, <2>2, <2>3, LineOut DEF InClone
  <1>5. ASSUME NEW l \in Line, LookAgain(l), line'[l].pc \in InClone, ~Start PROVE LinesKnow' /\ LinesApart'
    <2>1. line[l].pc = "wants" /\ ~Cloning(line[l].who) /\ UNCHANGED voices
      BY <1>5 DEF LookAgain, At
    <2>2. clones[line[l].who] = None /\ To(l, "making")
      <3>1. line[l].who \in Speaker
        BY <1>t, <2>1 DEF LineOK, Asking
      <3>2. clones[line[l].who] \in Clone \cup {None}
        BY <1>c, <3>1
      <3>3. ~Speaks(l, clones[line[l].who]) /\ ~Speaks(l, None) /\ ~Ends(l)
        BY <1>5, <1>t, <3>2, LineSpeaks, LineEnds DEF InClone
      <3> QED
        BY <1>5, <3>3 DEF LookAgain
    <2>3. line'[l].pc = "making" /\ line'[l].who = line[l].who /\ \A m \in Line : m # l => line'[m] = line[m]
      BY <1>t, <2>1, <2>2, LineTo DEF Asking
    <2>4. \A m \in Line : line[m].pc \in InClone => line[m].who # line[l].who
      BY <2>1 DEF Cloning, InClone
    <2> QED
      BY <1>t, <1>w, <2>1, <2>2, <2>3, <2>4, LineIn DEF voices, InClone
  <1>6. ASSUME NEW l \in Line, Make(l), line'[l].pc \in InClone, ~Start PROVE LinesKnow' /\ LinesApart'
    <2>1. line[l].pc = "making" /\ clones' = clones /\ rec' = rec
      BY <1>6 DEF Make, At
    <2>2. PICK c \in Unmade : line' = [line EXCEPT ![l].pc = "made", ![l].voice = c]
      <3>1. ~Speaks(l, None)
        BY <1>6, <1>t, LineSpeaks DEF InClone
      <3> QED
        BY <1>6, <3>1 DEF Make
    <2>3. /\ line'[l].pc = "made" /\ line'[l].who = line[l].who /\ line'[l].voice = c
          /\ \A m \in Line : m # l => line'[m] = line[m]
      <3>1. line' = [line EXCEPT ![l] = [line[l] EXCEPT !.pc = "made", !.voice = c]]
        BY <2>2
      <3> QED
        BY <1>t, <3>1 DEF LineOK, Voicings
    <2>4. c \in Clone /\ rec[c] = NoRecord /\ \A m \in Line : line[m].voice # c
      BY DEF Unmade
    <2>5. clones[line[l].who] = None
      BY <2>1 DEF GuardInv, LinesKnow
    <2>6. \A m \in Line : m # l /\ line[m].pc \in InClone => line[m].who # line[l].who
      BY <2>1 DEF GuardInv, LinesApart, InClone
    <2> QED
      BY <1>t, <1>w, <2>1, <2>3, <2>4, <2>5, <2>6, LineIn DEF InClone
  <1>7. ASSUME NEW l \in Line, SetClone(l), ~Start PROVE LinesKnow' /\ LinesApart'
    <2>1. line[l].pc = "made" /\ rec' = rec /\ clones' = [clones EXCEPT ![line[l].who] = line[l].voice]
      BY <1>7 DEF SetClone, At
    <2>2. /\ line'[l].pc = "set" /\ line'[l].who = line[l].who /\ line'[l].voice = line[l].voice
          /\ \A m \in Line : m # l => line'[m] = line[m]
      BY <1>7, <1>t, <2>1, LineTo DEF SetClone, Asking
    <2>3. line[l].voice \in Clone /\ rec[line[l].voice] = NoRecord /\ line[l].who \in Speaker
      BY <1>w, <2>1 DEF GuardInv, LinesKnow, InClone
    <2>4. clones'[line[l].who] = line[l].voice /\ \A s \in Speaker : s # line[l].who => clones'[s] = clones[s]
      BY <1>c, <2>1, <2>3
    <2>5. /\ \A m \in Line : m # l /\ line[m].pc \in InClone => line[m].who # line[l].who
          /\ \A m \in Line : m # l /\ line[m].pc \in {"made", "set"} => line[m].voice # line[l].voice
      BY <2>1 DEF GuardInv, LinesApart, InClone
    <2> QED
      BY <1>t, <1>w, <2>1, <2>2, <2>3, <2>4, <2>5, LineIn DEF InClone
  <1> QED
    <2>1. ASSUME NEW l \in Line, ~Start,
                 Ask(l) \/ Look(l) \/ LookAgain(l) \/ Make(l) \/ CheckScope(l) \/ CheckLine(l) \/ Strike(l)
          PROVE  LinesKnow' /\ LinesApart'
      <3>1. CASE RecordVoice(l)
        BY <1>4, <2>1, <3>1
      <3>2. CASE LookAgain(l) /\ line'[l].pc \in InClone
        BY <1>5, <2>1, <3>2
      <3>3. CASE Make(l) /\ line'[l].pc \in InClone
        BY <1>6, <2>1, <3>3
      <3>4. CASE ~RecordVoice(l) /\ line'[l].pc \notin InClone
        <4>1. clones' = clones
          BY <2>1 DEF Ask, Look, LookAgain, Make, CheckScope, CheckLine, Strike, voices
        <4> QED
          BY <1>3, <2>1, <3>4, <4>1
      <3>5. CASE ~LookAgain(l) /\ ~Make(l) /\ line'[l].pc \in InClone
        <4>1. line[l].pc \in {"idle", "asked", "scope", "words", "strike"}
          BY <2>1, <3>5 DEF Ask, Look, CheckScope, CheckLine, Strike, At
        <4> QED
          BY <2>1, <3>5, <4>1, LineStep DEF InClone
      <3> QED
        BY <3>1, <3>2, <3>3, <3>4, <3>5
    <2>2. CASE ~\E l \in Line : Ask(l) \/ Look(l) \/ LookAgain(l) \/ Make(l) \/ SetClone(l) \/ RecordVoice(l) \/ CheckScope(l)
                                  \/ CheckLine(l) \/ Strike(l)
      BY <1>1, <1>2, <2>2, ThroughStays
    <2> QED
      BY <1>1, <1>4, <1>7, <2>1, <2>2

LEMMA GuardStarts == Init => GuardInv
  BY DEF Init, GuardInv, LinesKnow, LinesApart, Recorded, Drains, Leaves, DownIsQuiet, Silent, Stays, InClone

LEMMA GuardNext == PartsOK /\ GuardInv /\ [Next]_vars => GuardInv'
  BY LinesNext, RecordedNext, LeavesNext, DownNext DEF GuardInv

LEMMA GuardAlways == Spec => []GuardInv
  BY GuardNext, GuardStarts, PartsAlways, PTL DEF Spec

\* The voices the vendor has that were in use, and whose speaker's name was taken off them all the same: by
\* the purge of a withdrawal of consent, or by a withdrawal of one voice that crossed it.
VARIABLE loose

LetsGo == loose' = {c \in there' : c \in loose \/ (~Over(c) /\ \E s \in Speaker : clones[s] = c /\ clones'[s] = None)}
History == loose = {} /\ [][LetsGo]_<<vars, loose>>

\* A voice in use is the one its speaker's name is set to, as is the one a line is about to record.
RightVoice == \A c \in there \ (mine \cup loose) : rec[c].who \in Speaker /\ ~Over(c) => clones[rec[c].who] = c
RightLine == \A l \in Line : line[l].pc = "set" => clones[line[l].who] = line[l].voice \/ line[l].voice \notin there \ loose

LEMMA RightVoiceNext ==
    ASSUME PartsOK, GuardInv, RightVoice, RightLine, [Next]_vars, LetsGo PROVE RightVoice'
  <1> SUFFICES ASSUME NEW c \in there' \ (mine' \cup loose'), rec'[c].who \in Speaker, rec'[c].status # "withdrawn"
               PROVE  clones'[rec'[c].who] = c
    BY DEF RightVoice, Over
  <1>n. NoRecord.who = None /\ NoRecord.status = "none" /\ None \notin Clone \cup Speaker
    BY VoiceAssumption DEF NoRecord
  <1>1. c \in there \/ (c \in Clone /\ rec[c] = NoRecord /\ rec' = rec)
    BY ThereStep
  <1>2. c \in there \ (mine \cup loose) /\ c \in Clone
    BY <1>n, <1>1, MineStep DEF PartsOK, ClonesOK, LetsGo
  <1>3. CASE rec[c] = NoRecord
    <2>1. rec'[c] # NoRecord
      BY <1>n
    <2>2. /\ clones' = clones
          /\ \/ clones[rec'[c].who] = c
             \/ \E l \in Line : RecordVoice(l) /\ line[l].voice = c /\ rec'[c].who = line[l].who
      BY <1>2, <1>3, <2>1, RecordsStep
    <2> QED
      BY <1>2, <2>2 DEF RightLine, RecordVoice, At
  <1>4. CASE rec[c] # NoRecord
    <2> DEFINE s == rec[c].who
    <2>1. rec'[c].who = s /\ s \in Speaker /\ ~Over(c)
      BY <1>2, <1>4, RecordsStep
    <2>2. clones[s] = c
      BY <1>2, <2>1 DEF RightVoice
    <2>3. clones'[s] # None
      BY <2>1, <2>2 DEF LetsGo
    <2>4. clones'[s] = clones[s]
      BY <1>n, <1>2, <2>1, <2>2, <2>3, ClonesStep
    <2> QED
      BY <2>1, <2>2, <2>4
  <1> QED
    BY <1>3, <1>4

LEMMA LookNotSet == ASSUME PartsOK, NEW l \in Line, LookAgain(l) PROVE line'[l].pc # "set"
  <1>t. LineOK /\ clones \in [Speaker -> Clone \cup {None}]
    BY DEF PartsOK, LinesOK, ClonesOK
  <1>1. line[l].pc = "wants" /\ line[l].who \in Speaker
    BY <1>t DEF LookAgain, At, LineOK, Asking
  <1>2. CASE To(l, "making")
    BY <1>t, <1>1, <1>2, LineTo DEF Asking
  <1>3. CASE Speaks(l, clones[line[l].who]) \/ Speaks(l, None)
    BY <1>t, <1>1, <1>3, LineSpeaks
  <1>4. CASE Ends(l)
    BY <1>t, <1>4, LineEnds
  <1> QED
    BY <1>2, <1>3, <1>4 DEF LookAgain

LEMMA RightLineNext ==
    ASSUME PartsOK, GuardInv, RightLine, [Next]_vars, LetsGo PROVE RightLine'
  <1> SUFFICES ASSUME NEW l \in Line, line'[l].pc = "set", line'[l].voice \in there' \ loose'
               PROVE  clones'[line'[l].who] = line'[l].voice
    BY DEF RightLine
  <1>t. LineOK /\ clones \in [Speaker -> Clone \cup {None}] /\ None \notin Clone
    BY VoiceAssumption DEF PartsOK, LinesOK, ClonesOK
  <1>1. CASE line'[l] = line[l]
    <2> DEFINE s == line[l].who
               c == line[l].voice
    <2>1. s \in Speaker /\ c \in Clone /\ rec[c] = NoRecord
      BY <1>1, <1>t DEF LineOK, Asking, GuardInv, LinesKnow
    <2>2. ~Over(c)
      BY <2>1 DEF Over, NoRecord
    <2>3. c \in there
      <3>1. ASSUME NEW m \in Line, Make(m) PROVE c \in there
        <4>1. \/ there' = there
              \/ there' = there \cup {CHOOSE d \in Unmade : TRUE} /\ Unmade # {}
          BY <3>1 DEF Make
        <4>2. c \notin Unmade
          BY DEF Unmade
        <4> QED
          BY <1>1, <4>1, <4>2
      <3>2. CASE DeleteAtVendor \/ PurgeOne \/ \E d \in Clone : DrainOne(d)
        <4>1. there' \subseteq there
          BY <3>2 DEF DeleteAtVendor, PurgeOne, DrainOne
        <4> QED
          BY <1>1, <4>1
      <3>3. CASE UNCHANGED there
        BY <1>1, <3>3
      <3> QED
        BY <3>1, <3>2, <3>3, Changes
    <2>4. clones[s] = c
      BY <1>1, <2>3 DEF RightLine, LetsGo
    <2>5. clones'[s] # None
      BY <1>1, <2>1, <2>2, <2>4 DEF LetsGo
    <2> QED
      BY <1>1, <1>t, <2>1, <2>4, <2>5, ClonesStep
  <1>2. CASE SetClone(l)
    <2>1. line[l].pc = "made" /\ line[l].who \in Speaker
      BY <1>2, <1>t DEF SetClone, At, LineOK, Asking
    <2>2. line'[l].who = line[l].who /\ line'[l].voice = line[l].voice
      BY <1>2, <1>t, <2>1, LineTo DEF SetClone, Asking
    <2> QED
      BY <1>2, <1>t, <2>1, <2>2 DEF SetClone
  <1>3. CASE line'[l] # line[l] /\ ~SetClone(l)
    <2>1. line'[l].pc # "set"
      <3>1. CASE \E m \in Line : Ask(m) \/ Look(m) \/ LookAgain(m) \/ Make(m) \/ SetClone(m) \/ RecordVoice(m) \/ CheckScope(m)
                                 \/ CheckLine(m) \/ Strike(m)
        <4>1. PICK m \in Line : Ask(m) \/ Look(m) \/ LookAgain(m) \/ Make(m) \/ SetClone(m) \/ RecordVoice(m) \/ CheckScope(m)
                               \/ CheckLine(m) \/ Strike(m)
          BY <3>1
        <4>2. m = l
          BY <1>3, <4>1, LineStep
        <4>3. CASE Ask(l) \/ Look(l) \/ CheckScope(l) \/ CheckLine(l) \/ Strike(l) \/ RecordVoice(l)
          <5>1. line[l].pc \in {"idle", "asked", "scope", "words", "strike"} \/ line'[l].pc = "scope"
            BY <4>1, <4>2, <4>3, LineStep DEF Ask, Look, CheckScope, CheckLine, Strike, At
          <5> QED
            BY <4>1, <4>2, <5>1, LineStep DEF InClone, LookAgain, At
        <4>4. CASE LookAgain(l)
          BY <1>t, <4>4, LookNotSet
        <4>5. CASE Make(l)
          <5>1. line[l].pc = "making" /\ (Speaks(l, None) \/ \E c : line' = [line EXCEPT ![l].pc = "made", ![l].voice = c])
            BY <4>5 DEF Make, At
          <5>2. CASE Speaks(l, None)
            BY <1>t, <5>2, LineSpeaks
          <5>3. CASE \E c : line' = [line EXCEPT ![l].pc = "made", ![l].voice = c]
            BY <1>t, <5>3 DEF LineOK, Voicings
          <5> QED
            BY <5>1, <5>2, <5>3
        <4> QED
          BY <1>3, <4>1, <4>2, <4>3, <4>4, <4>5
      <3>2. CASE ~\E m \in Line : Ask(m) \/ Look(m) \/ LookAgain(m) \/ Make(m) \/ SetClone(m) \/ RecordVoice(m)
                                  \/ CheckScope(m) \/ CheckLine(m) \/ Strike(m)
        BY <1>3, <3>2, ThroughStays DEF Silent
      <3> QED
        BY <3>1, <3>2
    <2> QED
      BY <2>1
  <1> QED
    BY <1>1, <1>2, <1>3

\* A speaker has one voice of theirs in use at the vendor at a time, kept and loose ones apart.
OneVoiceNamed ==
    \A s \in Speaker : Cardinality({c \in there : rec[c].who = s /\ ~Over(c) /\ c \notin mine \cup loose}) <= 1

\* However many lines are voiced at once, whatever fails between a clone and its record, and whatever is
\* withdrawn in the middle of it (CloneService, withdraw_consent_now): of the voices of one speaker the
\* vendor has in use, kept ones apart, all but one had the speaker's name taken off them in use.
THEOREM OneVoiceEach == Spec /\ History => []OneVoiceNamed
  <1> DEFINE Right == RightVoice /\ RightLine
  <1>1. Init /\ loose = {} => Right
    BY DEF Init, RightVoice, RightLine, Silent
  <1>2. PartsOK /\ GuardInv /\ Right /\ [Next]_vars /\ [LetsGo]_<<vars, loose>> => Right'
    <2> SUFFICES ASSUME PartsOK, GuardInv, Right, [Next]_vars, [LetsGo]_<<vars, loose>> PROVE Right'
      OBVIOUS
    <2>1. CASE LetsGo
      BY <2>1, RightVoiceNext, RightLineNext
    <2>2. CASE UNCHANGED <<vars, loose>>
      BY <2>2 DEF RightVoice, RightLine, Over, vars, voices, lines
    <2> QED
      BY <2>1, <2>2
  <1>3. Right => OneVoiceNamed
    <2> SUFFICES ASSUME Right, NEW s \in Speaker
                 PROVE  Cardinality({c \in there : rec[c].who = s /\ ~Over(c) /\ c \notin mine \cup loose}) <= 1
      BY DEF OneVoiceNamed
    <2> DEFINE V == {c \in there : rec[c].who = s /\ ~Over(c) /\ c \notin mine \cup loose}
    <2>1. V \subseteq {clones[s]}
      BY DEF RightVoice
    <2>2. IsFiniteSet({clones[s]}) /\ Cardinality({clones[s]}) = 1
      BY FS_Singleton
    <2>3. Cardinality(V) <= 1
      <3> HIDE DEF V
      <3> QED
        BY <2>1, <2>2, FS_Subset
    <2> QED
      BY <2>3
  <1>4. Spec /\ History => []Right
    <2> HIDE DEF Right
    <2> QED
      BY <1>1, <1>2, PartsAlways, GuardAlways, PTL DEF Spec, History
  <1> QED
    <2> HIDE DEF Right
    <2> QED
      BY <1>3, <1>4, PTL

\* A withdrawn voice the vendor has waits to be deleted.
Waits(c) == c \in there /\ Over(c) => rec[c].vendor = "delete_queued"

\* Whatever crosses what, a voice that was withdrawn stays so and, once the vendor has deleted it, gone; and
\* only the marks at the end of a withdrawal of consent (mark_withdrawn, which writes down what the purge
\* said) take one the vendor still has from those that wait to be deleted.
THEOREM WithdrawnForGood ==
    Spec => [][\A c \in Clone : /\ Over(c) => Over(c)' /\ (c \notin there => c \notin there')
                                /\ Waits(c) => Waits(c)' \/ MarkWithdrawn]_vars
  <1>1. PartsOK /\ GuardInv /\ [Next]_vars =>
          [\A c \in Clone : /\ Over(c) => Over(c)' /\ (c \notin there => c \notin there')
                            /\ Waits(c) => Waits(c)' \/ MarkWithdrawn]_vars
    <2> SUFFICES ASSUME PartsOK, GuardInv, [Next]_vars, NEW c \in Clone
                 PROVE  /\ Over(c) => rec'[c].status = "withdrawn" /\ (c \notin there => c \notin there')
                        /\ Waits(c) => (c \in there' /\ rec'[c].status = "withdrawn" => rec'[c].vendor = "delete_queued")
                                       \/ MarkWithdrawn
      BY DEF Over, Waits
    <2>n. NoRecord.status = "none"
      BY DEF NoRecord
    <2>1. ASSUME Over(c) PROVE rec'[c].status = "withdrawn" /\ (c \notin there => c \notin there')
      <3>1. rec[c] # NoRecord
        BY <2>n, <2>1 DEF Over
      <3> QED
        BY <2>1, <3>1, RecordsStep, ThereStep
    <2>2. ASSUME Waits(c), ~MarkWithdrawn, c \in there', rec'[c].status = "withdrawn" PROVE rec'[c].vendor = "delete_queued"
      <3>1. CASE Over(c)
        BY <2>1, <2>2, <3>1, RecordsStep DEF Waits
      <3>2. CASE ~Over(c)
        BY <2>2, <3>2, RecordsStep
      <3> QED
        BY <3>1, <3>2
    <2> QED
      BY <2>1, <2>2
  <1> QED
    BY <1>1, GuardAlways, PartsAlways, PTL DEF Spec
==============================================================================
