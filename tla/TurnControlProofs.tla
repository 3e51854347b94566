--------------------------- MODULE TurnControlProofs ---------------------------
(***************************************************************************)
(* Proofs about TurnControl for any runs and bounds: its types; that the   *)
(* row of the video implements OneEdit; that, however the routes that are  *)
(* clicked cross, a stopped turn leaves nothing; and, where nobody clicks  *)
(* Resume, that a run works under its lock, that a pause adds nothing, and *)
(* that what landed stays, but for a Stop whose lock was lost before it    *)
(* put the edit set back.                                                  *)
(***************************************************************************)
EXTENDS TurnControl, TLAPS

Outs == {"none", "done", "gate", "error", "stopped"}
Runs == [pc : Places, turn : Run, ticket : Key, snap : SUBSET Run, calls : 0..MaxCalls, out : Outs, halted : BOOLEAN,
         seen : View]

LockType == lock \in Row \cup {Ready} /\ edits \in SUBSET Run
RunType == run \in [Run -> Runs]
ServerType == stops \in SUBSET Run /\ asked \in SUBSET Run /\ holding \in SUBSET Run
ViewType == view \in View /\ paused \in {"none", "ahead", "past"}
\* A resume that looks into a pause has its row.
ClickType == /\ stopper \in Click /\ pauser \in Click /\ resumer \in Click /\ watcher \in Click
             /\ resumer.pc \in {"looked", "restart"} => resumer.lock \in Row
MachineType == up \in BOOLEAN /\ faults \in 0..MaxFaults
TypesOK == LockType /\ RunType /\ ServerType /\ ViewType /\ ClickType /\ MachineType

LEMMA TypesEnough == TypesOK => TypeOK
  BY DEF TypesOK, TypeOK, LockType, RunType, ServerType, ViewType, ClickType, MachineType, Runs, Outs

LEMMA NoViewType == NoView \in View /\ NoView.turn \in Run /\ Idle \in Click /\ Idle.pc = "idle"
  <1>1. NoView.turn \in Run
    BY ControlAssumption DEF NoView
  <1>2. NoView \in View
    BY <1>1 DEF NoView, View
  <1> QED
    BY <1>1, <1>2 DEF Idle, Click

LEMMA PlacesAre ==
    /\ Places = {"new", "over", "lost", "taken", "made", "handed", "cleared", "shown", "point", "check", "step", "told",
                 "hold", "holding", "held", "leave", "back", "unhold", "outcome", "final", "close", "shut", "letgo"}
    /\ Starting = {"taken", "made", "handed", "cleared", "shown"} /\ Looping = {"point", "check", "step", "told"}
    /\ Pausing = {"hold", "holding", "held", "leave", "back", "unhold"}
  BY DEF Places, Starting, Looping, Pausing, Ending

LEMMA ByKey == ASSUME NEW kind \in {"req", "turn", "pause", "gate"}, NEW r \in Run
               PROVE  By(kind, r) \in Key /\ By(kind, r).kind = kind /\ By(kind, r).id = r
  BY DEF By, Key

LEMMA FreshType ==
    ASSUME NEW r \in Run
    PROVE  /\ Fresh(r) \in Runs /\ Fresh(r).pc = "new" /\ Fresh(r).turn = r /\ Fresh(r).ticket = By("req", r)
           /\ Fresh(r).snap = {} /\ Fresh(r).out = "none"
  <1>1. MaxCalls \in 0..MaxCalls
    BY ControlAssumption
  <1> QED
    BY <1>1, ByKey, NoViewType, PlacesAre DEF Fresh, Runs, Outs

\* A run that is over or lost.
LEMMA ClosedType ==
    ASSUME RunType, NEW r \in Run, NEW pc \in {"over", "lost"}, NEW out \in Outs
    PROVE  /\ Closed(r, pc, out) \in Runs /\ Closed(r, pc, out).pc = pc /\ Closed(r, pc, out).turn = run[r].turn
           /\ Closed(r, pc, out).snap = {} /\ Closed(r, pc, out).out = out
           /\ Closed(r, pc, out).ticket = By("req", r)
  <1>1. run[r].turn \in Run
    BY DEF RunType, Runs
  <1>2. 0 \in 0..MaxCalls
    BY ControlAssumption
  <1>3. pc \in Places
    BY PlacesAre
  <1> DEFINE y == Closed(r, pc, out)
             x == Fresh(r)
             t == run[r].turn
  <1>5. y = [x EXCEPT !.pc = pc, !.turn = t, !.out = out, !.calls = 0]
    BY DEF Closed
  <1>6. x \in Runs /\ x.ticket = By("req", r) /\ x.snap = {}
    BY FreshType
  <1>7. y \in Runs /\ y.pc = pc /\ y.turn = t /\ y.out = out /\ y.snap = {} /\ y.ticket = By("req", r)
    <2>1. t \in Run
      BY <1>1
    <2> HIDE DEF x, y, t
    <2> QED
      BY <1>2, <1>3, <1>5, <1>6, <2>1 DEF Runs
  <1> QED
    BY <1>7

\* One run moves on.
LEMMA RunTo ==
    ASSUME RunType, NEW r \in Run, NEW x \in Runs, run' = [run EXCEPT ![r] = x]
    PROVE  RunType' /\ run'[r] = x /\ \A m \in Run \ {r} : run'[m] = run[m]
  BY DEF RunType

LEMMA RunGo ==
    ASSUME RunType, NEW r \in Run, NEW pc \in Places, Go(r, pc)
    PROVE  /\ RunType' /\ \A m \in Run \ {r} : run'[m] = run[m]
           /\ run'[r].pc = pc /\ run'[r].turn = run[r].turn /\ run'[r].ticket = run[r].ticket
           /\ run'[r].snap = run[r].snap /\ run'[r].out = run[r].out
  <1>1. run[r] \in Runs
    BY DEF RunType
  <1>2. [run[r] EXCEPT !.pc = pc] \in Runs /\ run' = [run EXCEPT ![r] = [run[r] EXCEPT !.pc = pc]]
    BY <1>1 DEF Go, Runs
  <1>3. LET x == [run[r] EXCEPT !.pc = pc]
        IN  /\ x.pc = pc /\ x.turn = run[r].turn /\ x.ticket = run[r].ticket /\ x.snap = run[r].snap
            /\ x.out = run[r].out
    BY <1>1 DEF Runs
  <1> QED
    BY <1>2, <1>3, RunTo

\* What is looked at: rows, and views.
LEMMA RowType == ASSUME LockType, NEW old \in Key, NEW new \in Key PROVE Hand(old, new) \in Row \cup {Ready}
  BY DEF LockType, Hand, Held, Row

LEMMA SeenType == ASSUME ViewType PROVE SeenView \in View /\ SeenView.turn \in Run
  BY DEF ViewType, SeenView, View

LEMMA HandIs ==
    ASSUME LockType, NEW old, NEW new \in Key, Held(old)
    PROVE  /\ Hand(old, new) \in Row /\ Hand(old, new) # Ready /\ Hand(old, new).key = new
           /\ Hand(old, new).shot = lock.shot
  <1>1. lock \in Row
    BY DEF LockType, Held
  <1> QED
    BY <1>1, ReadyAssumption DEF Hand, Row

LEMMA InitTypes == Init => TypesOK
  <1> SUFFICES ASSUME Init PROVE TypesOK
    OBVIOUS
  <1>1. LockType /\ ServerType /\ MachineType
    BY ControlAssumption DEF Init, LockType, ServerType, MachineType
  <1>2. RunType
    BY FreshType DEF Init, RunType
  <1>3. ViewType /\ ClickType
    BY NoViewType DEF Init, ViewType, ClickType
  <1> QED
    BY <1>1, <1>2, <1>3 DEF TypesOK

\* A run steps: every other stays as it is, and so do the routes and the machine, faults apart.
LEMMA RunStepTypes ==
    ASSUME TypesOK, NEW r \in Run, RunStep(r)
    PROVE  /\ RunType' /\ \A m \in Run \ {r} : run'[m] = run[m]
           /\ MayStep(r) /\ UNCHANGED clicks /\ UNCHANGED up /\ faults' \in 0..MaxFaults
  <1>t. RunType /\ run[r] \in Runs /\ ViewType /\ MachineType /\ LockType
    BY DEF TypesOK, RunType
  <1>f. faults' = faults \/ Raises => faults' \in 0..MaxFaults
    BY <1>t, ControlAssumption DEF MachineType, Raises
  <1>u. faults' = faults => faults' \in 0..MaxFaults
    BY <1>t DEF MachineType
  <1>p. {"taken", "made", "handed", "cleared", "shown", "point", "check", "step", "told", "hold", "holding", "held",
         "leave", "back", "unhold", "outcome", "final", "close", "shut", "letgo"} \subseteq Places
    BY PlacesAre
  <1>1. CASE TakeVideo(r) \/ ForgetClicks(r) \/ ShowRunning(r) \/ Point(r)
    BY <1>1, <1>t, <1>u, <1>p, RunGo DEF TakeVideo, ForgetClicks, ShowRunning, Point, machine
  <1>2. CASE MakeJob(r)
    <2>1. "none" \in Outs
      BY DEF Outs
    <2>2. Go(r, "made") \/ run' = [run EXCEPT ![r] = Closed(r, "over", "none")]
      BY <1>2 DEF MakeJob
    <2>3. RunType' /\ \A m \in Run \ {r} : run'[m] = run[m]
      BY <1>t, <1>p, <2>1, <2>2, RunGo, RunTo, ClosedType
    <2> QED
      BY <1>2, <1>u, <2>3 DEF MakeJob, machine
  <1>3. CASE HandTurn(r)
    <2> DEFINE shot == IF run[r].ticket.kind = "pause" THEN run[r].snap ELSE edits
    <2>1. shot \in SUBSET Run
      BY <1>t DEF Runs, LockType
    <2>2. [run[r] EXCEPT !.pc = "handed", !.snap = shot] \in Runs
      BY <1>t, <1>p, <2>1 DEF Runs
    <2>3. run' = [run EXCEPT ![r] = [run[r] EXCEPT !.pc = "handed", !.snap = shot]]
      BY <1>3 DEF HandTurn
    <2> QED
      BY <1>3, <1>t, <1>u, <2>2, <2>3, RunTo DEF HandTurn, machine
  <1>4. CASE Submit(r)
    <2>1. "error" \in Outs
      BY DEF Outs
    <2>2. Go(r, "point") \/ run' = [run EXCEPT ![r] = Closed(r, "over", "error")]
      BY <1>4 DEF Submit
    <2>3. RunType' /\ \A m \in Run \ {r} : run'[m] = run[m]
      BY <1>t, <1>p, <2>1, <2>2, RunGo, RunTo, ClosedType
    <2> QED
      BY <1>4, <1>f, <2>3 DEF Submit
  <1>5. CASE Check(r)
    <2>1. [run[r] EXCEPT !.pc = "outcome", !.out = "stopped"] \in Runs
      BY <1>t, <1>p DEF Runs, Outs
    <2>2. run' = [run EXCEPT ![r] = [run[r] EXCEPT !.pc = "outcome", !.out = "stopped"]] \/ Go(r, "step")
      BY <1>5 DEF Check
    <2> QED
      BY <1>5, <1>t, <1>u, <1>p, <2>1, <2>2, RunTo, RunGo DEF Check, machine
  <1>6. CASE Step(r)
    <2>1. run[r].calls > 0 => run[r].calls - 1 \in 0..MaxCalls
      BY <1>t, ControlAssumption DEF Runs
    <2>2. run[r].calls > 0 => [run[r] EXCEPT !.pc = "told", !.calls = @ - 1, !.seen = view] \in Runs
      BY <1>t, <1>p, <2>1 DEF Runs, ViewType
    <2>3. \A out \in {"done", "gate", "error"} :
            [run[r] EXCEPT !.out = out, !.pc = IF out = "error" THEN "final" ELSE "outcome"] \in Runs
      BY <1>t, <1>p DEF Runs, Outs
    <2>4. \/ /\ run[r].calls > 0
             /\ run' = [run EXCEPT ![r] = [run[r] EXCEPT !.pc = "told", !.calls = @ - 1, !.seen = view]]
          \/ \E out \in {"done", "gate", "error"} :
                run' = [run EXCEPT ![r] = [run[r] EXCEPT !.out = out, !.pc = IF out = "error" THEN "final" ELSE "outcome"]]
      BY <1>6 DEF Step
    <2>5. RunType' /\ \A m \in Run \ {r} : run'[m] = run[m]
      BY <1>t, <2>2, <2>3, <2>4, RunTo
    <2> QED
      BY <1>6, <1>u, <2>5 DEF Step, machine
  <1>7. CASE Told(r)
    <2>1. [run[r] EXCEPT !.pc = "point", !.seen = NoView] \in Runs
      BY <1>t, <1>p, NoViewType DEF Runs
    <2>2. run' = [run EXCEPT ![r] = [run[r] EXCEPT !.pc = "point", !.seen = NoView]]
      BY <1>7 DEF Told
    <2> QED
      BY <1>7, <1>t, <1>u, <2>1, <2>2, RunTo DEF Told, machine
  <1>8. CASE Hold(r) \/ ShowPaused(r) \/ TakeBack(r) \/ ShowBack(r)
    BY <1>8, <1>t, <1>u, <1>p, RunGo DEF Hold, ShowPaused, TakeBack, ShowBack, machine
  <1>9. CASE HoldEnds(r)
    <2>1. \A b \in BOOLEAN : [run[r] EXCEPT !.pc = "leave", !.halted = b] \in Runs
      BY <1>t, <1>p DEF Runs
    <2>2. PICK b \in BOOLEAN : run' = [run EXCEPT ![r] = [run[r] EXCEPT !.pc = "leave", !.halted = b]]
      BY <1>9 DEF HoldEnds
    <2> QED
      BY <1>9, <1>t, <1>u, <2>1, <2>2, RunTo DEF HoldEnds, machine
  <1>10. CASE Unhold(r)
    <2>1. [run[r] EXCEPT !.pc = "check", !.halted = FALSE] \in Runs
      BY <1>t, <1>p DEF Runs
    <2>2. run' = [run EXCEPT ![r] = [run[r] EXCEPT !.pc = "check", !.halted = FALSE]]
      BY <1>10 DEF Unhold
    <2> QED
      BY <1>10, <1>t, <1>u, <2>1, <2>2, RunTo DEF Unhold, machine
  <1>11. CASE Outcome(r)
    <2>1. [run[r] EXCEPT !.pc = "final", !.out = "stopped"] \in Runs
      BY <1>t, <1>p DEF Runs, Outs
    <2>2. run' = [run EXCEPT ![r] = [run[r] EXCEPT !.pc = "final", !.out = "stopped"]] \/ Go(r, "final")
      BY <1>11 DEF Outcome
    <2> QED
      BY <1>11, <1>t, <1>u, <1>p, <2>1, <2>2, RunTo, RunGo DEF Outcome, machine
  <1>12. CASE Final(r)
    <2>1. \A b \in BOOLEAN, out \in Outs : [run[r] EXCEPT !.pc = "close", !.halted = b, !.out = out] \in Runs
      BY <1>t, <1>p DEF Runs
    <2>2. PICK b \in BOOLEAN, out \in Outs :
            run' = [run EXCEPT ![r] = [run[r] EXCEPT !.pc = "close", !.halted = b, !.out = out]]
      <3>1. run[r].out \in Outs /\ "stopped" \in Outs
        BY <1>t DEF Runs, Outs
      <3>2. run' = [run EXCEPT ![r] = [run[r] EXCEPT !.pc = "close", !.halted = run[r].turn \in stops,
                                                     !.out = IF run[r].turn \in stops THEN "stopped" ELSE @]]
        BY <1>12 DEF Final
      <3> DEFINE b == run[r].turn \in stops
                 out == IF b THEN "stopped" ELSE run[r].out
      <3>3. b \in BOOLEAN /\ out \in Outs
        BY <3>1
      <3>4. run' = [run EXCEPT ![r] = [run[r] EXCEPT !.pc = "close", !.halted = b, !.out = out]]
        BY <3>2
      <3> HIDE DEF b, out
      <3> QED
        BY <3>3, <3>4
    <2> QED
      BY <1>12, <1>t, <1>u, <2>1, <2>2, RunTo DEF Final, machine
  <1>13. CASE Close(r) \/ ShowEnd(r)
    BY <1>13, <1>t, <1>u, <1>p, RunGo DEF Close, ShowEnd, machine
  <1>14. CASE LetGo(r)
    <2>1. run[r].out \in Outs
      BY <1>t DEF Runs
    <2> QED
      BY <1>14, <1>t, <1>u, <2>1, RunTo, ClosedType DEF LetGo, machine
  <1>15. CASE Fail(r)
    <2> DEFINE out == IF run[r].out = "stopped" THEN "stopped" ELSE "error"
    <2>1. out \in Outs /\ run' = [run EXCEPT ![r] = Closed(r, "over", out)]
      BY <1>15 DEF Fail, Outs
    <2>2. RunType' /\ \A m \in Run \ {r} : run'[m] = run[m]
      <3> HIDE DEF out
      <3> QED
        BY <1>t, <2>1, RunTo, ClosedType
    <2>3. MayStep(r) /\ UNCHANGED clicks /\ UNCHANGED up /\ Raises
      BY <1>15 DEF Fail
    <2> QED
      BY <1>f, <2>2, <2>3
  <1>16. CASE HoldFails(r)
    <2>1. [run[r] EXCEPT !.pc = "final", !.out = "error"] \in Runs
      BY <1>t, <1>p DEF Runs, Outs
    <2>2. run' = [run EXCEPT ![r] = [run[r] EXCEPT !.pc = "final", !.out = "error"]]
      BY <1>16 DEF HoldFails
    <2> QED
      BY <1>16, <1>t, <1>f, <2>1, <2>2, RunTo DEF HoldFails
  <1> QED
    BY <1>1, <1>2, <1>3, <1>4, <1>5, <1>6, <1>7, <1>8, <1>9, <1>10, <1>11, <1>12, <1>13, <1>14, <1>15, <1>16 DEF RunStep

\* The rest of what a run's step writes.
LEMMA RunStepRest ==
    ASSUME TypesOK, NEW r \in Run, RunStep(r)
    PROVE  LockType' /\ ServerType' /\ ViewType'
  <1>t. run[r] \in Runs /\ ViewType /\ LockType /\ ServerType
    BY DEF TypesOK, RunType
  <1>r. run[r].turn \in Run /\ run[r].snap \in SUBSET Run
    BY <1>t DEF Runs
  <1>k. /\ \A kind \in {"req", "turn", "pause", "gate"} : By(kind, r) \in Key /\ By(kind, run[r].turn) \in Key
        /\ \A key \in Key, shot \in SUBSET Run : [key |-> key, shot |-> shot] \in Row
    BY <1>r, ByKey DEF Row
  <1>1. LockType'
    <2>1. \A key : Release(key) \in Row \cup {Ready}
      BY <1>t DEF LockType, Release
    <2>2. \A shot : Restore(shot) \in SUBSET Run
      BY <1>t DEF LockType, Restore
    <2>3. CASE TakeVideo(r) \/ MakeJob(r) \/ Submit(r) \/ Fail(r)
      BY <1>t, <1>k, <2>1, <2>3 DEF TakeVideo, MakeJob, Submit, Fail, LockType
    <2>4. CASE HandTurn(r)
      <3>1. edits \in SUBSET Run
        BY <1>t DEF LockType
      <3> QED
        BY <1>t, <1>r, <1>k, <2>4, <3>1 DEF HandTurn, LockType
    <2>5. CASE Hold(r) \/ TakeBack(r) \/ LetGo(r)
      BY <1>t, <1>k, <2>1, <2>5, RowType DEF Hold, TakeBack, LetGo, LockType
    <2>6. CASE Step(r) \/ Outcome(r) \/ Final(r)
      BY <1>t, <2>2, <2>6 DEF Step, Outcome, Final, LockType
    <2>7. CASE ForgetClicks(r) \/ ShowRunning(r) \/ Point(r) \/ Check(r) \/ Told(r) \/ ShowPaused(r) \/ HoldEnds(r)
                 \/ ShowBack(r) \/ Unhold(r) \/ Close(r) \/ ShowEnd(r) \/ HoldFails(r)
      BY <1>t, <2>7 DEF ForgetClicks, ShowRunning, Point, Check, Told, ShowPaused, HoldEnds, ShowBack, Unhold, Close,
         ShowEnd, HoldFails, LockType
    <2> QED
      BY <2>3, <2>4, <2>5, <2>6, <2>7 DEF RunStep
  <1>2. ServerType'
    <2>1. CASE UNCHANGED server
      BY <1>t, <2>1 DEF server, ServerType
    <2>2. CASE ForgetClicks(r) \/ Point(r) \/ Hold(r) \/ HoldEnds(r) \/ Unhold(r) \/ Close(r) \/ Fail(r) \/ HoldFails(r)
      BY <1>t, <1>r, <2>2 DEF ForgetClicks, Point, Hold, HoldEnds, Unhold, Close, Fail, HoldFails, ServerType
    <2>3. CASE TakeVideo(r) \/ MakeJob(r) \/ HandTurn(r) \/ ShowRunning(r) \/ Submit(r) \/ Check(r) \/ Step(r) \/ Told(r)
                 \/ ShowPaused(r) \/ TakeBack(r) \/ ShowBack(r) \/ Outcome(r) \/ Final(r) \/ ShowEnd(r) \/ LetGo(r)
      BY <2>1, <2>3 DEF TakeVideo, MakeJob, HandTurn, ShowRunning, Submit, Check, Step, Told, ShowPaused, TakeBack,
         ShowBack, Outcome, Final, ShowEnd, LetGo
    <2> QED
      BY <2>2, <2>3 DEF RunStep
  <1>3. ViewType'
    <2>1. \A status \in {"running", "stopping", "paused", "done", "failed"}, b \in BOOLEAN :
            /\ [view EXCEPT !.status = status] \in View /\ [view EXCEPT !.status = status, !.pausing = b] \in View
            /\ [turn |-> run[r].turn, status |-> status, pausing |-> b] \in View
      BY <1>t, <1>r DEF ViewType, View
    <2>2. run[r].seen \in View
      BY <1>t DEF Runs
    <2>3. CASE ShowRunning(r) \/ Told(r) \/ ShowPaused(r) \/ ShowBack(r) \/ ShowEnd(r) \/ Fail(r)
      BY <1>t, <2>1, <2>2, <2>3 DEF ShowRunning, Told, ShowPaused, ShowBack, ShowEnd, Fail, ViewType
    <2>4. CASE TakeVideo(r) \/ MakeJob(r) \/ HandTurn(r) \/ ForgetClicks(r) \/ Submit(r) \/ Point(r) \/ Check(r) \/ Step(r)
      BY <1>t, <2>4 DEF TakeVideo, MakeJob, HandTurn, ForgetClicks, Submit, Point, Check, Step, ViewType
    <2>5. CASE Hold(r) \/ HoldEnds(r) \/ TakeBack(r) \/ Unhold(r) \/ Outcome(r) \/ Final(r) \/ Close(r) \/ LetGo(r)
                 \/ HoldFails(r)
      BY <1>t, <2>5 DEF Hold, HoldEnds, TakeBack, Unhold, Outcome, Final, Close, LetGo, HoldFails, ViewType
    <2> QED
      BY <2>3, <2>4, <2>5 DEF RunStep
  <1> QED
    BY <1>1, <1>2, <1>3

LEMMA ClickHas == ASSUME NEW c \in Click PROVE c.lock \in Row \cup {Ready} /\ c.view \in View /\ c.view.turn \in Run
  BY DEF Click, View

LEMMA ClickTo ==
    ASSUME NEW c \in Click, NEW pc \in {"put", "drop", "video", "mark", "answer", "restart"}
    PROVE  [c EXCEPT !.pc = pc] \in Click /\ [c EXCEPT !.pc = pc].pc = pc /\ [c EXCEPT !.pc = pc].lock = c.lock
  BY DEF Click

LEMMA ClickSees ==
    ASSUME NEW c \in Click, NEW pc \in {"mark", "answer"}, NEW v \in View
    PROVE  [c EXCEPT !.pc = pc, !.view = v] \in Click
  BY DEF Click

LEMMA ViewTo ==
    ASSUME NEW v \in View, NEW b \in BOOLEAN
    PROVE  [v EXCEPT !.pausing = b] \in View /\ [v EXCEPT !.status = "stopping", !.pausing = b] \in View
  BY DEF View

LEMMA NewClick ==
    /\ \A l \in Row \cup {Ready} : LET c == [Idle EXCEPT !.pc = "looked", !.lock = l]
                                   IN  c \in Click /\ c.pc = "looked" /\ c.lock = l
    /\ \A v \in View, pc \in {"ask", "mark"} : LET c == [Idle EXCEPT !.pc = pc, !.view = v] IN c \in Click /\ c.pc = pc
  BY NoViewType DEF Idle, Click

LEMMA PutBackTypes ==
    ASSUME LockType, ViewType, NEW l, PutBack(l)
    PROVE  edits' \in SUBSET Run /\ edits' \subseteq edits /\ edits' = edits \cap l.shot /\ ViewType'
  BY DEF PutBack, Restore, LockType, ViewType, View

\* The routes and the watcher.
LEMMA RouteTypes ==
    ASSUME TypesOK, StopClick \/ PauseClick \/ ResumeClick \/ WatchRead \/ RouteStep
    PROVE  TypesOK'
  <1>t. LockType /\ RunType /\ ServerType /\ ViewType /\ ClickType /\ MachineType
    BY DEF TypesOK
  <1>c. stopper \in Click /\ pauser \in Click /\ resumer \in Click /\ watcher \in Click
    BY <1>t DEF ClickType
  <1>l. lock \in Row \cup {Ready} /\ view \in View /\ Idle \in Click /\ Idle.pc = "idle"
    BY <1>t, NoViewType DEF LockType, ViewType
  <1>s. SeenView \in View /\ SeenView.turn \in Run
    BY <1>t, SeenType
  <1>e. \A key : Release(key) \in Row \cup {Ready}
    BY <1>t DEF LockType, Release
  <1>1. CASE StopClick
    <2>1. stopper' \in Click
      BY <1>1, <1>l, NewClick DEF StopClick
    <2> QED
      BY <1>1, <1>t, <2>1 DEF StopClick, TypesOK, LockType, RunType, ServerType, ViewType, ClickType, MachineType, server,
         machine
  <1>2. CASE StopLook
    <2>1. stopper' \in Click
      BY <1>2, <1>c, ClickTo DEF StopLook
    <2> QED
      BY <1>2, <1>t, <2>1 DEF StopLook, TypesOK, LockType, RunType, ServerType, ViewType, ClickType, MachineType, server,
         machine
  <1>3. CASE StopPut
    <2>1. stopper' \in Click
      BY <1>3, <1>c, ClickTo DEF StopPut
    <2>2. edits' \in SUBSET Run /\ ViewType'
      BY <1>3, <1>t, PutBackTypes DEF StopPut
    <2> QED
      BY <1>3, <1>t, <2>1, <2>2 DEF StopPut, TypesOK, LockType, RunType, ServerType, ClickType, MachineType, server,
         machine
  <1>4. CASE StopDrop
    <2>1. stopper' \in Click
      BY <1>4, <1>c, ClickTo DEF StopDrop
    <2> QED
      BY <1>4, <1>t, <1>e, <2>1 DEF StopDrop, TypesOK, LockType, RunType, ServerType, ViewType, ClickType, MachineType,
         server, machine
  <1>5. CASE StopVideo
    <2>1. stopper' \in Click
      <3>1. \/ stopper' = [stopper EXCEPT !.pc = "answer"]
            \/ \E pc \in {"mark", "answer"} : stopper' = [stopper EXCEPT !.pc = pc, !.view = SeenView]
        BY <1>5 DEF StopVideo
      <3>2. CASE stopper' = [stopper EXCEPT !.pc = "answer"]
        BY <1>c, <3>2, ClickTo
      <3>3. ASSUME NEW pc \in {"mark", "answer"}, stopper' = [stopper EXCEPT !.pc = pc, !.view = SeenView]
            PROVE  stopper' \in Click
        <4>1. [stopper EXCEPT !.pc = pc, !.view = SeenView] \in Click
          BY <1>c, <1>s, ClickSees
        <4> QED
          BY <3>3, <4>1
      <3> QED
        BY <3>1, <3>2, <3>3
    <2>2. stops' \in SUBSET Run /\ view' \in View
      BY <1>5, <1>t, <1>s DEF StopVideo, ServerType
    <2> QED
      BY <1>5, <1>t, <2>1, <2>2 DEF StopVideo, TypesOK, LockType, RunType, ServerType, ViewType, ClickType, MachineType,
         machine
  <1>6. CASE StopMark
    <2>1. stopper' \in Click
      BY <1>6, <1>c, ClickTo DEF StopMark
    <2>2. view' \in View
      BY <1>6, <1>c, ClickHas, ViewTo DEF StopMark
    <2> QED
      BY <1>6, <1>t, <2>1, <2>2 DEF StopMark, TypesOK, LockType, RunType, ServerType, ViewType, ClickType, MachineType,
         server, machine
  <1>7. CASE StopAnswer
    BY <1>7, <1>t, <1>e, <1>l DEF StopAnswer, TypesOK, LockType, RunType, ServerType, ViewType, ClickType, MachineType,
       server, machine
  <1>8. CASE PauseClick
    <2>1. pauser' \in Click /\ view' \in View
      BY <1>8, <1>s, NewClick DEF PauseClick
    <2> QED
      BY <1>8, <1>t, <2>1 DEF PauseClick, TypesOK, LockType, RunType, ServerType, ViewType, ClickType, MachineType, server,
         machine
  <1>9. CASE PauseAsk
    <2>1. pauser' \in Click
      BY <1>9, <1>c, <1>l, ClickSees DEF PauseAsk
    <2>2. asked' \in SUBSET Run
      <3>1. pauser.view.turn \in Run
        BY <1>c, ClickHas
      <3> QED
        BY <1>9, <1>t, <3>1 DEF PauseAsk, ServerType
    <2> QED
      BY <1>9, <1>t, <2>1, <2>2 DEF PauseAsk, TypesOK, LockType, RunType, ServerType, ViewType, ClickType, MachineType,
         machine
  <1>10. CASE PauseMark
    <2>1. view' \in View
      BY <1>10, <1>c, ClickHas, ViewTo DEF PauseMark
    <2> QED
      BY <1>10, <1>t, <1>l, <2>1 DEF PauseMark, TypesOK, LockType, RunType, ServerType, ViewType, ClickType, MachineType,
         server, machine
  <1>11. CASE ResumeClick
    <2>1. resumer' \in Click /\ (resumer'.pc \in {"looked", "restart"} => resumer'.lock \in Row)
      <3>1. CASE PausedRow(lock) /\ resumer' = [Idle EXCEPT !.pc = "looked", !.lock = lock]
        BY <1>l, <3>1, NewClick DEF PausedRow
      <3>2. CASE resumer' = [Idle EXCEPT !.pc = "mark", !.view = view']
        BY <1>11, <1>s, <3>2, NewClick DEF ResumeClick
      <3> QED
        BY <1>11, <3>1, <3>2 DEF ResumeClick
    <2>2. asked' \in SUBSET Run /\ view' \in View
      BY <1>11, <1>t, <1>s DEF ResumeClick, ServerType
    <2> QED
      BY <1>11, <1>t, <2>1, <2>2 DEF ResumeClick, TypesOK, LockType, RunType, ServerType, ViewType, ClickType,
         MachineType, machine
  <1>12. CASE ResumeMark
    <2>1. view' \in View
      BY <1>12, <1>c, ClickHas, ViewTo DEF ResumeMark
    <2> QED
      BY <1>12, <1>t, <1>l, <2>1 DEF ResumeMark, TypesOK, LockType, RunType, ServerType, ViewType, ClickType, MachineType,
         server, machine
  <1>13. CASE ResumeLook
    <2>1. resumer' \in Click /\ (resumer'.pc \in {"looked", "restart"} => resumer'.lock \in Row)
      <3>1. resumer.lock \in Row
        BY <1>13, <1>t DEF ResumeLook, At, Route, ClickType
      <3>2. resumer' = Idle \/ resumer' = [resumer EXCEPT !.pc = "restart"]
        BY <1>13 DEF ResumeLook
      <3>3. Idle.pc = "idle"
        BY <1>l
      <3>4. CASE resumer' = Idle
        BY <1>l, <3>3, <3>4
      <3>5. CASE resumer' = [resumer EXCEPT !.pc = "restart"]
        <4>1. [resumer EXCEPT !.pc = "restart"] \in Click /\ [resumer EXCEPT !.pc = "restart"].lock = resumer.lock
          BY <1>c, ClickTo
        <4> QED
          BY <3>1, <3>5, <4>1
      <3> QED
        BY <3>2, <3>4, <3>5
    <2>2. asked' \in SUBSET Run /\ paused' \in {"none", "ahead", "past"}
      BY <1>13, <1>t DEF ResumeLook, ServerType, ViewType
    <2> QED
      BY <1>13, <1>t, <2>1, <2>2 DEF ResumeLook, TypesOK, LockType, RunType, ServerType, ViewType, ClickType, MachineType,
         machine
  <1>14. CASE ResumeStart
    <2>1. resumer.lock \in Row
      BY <1>14, <1>t DEF ResumeStart, At, Route, ClickType
    <2>2. ASSUME NEW r \in Run
          PROVE  [Fresh(r) EXCEPT !.pc = "made", !.turn = resumer.lock.key.id, !.ticket = resumer.lock.key,
                                  !.snap = resumer.lock.shot] \in Runs
      <3>1. resumer.lock.key.id \in Run /\ resumer.lock.key \in Key /\ resumer.lock.shot \in SUBSET Run
        BY <2>1 DEF Row, Key
      <3>2. Fresh(r) \in Runs /\ "made" \in Places
        BY FreshType, PlacesAre
      <3> DEFINE x == Fresh(r)
      <3> HIDE DEF x
      <3>3. [x EXCEPT !.pc = "made", !.turn = resumer.lock.key.id, !.ticket = resumer.lock.key,
                      !.snap = resumer.lock.shot] \in Runs
        BY <3>1, <3>2 DEF Runs, x
      <3> QED
        BY <3>3 DEF x
    <2>3. RunType'
      BY <1>14, <1>t, <2>2, RunTo DEF ResumeStart, RunType
    <2> QED
      BY <1>14, <1>t, <1>e, <1>l, <2>3 DEF ResumeStart, TypesOK, LockType, ServerType, ViewType, ClickType, MachineType,
         server, machine
  <1>15. CASE WatchRead
    <2>1. watcher' \in Click
      BY <1>15, <1>l, NewClick DEF WatchRead
    <2> QED
      BY <1>15, <1>t, <2>1 DEF WatchRead, TypesOK, LockType, RunType, ServerType, ViewType, ClickType, MachineType, server,
         machine
  <1>16. CASE WatchLook
    <2>1. watcher' \in Click
      BY <1>16, <1>c, <1>l, ClickTo DEF WatchLook
    <2> QED
      BY <1>16, <1>t, <2>1 DEF WatchLook, TypesOK, LockType, RunType, ServerType, ViewType, ClickType, MachineType, server,
         machine
  <1>17. CASE WatchPut
    <2>1. watcher' \in Click
      BY <1>17, <1>c, ClickTo DEF WatchPut
    <2>2. edits' \in SUBSET Run /\ ViewType'
      BY <1>17, <1>t, PutBackTypes DEF WatchPut
    <2> QED
      BY <1>17, <1>t, <2>1, <2>2 DEF WatchPut, TypesOK, LockType, RunType, ServerType, ClickType, MachineType, server,
         machine
  <1>18. CASE WatchDrop
    BY <1>18, <1>t, <1>e, <1>l DEF WatchDrop, TypesOK, LockType, RunType, ServerType, ViewType, ClickType, MachineType,
       server, machine
  <1> QED
    BY <1>1, <1>2, <1>3, <1>4, <1>5, <1>6, <1>7, <1>8, <1>9, <1>10, <1>11, <1>12, <1>13, <1>14, <1>15, <1>16, <1>17,
       <1>18 DEF RouteStep

LEMMA ServerTypes ==
    ASSUME TypesOK, LookAtView \/ Deadline \/ Crash \/ Restart \/ UNCHANGED vars
    PROVE  TypesOK'
  <1>t. LockType /\ RunType /\ ServerType /\ ViewType /\ ClickType /\ MachineType
    BY DEF TypesOK
  <1>1. CASE LookAtView
    <2>1. view' \in View
      BY <1>1, <1>t, SeenType DEF LookAtView
    <2> QED
      BY <1>1, <1>t, <2>1 DEF LookAtView, TypesOK, LockType, RunType, ServerType, ViewType, ClickType, MachineType, server,
         clicks, machine
  <1>2. CASE Deadline
    BY <1>2, <1>t DEF Deadline, TypesOK, LockType, RunType, ServerType, ViewType, ClickType, MachineType, server, clicks,
       machine
  <1>3. CASE Crash
    <2>1. RunType'
      <3>1. \A r \in Run : (IF run[r].pc \in {"new", "over"} THEN run[r] ELSE Closed(r, "lost", "none")) \in Runs
        BY <1>t, ClosedType DEF RunType, Outs
      <3> QED
        BY <1>3, <3>1 DEF Crash, RunType
    <2>2. faults' \in 0..MaxFaults /\ up' \in BOOLEAN
      <3>1. faults \in 0..MaxFaults /\ MaxFaults \in Nat
        BY <1>t, ControlAssumption DEF MachineType
      <3>2. faults < MaxFaults /\ faults' = faults + 1
        BY <1>3 DEF Crash
      <3>3. faults' \in 0..MaxFaults
        BY <3>1, <3>2
      <3> QED
        BY <1>3, <3>3 DEF Crash
    <2> QED
      BY <1>3, <1>t, <2>1, <2>2, NoViewType DEF Crash, TypesOK, LockType, ServerType, ViewType, ClickType, MachineType
  <1>4. CASE Restart
    BY <1>4, <1>t DEF Restart, TypesOK, LockType, RunType, ServerType, ViewType, ClickType, MachineType, server, clicks
  <1>5. CASE UNCHANGED vars
    BY <1>5, <1>t DEF vars, TypesOK, LockType, RunType, ServerType, ViewType, ClickType, MachineType, server, clicks,
       machine
  <1> QED
    BY <1>1, <1>2, <1>3, <1>4, <1>5

LEMMA TypesNext == TypesOK /\ [Next]_vars => TypesOK'
  <1> SUFFICES ASSUME TypesOK, [Next]_vars PROVE TypesOK'
    OBVIOUS
  <1>1. ASSUME NEW r \in Run, RunStep(r) PROVE TypesOK'
    <2>1. ClickType' /\ MachineType'
      BY <1>1, RunStepTypes DEF TypesOK, ClickType, MachineType, clicks
    <2> QED
      BY <1>1, <2>1, RunStepTypes, RunStepRest DEF TypesOK
  <1> QED
    BY <1>1, RouteTypes, ServerTypes DEF Next

LEMMA TypesAlways == Spec => []TypesOK
  BY InitTypes, TypesNext, PTL DEF Spec

\* Every variable of the video's row, its runs, its view and the routes has its type.
THEOREM TypeCorrect == Spec => []TypeOK
  BY TypesEnough, TypesAlways, PTL
------------------------------------------------------------------------------
(* The row implements OneEdit: what the keys and the tickets name. *)

OnTicket == {"taken", "made"}

\* A run starts on its request's key, or on that of the pause of the turn it carries on.
Ticketed(r) ==
    \/ run[r].ticket = By("req", r) /\ run[r].turn = r
    \/ run[r].ticket = By("pause", run[r].turn)

Names ==
    /\ \A r \in Run : run[r].pc = "new" => run[r] = Fresh(r)
    /\ \A r \in Run : run[r].pc \in OnTicket => Ticketed(r)
    /\ resumer.pc \in {"looked", "restart"} => PausedRow(resumer.lock)
    /\ lock # Ready /\ lock.key.kind = "turn" => run[lock.key.id].pc # "new"

\* A run stays the same turn's, and is new only before it starts.
LEMMA RunStepTurn ==
    ASSUME RunType, NEW r \in Run, RunStep(r)
    PROVE  /\ run'[r].turn = run[r].turn /\ run'[r].pc # "new"
           /\ run'[r].pc \in OnTicket => TakeVideo(r) \/ MakeJob(r)
  <1>t. run[r] \in Runs /\ run \in [Run -> Runs]
    BY DEF RunType
  <1>1. CASE \E pc \in Places \ {"new", "taken", "made"} : Go(r, pc)
    BY <1>1, RunGo DEF OnTicket
  <1>2. CASE \E out \in Outs : run' = [run EXCEPT ![r] = Closed(r, "over", out)]
    <2>1. PICK out \in Outs : run' = [run EXCEPT ![r] = Closed(r, "over", out)]
      BY <1>2
    <2>2. run'[r] = Closed(r, "over", out)
      BY <1>t, <2>1
    <2> QED
      BY <2>2, ClosedType DEF OnTicket
  <1>p. {"handed", "cleared", "shown", "point", "check", "step", "told", "hold", "holding", "held",
         "leave", "back", "unhold", "outcome", "final", "close", "shut", "letgo"} \subseteq Places \ {"new", "taken", "made"}
    BY PlacesAre
  <1>o. Outs = {"none", "done", "gate", "error", "stopped"} /\ run[r].out \in Outs
    BY <1>t DEF Outs, Runs
  <1>3. CASE TakeVideo(r)
    <2>1. Go(r, "taken") /\ "taken" \in Places
      BY <1>3, PlacesAre DEF TakeVideo
    <2> QED
      BY <1>3, <2>1, RunGo
  <1>4. CASE MakeJob(r)
    <2>1. CASE Go(r, "made")
      <3>1. "made" \in Places
        BY PlacesAre
      <3> QED
        BY <1>4, <2>1, <3>1, RunGo
    <2> QED
      BY <1>2, <1>4, <1>o, <2>1 DEF MakeJob
  <1>5. CASE HandTurn(r)
    <2> DEFINE shot == IF run[r].ticket.kind = "pause" THEN run[r].snap ELSE edits
               x == [run[r] EXCEPT !.pc = "handed", !.snap = shot]
    <2>1. run' = [run EXCEPT ![r] = x]
      BY <1>5 DEF HandTurn
    <2>2. x.turn = run[r].turn /\ x.pc = "handed"
      BY <1>t DEF Runs
    <2> HIDE DEF x
    <2>3. run'[r] = x
      BY <1>t, <2>1
    <2> QED
      BY <2>2, <2>3 DEF OnTicket
  <1>6. CASE ForgetClicks(r) \/ ShowRunning(r) \/ Point(r) \/ Hold(r) \/ ShowPaused(r) \/ TakeBack(r) \/ ShowBack(r)
             \/ Close(r) \/ ShowEnd(r)
    BY <1>1, <1>6, <1>p DEF ForgetClicks, ShowRunning, Point, Hold, ShowPaused, TakeBack, ShowBack, Close, ShowEnd
  <1>7. CASE Submit(r) \/ LetGo(r) \/ Fail(r)
    <2>1. (\E pc \in {"point"} : Go(r, pc)) \/ \E out \in Outs : run' = [run EXCEPT ![r] = Closed(r, "over", out)]
      BY <1>7, <1>o DEF Submit, LetGo, Fail
    <2> QED
      BY <1>1, <1>2, <1>p, <2>1
  <1>8. CASE Check(r) \/ Step(r) \/ Told(r) \/ HoldEnds(r) \/ Unhold(r) \/ Outcome(r) \/ Final(r) \/ HoldFails(r)
    BY <1>8, <1>t, <1>1, <1>p DEF Check, Step, Told, HoldEnds, Unhold, Outcome, Final, HoldFails, Go, Runs, OnTicket
  <1> QED
    BY <1>3, <1>4, <1>5, <1>6, <1>7, <1>8 DEF RunStep

LEMMA InitNames == Init => Names
  <1> SUFFICES ASSUME Init PROVE Names
    OBVIOUS
  <1>1. ASSUME NEW r \in Run PROVE run[r] = Fresh(r) /\ run[r].pc = "new"
    BY <1>1, FreshType DEF Init
  <1> QED
    BY <1>1, NoViewType DEF Init, Names, OnTicket, Idle

\* The row a run's step leaves: the one there was, none, or one whose turn is a run that has started.
LEMMA RunStepRow ==
    ASSUME TypesOK, NEW r \in Run, RunStep(r)
    PROVE  lock' = lock \/ lock' = Ready \/ (lock' # Ready /\ lock'.key.kind = "turn" => lock'.key.id = r)
  <1>t. run[r] \in Runs /\ LockType
    BY DEF TypesOK, RunType
  <1>r. run[r].turn \in Run
    BY <1>t DEF Runs
  <1>1. CASE TakeVideo(r) \/ HandTurn(r)
    BY <1>1 DEF TakeVideo, HandTurn, By
  <1>2. CASE Hold(r) \/ TakeBack(r) \/ LetGo(r)
    <2>1. \A kind \in {"turn", "pause", "gate"} : By(kind, r) \in Key /\ By(kind, run[r].turn) \in Key
      BY <1>r, ByKey
    <2>2. ASSUME NEW old \in Key, NEW new \in Key, new.kind = "turn" => new.id = r, lock' = Hand(old, new)
          PROVE  lock' = lock \/ (lock' # Ready /\ lock'.key.kind = "turn" => lock'.key.id = r)
      <3>1. CASE Held(old)
        BY <1>t, <2>2, <3>1, HandIs
      <3>2. CASE ~Held(old)
        BY <2>2, <3>2 DEF Hand
      <3> QED
        BY <3>1, <3>2
    <2>3. lock' = lock \/ lock' = Ready
          \/ \E old \in Key, new \in Key : (new.kind = "turn" => new.id = r) /\ lock' = Hand(old, new)
      BY <1>2, <2>1 DEF Hold, TakeBack, LetGo, By, Release
    <2> QED
      BY <2>2, <2>3
  <1>3. CASE MakeJob(r) \/ Submit(r) \/ Fail(r)
    BY <1>3 DEF MakeJob, Submit, Fail, Release
  <1>4. CASE ForgetClicks(r) \/ ShowRunning(r) \/ Point(r) \/ Check(r) \/ Step(r) \/ Told(r) \/ ShowPaused(r)
             \/ HoldEnds(r) \/ ShowBack(r) \/ Unhold(r) \/ Outcome(r) \/ Final(r) \/ Close(r) \/ ShowEnd(r)
             \/ HoldFails(r)
    BY <1>4 DEF ForgetClicks, ShowRunning, Point, Check, Step, Told, ShowPaused, HoldEnds, ShowBack, Unhold, Outcome,
       Final, Close, ShowEnd, HoldFails
  <1> QED
    BY <1>1, <1>2, <1>3, <1>4 DEF RunStep

LEMMA NamesRunStep ==
    ASSUME TypesOK, Names, NEW r \in Run, RunStep(r)
    PROVE  Names'
  <1>t. RunType /\ LockType /\ run[r] \in Runs
    BY DEF TypesOK, RunType
  <1>1. /\ \A m \in Run \ {r} : run'[m] = run[m]
        /\ run'[r].turn = run[r].turn /\ run'[r].pc # "new" /\ UNCHANGED clicks
    BY <1>t, RunStepTypes, RunStepTurn
  <1>2. ASSUME NEW m \in Run PROVE run'[m].pc = "new" => run'[m] = Fresh(m)
    BY <1>1 DEF Names
  <1>3. run'[r].pc \in OnTicket => Ticketed(r)'
    <2>1. CASE TakeVideo(r)
      <3>1. run[r] = Fresh(r) /\ run[r].ticket = By("req", r) /\ run[r].turn = r
        BY <2>1, FreshType DEF TakeVideo, Names
      <3>2. run'[r].ticket = run[r].ticket
        BY <1>t, <2>1 DEF TakeVideo, Go, RunType, Runs
      <3> QED
        BY <1>1, <3>1, <3>2 DEF Ticketed
    <2>2. CASE MakeJob(r)
      <3>1. Ticketed(r)
        BY <2>2 DEF MakeJob, Names, OnTicket
      <3>2. CASE Go(r, "made")
        <4>1. run'[r].ticket = run[r].ticket
          BY <1>t, <3>2 DEF Go, RunType, Runs
        <4> QED
          BY <1>1, <3>1, <4>1 DEF Ticketed
      <3>3. CASE run' = [run EXCEPT ![r] = Closed(r, "over", "none")]
        <4>1. run'[r].pc = "over"
          BY <1>t, <3>3, ClosedType DEF RunType, Outs
        <4> QED
          BY <4>1 DEF OnTicket
      <3> QED
        BY <2>2, <3>2, <3>3 DEF MakeJob
    <2> QED
      BY <1>t, <2>1, <2>2, RunStepTurn
  <1>4. \A m \in Run : run'[m].pc \in OnTicket => Ticketed(m)'
    BY <1>1, <1>3 DEF Names, Ticketed
  <1>5. resumer'.pc \in {"looked", "restart"} => PausedRow(resumer'.lock)
    BY <1>1 DEF Names, clicks
  <1>6. lock' # Ready /\ lock'.key.kind = "turn" => run'[lock'.key.id].pc # "new"
    <2>1. CASE lock' = lock
      <3>1. lock # Ready => lock.key.id \in Run
        BY <1>t DEF LockType, Row, Key
      <3> QED
        BY <1>1, <2>1, <3>1 DEF Names
    <2> QED
      BY <1>1, <2>1, RunStepRow
  <1> QED
    BY <1>2, <1>4, <1>5, <1>6 DEF Names

LEMMA NamesRest ==
    ASSUME TypesOK, Names, [Next]_vars, ~\E r \in Run : RunStep(r)
    PROVE  Names'
  <1>t. RunType /\ LockType /\ ClickType
    BY DEF TypesOK
  <1>v. SeenView \in View
    BY SeenType DEF TypesOK
  <1>i. Idle.pc = "idle"
    BY DEF Idle
  <1>id. lock # Ready => lock.key.id \in Run
    BY <1>t DEF LockType, Row, Key
  <1>1. CASE StopClick \/ StopLook \/ StopPut \/ StopDrop \/ StopVideo \/ StopMark \/ StopAnswer
             \/ PauseClick \/ PauseAsk \/ PauseMark \/ WatchRead \/ WatchLook \/ WatchPut \/ WatchDrop
             \/ LookAtView \/ Deadline \/ Restart \/ UNCHANGED vars
    <2>1. UNCHANGED <<run, resumer>> /\ (lock' = lock \/ lock' = Ready)
      BY <1>1 DEF StopClick, StopLook, StopPut, StopDrop, StopVideo, StopMark, StopAnswer, PauseClick, PauseAsk, PauseMark,
         WatchRead, WatchLook, WatchPut, WatchDrop, LookAtView, Deadline, Restart, vars, clicks, Release
    <2> QED
      BY <2>1 DEF Names, Ticketed
  <1>2. CASE ResumeClick \/ ResumeMark \/ ResumeLook
    <2>1. UNCHANGED <<run, lock>>
      BY <1>2 DEF ResumeClick, ResumeMark, ResumeLook
    <2>2. resumer'.pc \in {"looked", "restart"} => PausedRow(resumer'.lock)
      <3>1. CASE PausedRow(lock) /\ resumer' = [Idle EXCEPT !.pc = "looked", !.lock = lock]
        <4>1. resumer'.lock = lock
          BY <1>t, <3>1, NewClick DEF LockType
        <4> QED
          BY <3>1, <4>1
      <3>2. CASE resumer' = Idle
        BY <1>i, <3>2
      <3>4. CASE ResumeClick /\ resumer' = [Idle EXCEPT !.pc = "mark", !.view = view']
        BY <1>v, <3>4, NewClick DEF ResumeClick
      <3>3. CASE ResumeLook /\ resumer' = [resumer EXCEPT !.pc = "restart"]
        <4>1. resumer'.lock = resumer.lock /\ resumer.pc = "looked"
          BY <1>t, <3>3, ClickTo DEF ClickType, ResumeLook, At, Route
        <4> QED
          BY <3>3, <4>1 DEF Names
      <3> QED
        BY <1>2, <3>1, <3>2, <3>3, <3>4 DEF ResumeClick, ResumeMark, ResumeLook
    <2> QED
      BY <2>1, <2>2 DEF Names, Ticketed
  <1>3. CASE ResumeStart
    <2>0. resumer.pc = "restart" /\ PausedRow(resumer.lock) /\ resumer.lock \in Row
      BY <1>3, <1>t DEF ResumeStart, At, Route, Names, ClickType
    <2>1. resumer'.pc \notin {"looked", "restart"}
      BY <1>3, <1>i DEF ResumeStart
    <2>2. CASE lock' = Release(resumer.lock.key) /\ UNCHANGED run
      BY <2>1, <2>2 DEF Names, Ticketed, Release
    <2>3. ASSUME NEW r \in Run, run[r].pc = "new", lock' = lock,
                 run' = [run EXCEPT ![r] = [Fresh(r) EXCEPT !.pc = "made", !.turn = resumer.lock.key.id,
                                                            !.ticket = resumer.lock.key, !.snap = resumer.lock.shot]]
          PROVE  Names'
      <3> DEFINE x == Fresh(r)
                 y == [x EXCEPT !.pc = "made", !.turn = resumer.lock.key.id, !.ticket = resumer.lock.key,
                                !.snap = resumer.lock.shot]
      <3>1. y.pc = "made" /\ y.turn = resumer.lock.key.id /\ y.ticket = resumer.lock.key
        <4>1. x \in Runs
          BY FreshType
        <4> HIDE DEF x
        <4> QED
          BY <4>1 DEF Runs
      <3>2. run' = [run EXCEPT ![r] = y]
        BY <2>3
      <3> HIDE DEF y
      <3>3. run'[r] = y /\ \A m \in Run \ {r} : run'[m] = run[m]
        BY <1>t, <3>2 DEF RunType
      <3>4. resumer.lock.key = By("pause", resumer.lock.key.id)
        BY <2>0 DEF PausedRow, Row, Key, By
      <3>5. Ticketed(r)' /\ run'[r].pc # "new"
        BY <3>1, <3>3, <3>4 DEF Ticketed
      <3>6. \A m \in Run : /\ run'[m].pc = "new" => run'[m] = Fresh(m)
                           /\ run'[m].pc \in OnTicket => Ticketed(m)'
        BY <3>3, <3>5 DEF Names, Ticketed
      <3>7. lock' # Ready /\ lock'.key.kind = "turn" => run'[lock'.key.id].pc # "new"
        BY <1>id, <2>3, <3>3, <3>5 DEF Names
      <3> QED
        BY <2>1, <3>6, <3>7 DEF Names
    <2> QED
      BY <1>3, <2>2, <2>3 DEF ResumeStart
  <1>4. CASE Crash
    <2>1. ASSUME NEW m \in Run
          PROVE  /\ run'[m].pc = "new" => run'[m] = Fresh(m)
                 /\ run'[m].pc \notin OnTicket
                 /\ run[m].pc # "new" => run'[m].pc # "new"
      <3>1. run'[m] = IF run[m].pc \in {"new", "over"} THEN run[m] ELSE Closed(m, "lost", "none")
        BY <1>4 DEF Crash
      <3>2. Closed(m, "lost", "none").pc = "lost"
        BY <1>t, ClosedType DEF Outs
      <3> QED
        BY <3>1, <3>2 DEF Names, OnTicket
    <2>2. lock' = lock /\ resumer' = Idle
      BY <1>4 DEF Crash
    <2> QED
      BY <1>i, <1>id, <2>1, <2>2 DEF Names
  <1> QED
    BY <1>1, <1>2, <1>3, <1>4 DEF Next, RouteStep

LEMMA NamesAlways == Spec => [](TypesOK /\ Names)
  <1>1. TypesOK /\ Names /\ [Next]_vars => Names'
    BY NamesRunStep, NamesRest DEF Next
  <1> QED
    BY <1>1, InitNames, TypesAlways, PTL DEF Spec

\* What is done of a row, and how it changes.
Phase(l) == IF l.key.kind = "gate" THEN "waiting" ELSE IF l.key.kind = "pause" THEN "paused" ELSE "working"
Named(l) == IF l.key.kind = "turn" THEN run[l.key.id].turn ELSE l.key.id

LEMMA DoingIs ==
    /\ doing = [v \in {"video"} |-> doing["video"]]
    /\ lock = Ready => doing["video"] = Ready
    /\ lock # Ready => doing["video"] = [phase |-> Phase(lock), id |-> Named(lock), by |-> "user"]
  <1>1. lock # Ready => doing["video"] = [phase |-> Phase(lock), id |-> Named(lock), by |-> "user"]
    BY DEF doing, Phase, Named, GateRow, PausedRow
  <1> QED
    BY <1>1 DEF doing

LEMMA DoingThen ==
    /\ doing' = [v \in {"video"} |-> doing'["video"]]
    /\ lock' = Ready => doing'["video"] = Ready
    /\ lock' # Ready => doing'["video"] = [phase |-> Phase(lock'), id |-> Named(lock)', by |-> "user"]
  <1>1. lock' # Ready => doing'["video"] = [phase |-> Phase(lock'), id |-> Named(lock)', by |-> "user"]
    BY DEF doing, Phase, Named, GateRow, PausedRow
  <1> QED
    BY <1>1 DEF doing

LEMMA DoingFree == lock' = Ready => Edit!Next
  <1> SUFFICES ASSUME lock' = Ready PROVE Edit!Next
    OBVIOUS
  <1>1. doing' = [v \in {"video"} |-> IF v \in {"video"} THEN Ready ELSE doing[v]]
    BY DoingThen
  <1>2. Edit!End({"video"})
    BY <1>1 DEF Edit!End
  <1> QED
    BY <1>2 DEF Edit!Next

LEMMA DoingStays ==
    ASSUME LockType, lock' = lock, lock # Ready => Named(lock)' = Named(lock)
    PROVE  doing' = doing
  BY DoingIs, DoingThen

LEMMA DoingSomething ==
    ASSUME LockType, RunType, lock # Ready
    PROVE  /\ doing["video"] # Ready /\ doing["video"].phase = Phase(lock) /\ doing["video"].id = Named(lock)
           /\ doing["video"].by = "user"
  <1>1. Named(lock) \in Run
    BY DEF LockType, RunType, Runs, Row, Key, Named
  <1>2. Phase(lock) \in {"working", "paused", "waiting"}
    BY DEF Phase
  <1>3. doing["video"] = [phase |-> Phase(lock), id |-> Named(lock), by |-> "user"]
    BY DoingIs
  <1>4. doing["video"] \in Edit!Doing
    <2> DEFINE p == Phase(lock)
               w == Named(lock)
    <2>1. p \in {"working", "paused", "waiting"} /\ w \in Run /\ doing["video"] = [phase |-> p, id |-> w, by |-> "user"]
      BY <1>1, <1>2, <1>3
    <2> HIDE DEF p, w
    <2> QED
      BY <2>1 DEF Edit!Doing, Edit!Starter
  <1> QED
    BY <1>3, <1>4, ReadyAssumption

LEMMA DoingShifts ==
    ASSUME LockType, RunType, lock # Ready, lock' # Ready, Named(lock)' = Named(lock),
           \/ Phase(lock) = Phase(lock')
           \/ Phase(lock) = "working" /\ Phase(lock') \in {"paused", "waiting"}
           \/ Phase(lock) = "paused" /\ Phase(lock') = "working"
    PROVE  [Edit!Next]_doing
  <1> DEFINE a == doing["video"]
             to == Phase(lock')
  <1>1. /\ doing = [v \in {"video"} |-> a]
        /\ a # Ready /\ a.phase = Phase(lock) /\ a.id = Named(lock) /\ a.by = "user"
    BY DoingIs, DoingSomething
  <1>2. doing' = [v \in {"video"} |-> [phase |-> to, id |-> a.id, by |-> a.by]]
    BY <1>1, DoingThen
  <1>3. doing' = [doing EXCEPT !["video"] = [phase |-> to, id |-> a.id, by |-> a.by]]
    <2> HIDE DEF a, to
    <2> QED
      BY <1>1, <1>2
  <1>4. CASE Phase(lock) = to
    BY <1>4, DoingIs, DoingThen
  <1>5. CASE Phase(lock) = "working" /\ to = "paused"
    BY <1>1, <1>3, <1>5 DEF Edit!Shift, Edit!Change, Edit!Next
  <1>6. CASE Phase(lock) = "working" /\ to = "waiting"
    BY <1>1, <1>3, <1>6 DEF Edit!Shift, Edit!Change, Edit!Next
  <1>7. CASE Phase(lock) = "paused" /\ to = "working"
    BY <1>1, <1>3, <1>7 DEF Edit!Shift, Edit!Change, Edit!Next
  <1> QED
    BY <1>4, <1>5, <1>6, <1>7

\* A key takes the place of another of the same turn.
LEMMA HandShifts ==
    ASSUME LockType, RunType, NEW old \in Key, NEW new \in Key, lock' = Hand(old, new),
           \A m \in Run : run'[m].turn = run[m].turn,
           (IF old.kind = "turn" THEN run[old.id].turn ELSE old.id) = (IF new.kind = "turn" THEN run[new.id].turn ELSE new.id),
           \/ old.kind = "turn" /\ new.kind \in {"pause", "gate"}
           \/ old.kind = "pause" /\ new.kind = "turn"
    PROVE  [Edit!Next]_doing
  <1>1. CASE Held(old)
    <2>1. lock # Ready /\ lock.key = old /\ lock' # Ready /\ lock'.key = new
      BY <1>1, HandIs DEF Held
    <2>2. Named(lock)' = Named(lock)
      <3>1. new.id \in Run
        BY DEF Key
      <3> QED
        BY <2>1, <3>1 DEF Named
    <2>3. \/ Phase(lock) = "working" /\ Phase(lock') \in {"paused", "waiting"}
          \/ Phase(lock) = "paused" /\ Phase(lock') = "working"
      BY <2>1 DEF Phase
    <2> QED
      BY <2>1, <2>2, <2>3, DoingShifts
  <1>2. CASE ~Held(old)
    <2>1. lock' = lock
      BY <1>2 DEF Hand
    <2>2. lock # Ready => Named(lock)' = Named(lock)
      BY <2>1 DEF LockType, Row, Key, Named
    <2> QED
      BY <2>1, <2>2, DoingStays
  <1> QED
    BY <1>1, <1>2

\* Every step of a run is one the promise allows.
LEMMA EditRunStep ==
    ASSUME TypesOK, Names, NEW r \in Run, RunStep(r)
    PROVE  [Edit!Next]_doing
  <1>t. RunType /\ LockType /\ run[r] \in Runs /\ run[r].turn \in Run
    BY DEF TypesOK, RunType, Runs
  <1>m. \A m \in Run : run'[m].turn = run[m].turn
    BY <1>t, RunStepTypes, RunStepTurn
  <1>k. \A kind \in {"req", "turn", "pause", "gate"} :
            /\ By(kind, r) \in Key /\ By(kind, r).kind = kind /\ By(kind, r).id = r
            /\ By(kind, run[r].turn) \in Key /\ By(kind, run[r].turn).kind = kind /\ By(kind, run[r].turn).id = run[r].turn
    BY <1>t, ByKey
  <1>s. ASSUME lock' = lock PROVE [Edit!Next]_doing
    <2>1. lock # Ready => Named(lock)' = Named(lock)
      BY <1>s, <1>m, <1>t DEF LockType, Row, Key, Named
    <2> QED
      BY <1>s, <1>t, <2>1, DoingStays
  <1>1. CASE TakeVideo(r)
    <2>1. lock' = [key |-> By("req", r), shot |-> {}] /\ lock' \in Row /\ lock' # Ready
      BY <1>1, <1>k, ReadyAssumption DEF TakeVideo, Row
    <2>2. Phase(lock') = "working" /\ Named(lock)' = r
      BY <1>k, <2>1 DEF Phase, Named
    <2>3. doing' = [v \in {"video"} |-> [phase |-> "working", id |-> r, by |-> "user"]]
      BY <2>1, <2>2, DoingThen
    <2>4. doing' = [doing EXCEPT !["video"] = [phase |-> "working", id |-> r, by |-> "user"]]
      <3> DEFINE a == doing["video"]
      <3>1. doing = [v \in {"video"} |-> a]
        BY DoingIs
      <3> HIDE DEF a
      <3> QED
        BY <2>3, <3>1
    <2>5. CASE lock = Ready
      <3>1. Edit!Start("video", r, "user")
        BY <2>4, <2>5, DoingIs DEF Edit!Start
      <3> QED
        BY <3>1 DEF Edit!Next, Edit!Change, Edit!Starter
    <2>6. CASE lock # Ready
      <3>1. GateRow(lock)
        BY <1>1, <2>6 DEF TakeVideo
      <3>2. doing["video"] # Ready /\ doing["video"].phase = "waiting" /\ doing["video"].by = "user"
        BY <1>t, <2>6, <3>1, DoingSomething DEF Phase, GateRow
      <3>3. Edit!Answer("video", r, "user")
        BY <2>4, <3>2 DEF Edit!Answer
      <3> QED
        BY <3>3 DEF Edit!Next, Edit!Change, Edit!Starter
    <2> QED
      BY <2>5, <2>6
  <1>2. CASE HandTurn(r)
    <2>1. CASE Held(run[r].ticket)
      <3>1. Ticketed(r)
        BY <1>2 DEF HandTurn, Names, OnTicket
      <3>2. lock # Ready /\ lock.key = run[r].ticket /\ lock'.key = By("turn", r)
        BY <1>2, <2>1 DEF HandTurn, Held
      <3>3. lock' # Ready
        <4>1. lock' \in Row
          BY <1>2, <2>1, <1>k, <1>t DEF HandTurn, Row, Runs, LockType
        <4> QED
          BY <4>1, ReadyAssumption
      <3>4. Named(lock)' = run[r].turn /\ Phase(lock') = "working"
        BY <1>k, <1>m, <3>2 DEF Named, Phase
      <3>5. Named(lock) = run[r].turn /\ Phase(lock) \in {"working", "paused"}
        BY <1>k, <3>1, <3>2 DEF Ticketed, Named, Phase
      <3> QED
        BY <1>t, <3>2, <3>3, <3>4, <3>5, DoingShifts
    <2> QED
      BY <1>2, <1>s, <2>1 DEF HandTurn
  <1>3. CASE Hold(r)
    <2>1. lock' = lock \/ lock' = Hand(By("turn", r), By("pause", run[r].turn))
      BY <1>3 DEF Hold
    <2> QED
      BY <1>k, <1>m, <1>s, <1>t, <2>1, HandShifts
  <1>4. CASE TakeBack(r)
    <2>1. lock' = Hand(By("pause", run[r].turn), By("turn", r))
      BY <1>4 DEF TakeBack
    <2> QED
      BY <1>k, <1>m, <1>t, <2>1, HandShifts
  <1>5. CASE LetGo(r)
    <2>1. lock' = Hand(By("turn", r), By("gate", run[r].turn)) \/ lock' = lock \/ lock' = Ready
      BY <1>5 DEF LetGo, Release
    <2> QED
      BY <1>k, <1>m, <1>s, <1>t, <2>1, HandShifts, DoingFree
  <1>6. CASE MakeJob(r) \/ Submit(r) \/ Fail(r)
    <2>1. lock' = lock \/ lock' = Ready
      BY <1>6 DEF MakeJob, Submit, Fail, Release
    <2> QED
      BY <1>s, <2>1, DoingFree
  <1>7. CASE ForgetClicks(r) \/ ShowRunning(r) \/ Point(r) \/ Check(r) \/ Step(r) \/ Told(r) \/ ShowPaused(r)
             \/ HoldEnds(r) \/ ShowBack(r) \/ Unhold(r) \/ Outcome(r) \/ Final(r) \/ Close(r) \/ ShowEnd(r)
             \/ HoldFails(r)
    <2>1. lock' = lock
      BY <1>7 DEF ForgetClicks, ShowRunning, Point, Check, Step, Told, ShowPaused, HoldEnds, ShowBack, Unhold, Outcome,
         Final, Close, ShowEnd, HoldFails
    <2> QED
      BY <1>s, <2>1
  <1> QED
    BY <1>1, <1>2, <1>3, <1>4, <1>5, <1>6, <1>7 DEF RunStep

\* So is every other step.
LEMMA EditRest ==
    ASSUME TypesOK, Names, [Next]_vars, ~\E r \in Run : RunStep(r)
    PROVE  [Edit!Next]_doing
  <1>t. RunType /\ LockType /\ ClickType
    BY DEF TypesOK
  <1>1. CASE UNCHANGED run
    <2>1. lock' = lock \/ lock' = Ready
      BY <1>1 DEF Next, RouteStep, StopClick, StopLook, StopPut, StopDrop, StopVideo, StopMark, StopAnswer, PauseClick,
         PauseAsk, PauseMark, ResumeClick, ResumeMark, ResumeLook, ResumeStart, WatchRead, WatchLook, WatchPut, WatchDrop,
         LookAtView, Deadline, Crash, Restart, vars, Release
    <2>2. lock' = lock => Named(lock)' = Named(lock)
      BY <1>1 DEF Named
    <2> QED
      BY <1>t, <2>1, <2>2, DoingStays, DoingFree
  <1>2. CASE lock' = lock /\ lock # Ready /\ \A m \in Run : run[m].pc # "new" => run'[m].turn = run[m].turn
    <2>1. Named(lock)' = Named(lock)
      BY <1>t, <1>2 DEF Names, Named, LockType, Row, Key
    <2> QED
      BY <1>t, <1>2, <2>1, DoingStays
  <1>3. CASE lock' = lock /\ lock = Ready
    BY <1>t, <1>3, DoingStays
  <1>4. CASE ResumeStart
    <2>1. CASE lock' = lock /\ ~UNCHANGED run
      <3>1. PICK r \in Run : run[r].pc = "new" /\ \E x : run' = [run EXCEPT ![r] = x]
        BY <1>4, <2>1 DEF ResumeStart
      <3>2. \A m \in Run : run[m].pc # "new" => run'[m].turn = run[m].turn
        BY <1>t, <3>1 DEF RunType
      <3> QED
        BY <1>2, <1>3, <2>1, <3>2
    <2> QED
      BY <1>1, <1>4, <2>1 DEF ResumeStart
  <1>5. CASE Crash
    <2>1. ASSUME NEW m \in Run PROVE run'[m].turn = run[m].turn
      <3>1. run'[m] = IF run[m].pc \in {"new", "over"} THEN run[m] ELSE Closed(m, "lost", "none")
        BY <1>5 DEF Crash
      <3> QED
        BY <1>t, <3>1, ClosedType DEF Outs
    <2> QED
      BY <1>2, <1>3, <1>5, <2>1 DEF Crash
  <1>6. CASE StopClick \/ StopLook \/ StopPut \/ StopDrop \/ StopVideo \/ StopMark \/ StopAnswer \/ PauseClick
             \/ PauseAsk \/ PauseMark \/ ResumeClick \/ ResumeMark \/ ResumeLook \/ WatchRead \/ WatchLook \/ WatchPut
             \/ WatchDrop \/ LookAtView \/ Deadline \/ Restart \/ UNCHANGED vars
    <2>1. UNCHANGED run
      BY <1>6 DEF StopClick, StopLook, StopPut, StopDrop, StopVideo, StopMark, StopAnswer, PauseClick,
         PauseAsk, PauseMark, ResumeClick, ResumeMark, ResumeLook, WatchRead, WatchLook, WatchPut, WatchDrop,
         LookAtView, Deadline, Restart, vars
    <2> QED
      BY <1>1, <2>1
  <1> QED
    BY <1>4, <1>5, <1>6 DEF Next, RouteStep

\* What the row says implements one edit at a time, clicks atomic or not, through crashes.
THEOREM ImplementsOneEdit == Spec => EditSpec
  <1>1. Init => Edit!Init
    BY DEF Init, Edit!Init, doing
  <1>2. TypesOK /\ Names /\ [Next]_vars => [Edit!Next]_doing
    BY EditRunStep, EditRest
  <1> QED
    BY <1>1, <1>2, NamesAlways, PTL DEF Spec, EditSpec, Edit!Spec

------------------------------------------------------------------------------
(* Who has the lock, and what the snapshots hold.                          *)

\* Where a run has the video's lock, and under which key.
OnTurn == {"handed", "cleared", "shown", "hold", "back", "unhold", "outcome"} \cup Looping
OnPause == {"holding", "held", "leave"}
Finishing == {"final", "close", "shut", "letgo"}
Has(r) == run[r].pc \in OnTicket \cup OnTurn \cup OnPause
KeyOf(r) == IF run[r].pc \in OnTicket THEN run[r].ticket
            ELSE IF run[r].pc \in OnTurn THEN By("turn", r) ELSE By("pause", run[r].turn)

HasLock == \A r \in Run : Has(r) => Held(KeyOf(r))
OneHas == \A r, m \in Run : Has(r) /\ Has(m) => r = m

\* The ticket a run starts with: its request's, or the pause of the turn it carries on.
TicketOK(r) ==
    /\ run[r].pc = "new" => run[r] = Fresh(r)
    /\ run[r].pc \in OnTicket =>
         \/ run[r].ticket = By("req", r) /\ run[r].turn = r
         \/ /\ run[r].ticket = By("pause", run[r].turn) /\ run[r].snap = lock.shot
            /\ run[r].pc = "made" /\ "resume" \in Clicks
    /\ run[r].pc \in {"handed", "cleared", "shown"} /\ run[r].ticket.kind = "pause" => "resume" \in Clicks
Tickets == \A r \in Run : TicketOK(r)

\* A turn that pauses is one Stop and Resume find on hold.
OnHold == \A r \in Run : run[r].pc \in Pausing => run[r].turn \in holding

\* What Stop puts back: the run's own snapshot is the one of the row, and never has the run in it.
SnapOK(r) ==
    /\ run[r].pc \in OnTurn \cup OnPause \/ (run[r].pc \in Finishing /\ Held(By("turn", r))) => run[r].snap = lock.shot
    /\ r \notin run[r].snap
Snaps == \A r \in Run : SnapOK(r)

\* A run that ends without the lock does not end well; one that ended as stopped left nothing.
EndOK(r) ==
    /\ run[r].pc \in Finishing /\ ~Held(By("turn", r)) => run[r].out \in {"error", "stopped"}
    /\ run[r].pc \in Finishing \cup {"over"} /\ run[r].out = "stopped" => r \notin edits
Ends == \A r \in Run : EndOK(r)

\* Nothing knows a run that has added nothing yet.
Unadded(r) == run[r].pc \in {"new"} \cup Starting
NotYet == \A r \in Run : Unadded(r) =>
    /\ r \notin edits /\ (lock # Ready => r \notin lock.shot)
    /\ \A m \in Run : r \notin run[m].snap

\* What landed is in the snapshot of the row of a turn or a pause.
Landed(r) == run[r].pc = "over" /\ run[r].out \in {"done", "gate"}
LandedKept == lock # Ready /\ lock.key.kind \in {"turn", "pause"} => \A r \in edits : Landed(r) => r \in lock.shot

DownIsQuiet == ~up => /\ \A r \in Run : run[r].pc \in {"new", "over", "lost"}
                      /\ \A n \in {"stop", "pause", "resume", "watch"} : Route[n].pc = "idle"

Core == HasLock /\ OneHas /\ Tickets /\ OnHold /\ Snaps /\ Ends /\ NotYet /\ LandedKept

\* No other run has the lock, and the row is no other turn's.
Mine(r) == \A m \in Run \ {r} : ~Has(m) /\ ~Held(By("turn", m))
NoneHas == \A r \in Run : ~Has(r)

\* A run the edit set, the row or a snapshot knows.
Known(m) == m \in edits \/ (lock # Ready /\ m \in lock.shot) \/ \E k \in Run : m \in run[k].snap

LEMMA PlacesApart ==
    /\ OnTicket = {"taken", "made"} /\ OnPause = {"holding", "held", "leave"}
    /\ OnTurn = {"handed", "cleared", "shown", "hold", "back", "unhold", "outcome", "point", "check", "step", "told"}
    /\ Finishing = {"final", "close", "shut", "letgo"}
    /\ Pausing = {"hold", "holding", "held", "leave", "back", "unhold"}
    /\ Starting = {"taken", "made", "handed", "cleared", "shown"}
  BY DEF OnTicket, OnPause, OnTurn, Looping, Finishing, Pausing, Starting

\* The key a run with the lock has it under.
LEMMA KeyKinds ==
    ASSUME Tickets, NEW r \in Run, Has(r)
    PROVE  /\ KeyOf(r) \in {By("req", r), By("turn", r), By("pause", run[r].turn)}
           /\ KeyOf(r) = By("pause", run[r].turn) => run[r].pc \in OnPause \/ (run[r].pc = "made" /\ "resume" \in Clicks)
           /\ run[r].pc = "taken" => KeyOf(r) = By("req", r) /\ run[r].turn = r /\ run[r].ticket = By("req", r)
  BY PlacesApart DEF Tickets, TicketOK, Has, KeyOf, By

LEMMA HasIsAlone == ASSUME HasLock, OneHas, Tickets, NEW r \in Run, Has(r) PROVE Mine(r) /\ Held(KeyOf(r))
  <1>1. Held(KeyOf(r)) /\ KeyOf(r) \in {By("req", r), By("turn", r), By("pause", run[r].turn)}
    BY KeyKinds DEF HasLock
  <1>2. \A m \in Run \ {r} : ~Has(m)
    BY DEF OneHas
  <1>3. \A m \in Run \ {r} : ~Held(By("turn", m))
    BY <1>1 DEF Held, By
  <1> QED
    BY <1>1, <1>2, <1>3 DEF Mine

LEMMA HeldIsAlone == ASSUME HasLock, Tickets, NEW r \in Run, Held(By("turn", r)) PROVE Mine(r)
  <1>1. ASSUME NEW m \in Run \ {r}, Has(m) PROVE FALSE
    <2>1. Held(KeyOf(m)) /\ KeyOf(m) \in {By("req", m), By("turn", m), By("pause", run[m].turn)}
      BY <1>1, KeyKinds DEF HasLock
    <2> QED
      BY <2>1 DEF Held, By
  <1>2. \A m \in Run \ {r} : ~Held(By("turn", m))
    BY DEF Held, By
  <1> QED
    BY <1>1, <1>2 DEF Mine

\* Nobody has a row that waits for a go, or none.
LEMMA NobodyHas == ASSUME HasLock, Tickets, lock = Ready \/ GateRow(lock) PROVE NoneHas /\ \A r \in Run : Mine(r)
  <1>1. ASSUME NEW m \in Run, Has(m) PROVE FALSE
    <2>1. Held(KeyOf(m)) /\ KeyOf(m) \in {By("req", m), By("turn", m), By("pause", run[m].turn)}
      BY <1>1, KeyKinds DEF HasLock
    <2> QED
      BY <2>1 DEF Held, By, GateRow
  <1>2. \A m \in Run : ~Held(By("turn", m))
    BY DEF Held, By, GateRow
  <1> QED
    BY <1>1, <1>2 DEF NoneHas, Mine

\* A step of one run: the others keep their part, given that it does its own.
LEMMA StepKeeps ==
    ASSUME Core, NEW r \in Run, \A m \in Run \ {r} : run'[m] = run[m],
           lock' = lock \/ (Mine(r) /\ \A m \in Run \ {r} : ~Held(By("turn", m))'),
           edits' \subseteq edits \cup {r},
           holding \subseteq holding' \/ Mine(r),
           lock' # Ready => \A m \in Run : m \in lock'.shot => Known(m),
           \A m \in Run : m \in run'[r].snap => Known(m),
           Has(r)' => Mine(r) /\ Held(KeyOf(r))',
           TicketOK(r)', run'[r].pc \in Pausing => run'[r].turn \in holding',
           SnapOK(r)', EndOK(r)', Unadded(r)' => Unadded(r) /\ edits' \subseteq edits, LandedKept'
    PROVE  Core'
  <1>a. HasLock /\ OneHas /\ Tickets /\ OnHold /\ Snaps /\ Ends /\ NotYet
    BY DEF Core
  <1>p. Pausing \subseteq OnTurn \cup OnPause
    BY PlacesApart
  <1>h. ASSUME NEW m \in Run \ {r}
        PROVE  /\ Has(m)' <=> Has(m)
               /\ KeyOf(m)' = KeyOf(m)
    BY <1>h DEF Has, KeyOf
  <1>l. \A m \in Run \ {r} : Has(m) => lock' = lock
    BY DEF Mine
  <1>1. HasLock'
    <2>1. ASSUME NEW m \in Run \ {r}, Has(m)' PROVE Held(KeyOf(m))'
      <3>1. Has(m) /\ Held(KeyOf(m)) /\ lock' = lock /\ KeyOf(m)' = KeyOf(m)
        BY <1>a, <1>h, <1>l, <2>1 DEF HasLock
      <3> QED
        BY <3>1 DEF Held
    <2> QED
      BY <2>1 DEF HasLock
  <1>2. OneHas'
    <2>1. \A m \in Run \ {r} : Has(r)' => ~Has(m)'
      BY <1>h DEF Mine
    <2>2. \A m, k \in Run \ {r} : Has(m)' /\ Has(k)' => m = k
      BY <1>a, <1>h DEF OneHas
    <2> QED
      BY <2>1, <2>2 DEF OneHas
  <1>3. Tickets'
    <2>1. ASSUME NEW m \in Run \ {r} PROVE TicketOK(m)'
      <3>1. TicketOK(m) /\ run'[m] = run[m]
        BY <1>a, <2>1 DEF Tickets
      <3>2. run[m].pc \in OnTicket => lock' = lock
        BY <1>l DEF Has
      <3> QED
        BY <3>1, <3>2 DEF TicketOK
    <2> QED
      BY <2>1 DEF Tickets
  <1>4. OnHold'
    <2>1. ASSUME NEW m \in Run \ {r}, run'[m].pc \in Pausing PROVE run'[m].turn \in holding'
      <3>1. run[m].turn \in holding /\ Has(m)
        BY <1>a, <1>p, <2>1 DEF OnHold, Has
      <3> QED
        BY <2>1, <3>1 DEF Mine
    <2> QED
      BY <2>1 DEF OnHold
  <1>5. Snaps'
    <2>1. ASSUME NEW m \in Run \ {r} PROVE SnapOK(m)'
      <3>1. SnapOK(m) /\ run'[m] = run[m]
        BY <1>a, <2>1 DEF Snaps
      <3>2. CASE lock' = lock
        BY <3>1, <3>2 DEF SnapOK, Held
      <3>3. CASE ~Has(m) /\ ~Held(By("turn", m))'
        BY <3>1, <3>3 DEF SnapOK, Has
      <3> QED
        BY <3>2, <3>3 DEF Mine
    <2> QED
      BY <2>1 DEF Snaps
  <1>6. Ends'
    <2>1. ASSUME NEW m \in Run \ {r} PROVE EndOK(m)'
      <3>1. EndOK(m) /\ run'[m] = run[m] /\ (m \in edits' => m \in edits)
        BY <1>a, <2>1 DEF Ends
      <3>2. Held(By("turn", m)) => Held(By("turn", m))'
        BY DEF Mine, Held
      <3> QED
        BY <3>1, <3>2 DEF EndOK
    <2> QED
      BY <2>1 DEF Ends
  <1>7. NotYet'
    <2>1. ASSUME NEW m \in Run, Unadded(m)'
          PROVE  m \notin edits' /\ (lock' # Ready => m \notin lock'.shot) /\ \A k \in Run : m \notin run'[k].snap
      <3>1. Unadded(m) /\ (m \in edits' => m \in edits)
        BY <2>1 DEF Unadded
      <3>2. ~Known(m)
        BY <1>a, <3>1 DEF NotYet, Known
      <3> QED
        BY <3>1, <3>2 DEF Known
    <2> QED
      BY <2>1 DEF NotYet
  <1> QED
    BY <1>1, <1>2, <1>3, <1>4, <1>5, <1>6, <1>7 DEF Core

\* A step of one run that leaves the row alone.
LEMMA StaysKeeps ==
    ASSUME TypesOK, Core, NEW r \in Run, \A m \in Run \ {r} : run'[m] = run[m], lock' = lock,
           edits' \subseteq edits \cup {r}, Unadded(r)' => Unadded(r) /\ edits' \subseteq edits,
           holding \subseteq holding' \/ Mine(r),
           run'[r].snap = run[r].snap,
           Has(r)' => Has(r) /\ KeyOf(r)' = KeyOf(r),
           TicketOK(r)', run'[r].pc \in Pausing => run'[r].turn \in holding',
           run'[r].pc \in Finishing => run[r].pc \in Finishing \cup OnTurn \cup OnPause,
           run'[r].pc \in OnTurn \cup OnPause => run[r].pc \in OnTurn \cup OnPause,
           EndOK(r)', ~Landed(r)'
    PROVE  Core'
  <1>a. HasLock /\ OneHas /\ Tickets /\ Snaps /\ LandedKept
    BY DEF Core
  <1>1. Has(r)' => Mine(r) /\ Held(KeyOf(r))'
    <2>1. Has(r)' => Mine(r) /\ Held(KeyOf(r)) /\ KeyOf(r)' = KeyOf(r)
      BY <1>a, HasIsAlone
    <2> QED
      BY <2>1 DEF Held
  <1>2. SnapOK(r)'
    <2>1. SnapOK(r) /\ Held(By("turn", r))' = Held(By("turn", r))
      BY <1>a DEF Snaps, Held
    <2> QED
      BY <2>1 DEF SnapOK
  <1>3. LandedKept'
    <2>1. ASSUME NEW m \in Run, lock' # Ready, lock'.key.kind \in {"turn", "pause"}, m \in edits', Landed(m)'
          PROVE  m \in lock'.shot
      <3>1. m # r /\ m \in edits /\ Landed(m)
        BY <2>1 DEF Landed
      <3> QED
        BY <1>a, <2>1, <3>1 DEF LandedKept
    <2>2. edits' \subseteq Run
      BY DEF TypesOK, LockType
    <2> QED
      BY <2>1, <2>2 DEF LandedKept
  <1>4. (lock' # Ready => \A m \in Run : m \in lock'.shot => Known(m)) /\ \A m \in Run : m \in run'[r].snap => Known(m)
    BY DEF Known
  <1> QED
    BY <1>1, <1>2, <1>3, <1>4, StepKeeps

\* Steps that only go on to another place, under the same key.
LEMMA GoKeeps ==
    ASSUME TypesOK, Core, NEW r \in Run, NEW pc \in OnTurn \cup OnPause \cup {"made"}, Go(r, pc), Has(r),
           run[r].pc = "taken" \/ pc # "made",
           (run[r].pc \in OnTicket) = (pc \in OnTicket), (run[r].pc \in OnPause) = (pc \in OnPause),
           lock' = lock, edits' = edits, holding \subseteq holding',
           pc \in {"cleared", "shown"} => run[r].pc \in {"handed", "cleared"}, pc # "handed",
           pc \in Pausing => run[r].pc \in Pausing \/ run[r].turn \in holding'
    PROVE  Core'
  <1>a. HasLock /\ OneHas /\ Tickets /\ OnHold /\ RunType
    BY DEF Core, TypesOK
  <1>p. pc \in Places
    BY PlacesApart, PlacesAre
  <1>1. /\ \A m \in Run \ {r} : run'[m] = run[m]
        /\ run'[r].pc = pc /\ run'[r].turn = run[r].turn /\ run'[r].ticket = run[r].ticket
        /\ run'[r].snap = run[r].snap /\ run'[r].out = run[r].out
    BY <1>a, <1>p, RunGo
  <1>2. Has(r)' /\ KeyOf(r)' = KeyOf(r)
    BY <1>1, PlacesApart DEF Has, KeyOf
  <1>3. TicketOK(r)'
    <2>1. TicketOK(r)
      BY <1>a DEF Tickets
    <2>2. CASE pc = "made"
      <3>1. run[r].ticket = By("req", r) /\ run[r].turn = r
        BY <1>a, <2>2, KeyKinds
      <3> QED
        BY <1>1, <2>2, <3>1 DEF TicketOK, OnTicket
    <2>3. CASE pc # "made"
      BY <1>1, <2>1, <2>3, PlacesApart DEF TicketOK
    <2> QED
      BY <2>2, <2>3
  <1>4. run'[r].pc \in Pausing => run'[r].turn \in holding'
    BY <1>a, <1>1 DEF OnHold
  <1>5. EndOK(r)' /\ ~Landed(r)' /\ run'[r].pc \notin Finishing
    BY <1>1, PlacesApart DEF EndOK, Landed
  <1>6. Unadded(r)' => Unadded(r)
    BY <1>1, PlacesApart DEF Unadded, Has
  <1>7. run'[r].pc \in OnTurn \cup OnPause => run[r].pc \in OnTurn \cup OnPause
    BY <1>1, PlacesApart DEF Has
  <1> QED
    BY <1>1, <1>2, <1>3, <1>4, <1>5, <1>6, <1>7, StaysKeeps

\* A run that ends lets go of its row, or never had it.
LEMMA EndKeeps ==
    ASSUME TypesOK, Core, NEW r \in Run, NEW out \in Outs, run' = [run EXCEPT ![r] = Closed(r, "over", out)],
           \/ /\ Mine(r)
              /\ lock' = Ready \/ (lock' # Ready /\ lock'.shot = lock.shot /\ lock # Ready /\ lock'.key.kind = "gate")
           \/ lock' = lock /\ out \notin {"done", "gate"},
           edits' = edits, holding' = holding, out = "stopped" => r \notin edits
    PROVE  Core'
  <1>a. HasLock /\ OneHas /\ Tickets /\ OnHold /\ RunType /\ LandedKept
    BY DEF Core, TypesOK
  <1>1. /\ \A m \in Run \ {r} : run'[m] = run[m]
        /\ run'[r].pc = "over" /\ run'[r].snap = {} /\ run'[r].out = out
    <2>1. run'[r] = Closed(r, "over", out) /\ \A m \in Run \ {r} : run'[m] = run[m]
      BY <1>a DEF RunType
    <2> QED
      BY <1>a, <2>1, ClosedType
  <1>2. ~Has(r)' /\ TicketOK(r)' /\ run'[r].pc \notin Pausing /\ SnapOK(r)' /\ EndOK(r)' /\ ~Unadded(r)'
    BY <1>1, PlacesApart DEF Has, TicketOK, SnapOK, EndOK, Unadded
  <1>3. lock' = lock \/ (Mine(r) /\ \A m \in Run \ {r} : ~Held(By("turn", m))')
    BY DEF Held, By
  <1>4. lock' # Ready => \A m \in Run : m \in lock'.shot => Known(m)
    BY DEF Known
  <1>5. \A m \in Run : m \in run'[r].snap => Known(m)
    BY <1>1
  <1>6. LandedKept'
    <2>1. CASE lock' = lock /\ out \notin {"done", "gate"}
      <3>1. ASSUME NEW m \in edits', Landed(m)' PROVE m \in edits /\ Landed(m)
        <4>1. m \in Run
          BY <3>1 DEF TypesOK, LockType
        <4> QED
          BY <1>1, <2>1, <3>1, <4>1 DEF Landed
      <3> QED
        BY <1>a, <2>1, <3>1 DEF LandedKept
    <2>2. CASE lock' = Ready \/ lock'.key.kind = "gate"
      BY <2>2 DEF LandedKept
    <2> QED
      BY <2>1, <2>2
  <1> QED
    BY <1>1, <1>2, <1>3, <1>4, <1>5, <1>6, StepKeeps

\* What a Stop puts back is without its own run.
LEMMA RestoreIs ==
    ASSUME Core, NEW r \in Run, edits' = Restore(run[r].snap)
    PROVE  edits' \subseteq edits /\ r \notin edits'
  BY DEF Core, Snaps, SnapOK, Restore

LEMMA StartKeeps ==
    ASSUME TypesOK, Core, NEW r \in Run, TakeVideo(r) \/ MakeJob(r) \/ HandTurn(r) \/ ForgetClicks(r) \/ ShowRunning(r)
                                         \/ Submit(r)
    PROVE  Core'
  <1>a. HasLock /\ OneHas /\ Tickets /\ OnHold /\ RunType /\ LandedKept /\ NotYet /\ run[r] \in Runs /\ LockType
    BY DEF Core, TypesOK, RunType
  <1>1. CASE TakeVideo(r)
    <2>1. "taken" \in Places /\ Go(r, "taken") /\ run[r] = Fresh(r) /\ Mine(r) /\ run[r].pc = "new"
      BY <1>1, <1>a, PlacesAre, NobodyHas DEF TakeVideo, Tickets, TicketOK
    <2>2. /\ \A m \in Run \ {r} : run'[m] = run[m]
          /\ run'[r].pc = "taken" /\ run'[r].turn = r /\ run'[r].ticket = By("req", r) /\ run'[r].snap = {}
      BY <1>a, <2>1, RunGo, FreshType
    <2>3. lock' = [key |-> By("req", r), shot |-> {}] /\ edits' = edits /\ holding' = holding
      BY <1>1 DEF TakeVideo, server
    <2>4. lock' # Ready /\ lock'.key = By("req", r) /\ lock'.shot = {}
      <3>1. lock' \in Row
        BY <2>3, ByKey DEF Row
      <3> QED
        BY <2>3, <3>1, ReadyAssumption
    <2>5. \A m \in Run : ~Held(By("turn", m))'
      BY <2>4 DEF Held, By
    <2>6. Has(r)' /\ Held(KeyOf(r))' /\ TicketOK(r)' /\ SnapOK(r)' /\ EndOK(r)' /\ run'[r].pc \notin Pausing
      BY <2>2, <2>4, PlacesApart DEF Has, KeyOf, Held, TicketOK, SnapOK, EndOK
    <2>7. Unadded(r)
      BY <2>1 DEF Unadded
    <2>8. LandedKept'
      BY <2>4 DEF LandedKept, By
    <2> QED
      BY <2>1, <2>2, <2>3, <2>4, <2>5, <2>6, <2>7, <2>8, StepKeeps
  <1>2. CASE MakeJob(r)
    <2>1. run[r].pc = "taken" /\ Has(r) /\ edits' = edits /\ holding' = holding
      BY <1>2, PlacesApart DEF MakeJob, Has, server
    <2>2. CASE Go(r, "made") /\ lock' = lock
      BY <2>1, <2>2, PlacesApart, GoKeeps
    <2>3. CASE run' = [run EXCEPT ![r] = Closed(r, "over", "none")] /\ lock' = Release(By("req", r))
      <3>1. Mine(r) /\ Held(By("req", r))
        BY <1>a, <2>1, HasIsAlone, KeyKinds
      <3>2. lock' = Ready
        BY <2>3, <3>1 DEF Release
      <3> QED
        BY <2>1, <2>3, <3>1, <3>2, EndKeeps DEF Outs
    <2> QED
      BY <1>2, <2>2, <2>3 DEF MakeJob
  <1>3. CASE HandTurn(r)
    <2> DEFINE shot == IF run[r].ticket.kind = "pause" THEN run[r].snap ELSE edits
               x == [run[r] EXCEPT !.pc = "handed", !.snap = shot]
    <2>1. run[r].pc = "made" /\ run' = [run EXCEPT ![r] = x] /\ edits' = edits /\ holding' = holding
      BY <1>3 DEF HandTurn, server
    <2>2. x.pc = "handed" /\ x.turn = run[r].turn /\ x.ticket = run[r].ticket /\ x.snap = shot
      BY <1>a DEF Runs
    <2>3. Has(r) /\ Mine(r) /\ Held(run[r].ticket) /\ TicketOK(r)
      <3>1. Has(r) /\ KeyOf(r) = run[r].ticket
        BY <2>1, PlacesApart DEF Has, KeyOf
      <3> QED
        BY <1>a, <3>1, HasIsAlone DEF Tickets
    <2>4. lock' = [key |-> By("turn", r), shot |-> shot]
      BY <1>3, <2>3 DEF HandTurn
    <2>5. shot \in SUBSET Run
      BY <1>a DEF LockType, Runs
    <2>6. shot = edits \/ (shot = run[r].snap /\ shot = lock.shot /\ lock.key.kind = "pause" /\ "resume" \in Clicks
                           /\ lock # Ready)
      BY <2>1, <2>3, PlacesApart DEF TicketOK, Held, By
    <2>7. run[r].ticket.kind = "pause" => "resume" \in Clicks
      BY <2>1, <2>3, PlacesApart DEF TicketOK, By
    <2>8. ~Known(r)
      BY <1>a, <2>1, PlacesApart DEF NotYet, Known, Unadded
    <2> HIDE DEF x, shot
    <2>9. run'[r] = x /\ \A m \in Run \ {r} : run'[m] = run[m]
      BY <1>a, <2>1 DEF RunType
    <2>10. lock' # Ready /\ lock'.key = By("turn", r) /\ lock'.shot = shot
      <3>1. lock' \in Row
        BY <2>4, <2>5, ByKey DEF Row
      <3> QED
        BY <2>4, <3>1, ReadyAssumption
    <2>11. \A m \in Run : m \in shot => Known(m)
      BY <2>6 DEF Known
    <2>12. \A m \in Run \ {r} : ~Held(By("turn", m))'
      BY <2>10 DEF Held, By
    <2>13. Has(r)' /\ Held(KeyOf(r))' /\ EndOK(r)' /\ run'[r].pc \notin Pausing
      BY <2>2, <2>9, <2>10, PlacesApart DEF Has, KeyOf, Held, EndOK
    <2>14. TicketOK(r)' /\ SnapOK(r)'
      BY <2>2, <2>7, <2>8, <2>9, <2>10, <2>11, PlacesApart DEF TicketOK, SnapOK
    <2>15. Unadded(r)
      BY <2>1, PlacesApart DEF Unadded
    <2>16. LandedKept'
      <3>1. ASSUME NEW m \in edits', Landed(m)' PROVE m \in shot
        <4>1. m \in Run
          BY <2>1, <3>1 DEF TypesOK, LockType
        <4>2. m # r /\ Landed(m)
          BY <2>2, <2>9, <3>1, <4>1 DEF Landed
        <4> QED
          BY <1>a, <2>1, <2>6, <3>1, <4>2 DEF LandedKept
      <3> QED
        BY <2>10, <3>1 DEF LandedKept
    <2> QED
      BY <2>1, <2>2, <2>3, <2>9, <2>10, <2>11, <2>12, <2>13, <2>14, <2>15, <2>16, StepKeeps
  <1>4. CASE ForgetClicks(r)
    <2>1. Go(r, "cleared") /\ run[r].pc = "handed" /\ lock' = lock /\ edits' = edits /\ holding' = holding
      BY <1>4 DEF ForgetClicks
    <2>2. Has(r)
      BY <2>1, PlacesApart DEF Has
    <2> QED
      BY <2>1, <2>2, PlacesApart, GoKeeps
  <1>5. CASE ShowRunning(r)
    <2>1. Go(r, "shown") /\ run[r].pc = "cleared" /\ lock' = lock /\ edits' = edits /\ holding' = holding
      BY <1>5 DEF ShowRunning, server
    <2>2. Has(r)
      BY <2>1, PlacesApart DEF Has
    <2> QED
      BY <2>1, <2>2, PlacesApart, GoKeeps
  <1>6. CASE Submit(r)
    <2>1. run[r].pc = "shown" /\ Has(r) /\ edits' = edits /\ holding' = holding
      BY <1>6, PlacesApart DEF Submit, Has, server
    <2>2. CASE Go(r, "point") /\ lock' = lock
      BY <2>1, <2>2, PlacesApart, GoKeeps
    <2>3. CASE run' = [run EXCEPT ![r] = Closed(r, "over", "error")] /\ lock' = Release(By("turn", r))
      <3>1. Mine(r) /\ Held(By("turn", r))
        BY <1>a, <2>1, HasIsAlone, PlacesApart DEF KeyOf
      <3>2. lock' = Ready
        BY <2>3, <3>1 DEF Release
      <3> QED
        BY <2>1, <2>3, <3>1, <3>2, EndKeeps DEF Outs
    <2> QED
      BY <1>6, <2>2, <2>3 DEF Submit
  <1> QED
    BY <1>1, <1>2, <1>3, <1>4, <1>5, <1>6

LEMMA LoopKeeps ==
    ASSUME TypesOK, Core, NEW r \in Run, Point(r) \/ Check(r) \/ Step(r) \/ Told(r)
    PROVE  Core'
  <1>a. HasLock /\ OneHas /\ Tickets /\ OnHold /\ RunType /\ run[r] \in Runs /\ run \in [Run -> Runs] /\ TicketOK(r)
    BY DEF Core, TypesOK, RunType, Tickets
  <1>h. Has(r) /\ run[r].pc \in OnTurn /\ run[r].pc \in Looping /\ KeyOf(r) = By("turn", r) /\ Held(By("turn", r))
    <2>1. run[r].pc \in Looping
      BY DEF Point, Check, Step, Told, Looping
    <2>2. Has(r) /\ KeyOf(r) = By("turn", r)
      BY <2>1, PlacesApart DEF Has, KeyOf, Looping
    <2> QED
      BY <1>a, <2>1, <2>2, HasIsAlone, PlacesApart DEF Looping
  <1>l. lock' = lock
    BY DEF Point, Check, Step, Told
  <1>1. CASE Point(r)
    <2>1. \E pc \in {"hold", "check"} : Go(r, pc) /\ (pc = "hold" => run[r].turn \in holding')
      BY <1>1 DEF Point
    <2>2. holding \subseteq holding' /\ edits' = edits /\ run[r].pc = "point"
      BY <1>1 DEF Point
    <2>3. ASSUME NEW pc \in {"hold", "check"}, Go(r, pc), pc = "hold" => run[r].turn \in holding'
          PROVE  Core'
      BY <1>h, <1>l, <2>2, <2>3, PlacesApart, GoKeeps
    <2> QED
      BY <2>1, <2>3
  <1>2. CASE Check(r) /\ Go(r, "step")
    <2>1. run[r].pc = "check" /\ edits' = edits /\ holding' = holding
      BY <1>2 DEF Check, server
    <2> QED
      BY <1>h, <1>l, <1>2, <2>1, PlacesApart, GoKeeps
  <1>3. ASSUME \A m \in Run \ {r} : run'[m] = run[m], edits' \subseteq edits \cup {r}, holding' = holding,
               run'[r].snap = run[r].snap, run'[r].turn = run[r].turn,
               run'[r].pc \in {"outcome", "told", "point", "final"}, run'[r].pc = "final" => run'[r].out = "error"
        PROVE  Core'
    <2>1. Has(r)' => Has(r) /\ KeyOf(r)' = KeyOf(r)
      BY <1>h, <1>3, PlacesApart DEF Has, KeyOf
    <2>2. TicketOK(r)' /\ run'[r].pc \notin Pausing /\ ~Landed(r)' /\ ~Unadded(r)'
      BY <1>3, PlacesApart DEF TicketOK, Landed, Unadded
    <2>3. EndOK(r)'
      BY <1>3, PlacesApart DEF EndOK
    <2> QED
      BY <1>h, <1>l, <1>3, <2>1, <2>2, <2>3, StaysKeeps
  <1>4. CASE Check(r) /\ run' = [run EXCEPT ![r].pc = "outcome", ![r].out = "stopped"]
    BY <1>a, <1>3, <1>4 DEF Check, Runs, server
  <1>5. CASE Step(r)
    <2>1. edits' \subseteq edits \cup {r} /\ holding' = holding
      BY <1>5 DEF Step, server
    <2>2. \/ run' = [run EXCEPT ![r].pc = "told", ![r].calls = @ - 1, ![r].seen = view]
          \/ \E out \in {"done", "gate", "error"} :
                run' = [run EXCEPT ![r].out = out, ![r].pc = IF out = "error" THEN "final" ELSE "outcome"]
      BY <1>5 DEF Step
    <2> QED
      BY <1>a, <1>3, <2>1, <2>2 DEF Runs
  <1>6. CASE Told(r)
    BY <1>a, <1>3, <1>6 DEF Told, Runs, server
  <1> QED
    BY <1>1, <1>2, <1>4, <1>5, <1>6 DEF Check

LEMMA PauseKeeps ==
    ASSUME TypesOK, Core, NEW r \in Run,
           Hold(r) \/ ShowPaused(r) \/ HoldEnds(r) \/ TakeBack(r) \/ ShowBack(r) \/ Unhold(r) \/ HoldFails(r)
    PROVE  Core'
  <1>a. /\ HasLock /\ OneHas /\ Tickets /\ OnHold /\ RunType /\ run[r] \in Runs /\ run \in [Run -> Runs] /\ TicketOK(r)
        /\ LandedKept /\ LockType /\ SnapOK(r)
    BY DEF Core, TypesOK, RunType, Tickets, Snaps
  <1>h. /\ Has(r) /\ Mine(r) /\ Held(KeyOf(r)) /\ run[r].pc \in Pausing /\ run[r].turn \in holding
        /\ run[r].pc \in OnTurn \cup OnPause /\ run[r].turn \in Run
    <2>1. run[r].pc \in Pausing
      BY DEF Hold, ShowPaused, HoldEnds, TakeBack, ShowBack, Unhold, HoldFails, Pausing
    <2>2. Has(r) /\ run[r].pc \in OnTurn \cup OnPause
      BY <2>1, PlacesApart DEF Has
    <2> QED
      BY <1>a, <2>1, <2>2, HasIsAlone DEF OnHold, Runs
  <1>k. KeyOf(r) = IF run[r].pc \in {"hold", "back", "unhold"} THEN By("turn", r) ELSE By("pause", run[r].turn)
    BY <1>h, PlacesApart DEF KeyOf
  <1>1. ASSUME \/ Go(r, "holding") /\ run[r].pc = "hold" /\ lock' = Hand(By("turn", r), By("pause", run[r].turn))
               \/ Go(r, "back") /\ run[r].pc = "leave" /\ lock' = Hand(By("pause", run[r].turn), By("turn", r)),
               edits' = edits, holding' = holding
        PROVE  Core'
    <2> DEFINE new == IF run[r].pc = "hold" THEN By("pause", run[r].turn) ELSE By("turn", r)
               pc == IF run[r].pc = "hold" THEN "holding" ELSE "back"
    <2>1. pc \in Places /\ Go(r, pc) /\ pc \in {"holding", "back"} /\ pc \in Pausing
      BY <1>1, PlacesAre
    <2>2. lock' = Hand(KeyOf(r), new) /\ new \in Key
      BY <1>1, <1>h, <1>k, ByKey
    <2>3. lock # Ready /\ lock' # Ready /\ lock'.key = new /\ lock'.shot = lock.shot /\ lock.key = KeyOf(r)
      BY <1>a, <1>h, <2>2, HandIs DEF Held
    <2>4. /\ \A m \in Run \ {r} : run'[m] = run[m]
          /\ run'[r].pc = pc /\ run'[r].turn = run[r].turn /\ run'[r].ticket = run[r].ticket
          /\ run'[r].snap = run[r].snap /\ run'[r].out = run[r].out
      BY <1>a, <2>1, RunGo
    <2>5. KeyOf(r)' = new /\ Has(r)'
      BY <1>1, <2>4, PlacesApart DEF KeyOf, Has
    <2>6. \A m \in Run \ {r} : ~Held(By("turn", m))'
      BY <2>3 DEF Held, By
    <2>7. Held(KeyOf(r))'
      BY <2>3, <2>5 DEF Held
    <2>8. TicketOK(r)' /\ EndOK(r)' /\ ~Unadded(r)' /\ SnapOK(r)'
      BY <1>a, <1>h, <2>1, <2>3, <2>4, PlacesApart DEF TicketOK, EndOK, Unadded, SnapOK
    <2>9. LandedKept'
      <3>1. lock.key.kind \in {"turn", "pause"}
        BY <1>k, <2>3 DEF By
      <3>2. ASSUME NEW m \in edits', Landed(m)' PROVE m \in lock'.shot
        <4>1. m \in Run
          BY <1>1, <1>a, <3>2 DEF LockType
        <4>2. Landed(m)
          BY <2>1, <2>4, <3>2, <4>1 DEF Landed
        <4> QED
          BY <1>1, <1>a, <2>3, <3>1, <3>2, <4>2 DEF LandedKept
      <3> QED
        BY <3>2 DEF LandedKept
    <2> HIDE DEF new, pc
    <2> QED
      BY <1>1, <1>h, <2>1, <2>3, <2>4, <2>5, <2>6, <2>7, <2>8, <2>9, StepKeeps DEF Known
  <1>2. CASE Hold(r)
    <2>1. Held(By("turn", r)) /\ run[r].pc = "hold"
      BY <1>2, <1>h, <1>k DEF Hold
    <2>2. Go(r, "holding") /\ lock' = Hand(By("turn", r), By("pause", run[r].turn)) /\ edits' = edits /\ holding' = holding
      BY <1>2, <2>1 DEF Hold
    <2> QED
      BY <1>1, <2>1, <2>2
  <1>3. CASE TakeBack(r)
    BY <1>1, <1>3 DEF TakeBack, server
  <1>4. CASE ShowPaused(r)
    <2>1. Go(r, "held") /\ run[r].pc = "holding" /\ lock' = lock /\ edits' = edits /\ holding' = holding
      BY <1>4 DEF ShowPaused, server
    <2> QED
      BY <1>h, <2>1, PlacesApart, GoKeeps
  <1>5. CASE ShowBack(r)
    <2>1. Go(r, "unhold") /\ run[r].pc = "back" /\ lock' = lock /\ edits' = edits /\ holding' = holding
      BY <1>5 DEF ShowBack, server
    <2> QED
      BY <1>h, <2>1, PlacesApart, GoKeeps
  <1>6. ASSUME \A m \in Run \ {r} : run'[m] = run[m], edits' = edits, lock' = lock,
               run'[r].snap = run[r].snap, run'[r].turn = run[r].turn,
               \/ run'[r].pc = "leave" /\ run[r].pc = "held" /\ holding' = holding
               \/ run'[r].pc = "check" /\ run[r].pc = "unhold"
               \/ run'[r].pc = "final" /\ run'[r].out = "error"
        PROVE  Core'
    <2>1. Has(r)' => Has(r) /\ KeyOf(r)' = KeyOf(r)
      BY <1>h, <1>6, PlacesApart DEF Has, KeyOf
    <2>2. TicketOK(r)' /\ ~Landed(r)' /\ ~Unadded(r)' /\ EndOK(r)' /\ (run'[r].pc \in Pausing => holding' = holding)
      BY <1>6, PlacesApart DEF TicketOK, Landed, Unadded, EndOK
    <2> QED
      BY <1>h, <1>6, <2>1, <2>2, StaysKeeps
  <1>7. CASE HoldEnds(r)
    <2>1. PICK b \in BOOLEAN : run' = [run EXCEPT ![r].pc = "leave", ![r].halted = b]
      BY <1>7 DEF HoldEnds
    <2> QED
      BY <1>a, <1>6, <1>7, <2>1 DEF HoldEnds, Runs
  <1>8. CASE Unhold(r)
    BY <1>a, <1>6, <1>8 DEF Unhold, Runs
  <1>9. CASE HoldFails(r)
    BY <1>a, <1>6, <1>9 DEF HoldFails, Runs
  <1> QED
    BY <1>2, <1>3, <1>4, <1>5, <1>7, <1>8, <1>9

LEMMA FinishKeeps ==
    ASSUME TypesOK, Core, NEW r \in Run, Outcome(r) \/ Final(r) \/ Close(r) \/ ShowEnd(r) \/ LetGo(r) \/ Fail(r)
    PROVE  Core'
  <1>a. /\ HasLock /\ OneHas /\ Tickets /\ RunType /\ run[r] \in Runs /\ run \in [Run -> Runs] /\ EndOK(r)
        /\ LockType /\ SnapOK(r)
    BY DEF Core, TypesOK, RunType, Ends, Snaps
  <1>1. ASSUME \A m \in Run \ {r} : run'[m] = run[m], lock' = lock, holding' = holding, edits' \subseteq edits,
               run'[r].snap = run[r].snap, run'[r].pc \in Finishing,
               \/ run[r].pc = "outcome"
               \/ run[r].pc \in Finishing /\ run'[r].out \in {run[r].out, "stopped"},
               run'[r].out = "stopped" => r \notin edits'
        PROVE  Core'
    <2>1. ~Has(r)' /\ TicketOK(r)' /\ ~Landed(r)' /\ ~Unadded(r)' /\ run'[r].pc \notin Pausing
          /\ run'[r].pc \notin OnTurn \cup OnPause
      BY <1>1, PlacesApart DEF Has, TicketOK, Landed, Unadded
    <2>2. EndOK(r)'
      <3>1. CASE run[r].pc = "outcome"
        <4>1. Has(r) /\ KeyOf(r) = By("turn", r)
          BY <3>1, PlacesApart DEF Has, KeyOf
        <4>2. Held(By("turn", r))
          BY <1>a, <4>1, HasIsAlone
        <4>3. Held(By("turn", r))'
          BY <1>1, <4>2 DEF Held
        <4> QED
          BY <1>1, <4>3, PlacesApart DEF EndOK
      <3>2. CASE run[r].pc \in Finishing /\ run'[r].out \in {run[r].out, "stopped"}
        <4>1. Held(By("turn", r))' = Held(By("turn", r))
          BY <1>1 DEF Held
        <4> QED
          BY <1>a, <1>1, <3>2, <4>1, PlacesApart DEF EndOK
      <3> QED
        BY <1>1, <3>1, <3>2
    <2>3. run[r].pc \in Finishing \cup OnTurn \cup OnPause
      BY <1>1, PlacesApart
    <2> QED
      BY <1>1, <2>1, <2>2, <2>3, StaysKeeps
  <1>2. CASE Outcome(r)
    <2>1. lock' = lock /\ holding' = holding /\ run[r].pc = "outcome"
      BY <1>2 DEF Outcome, server
    <2>2. CASE edits' = Restore(run[r].snap) /\ run' = [run EXCEPT ![r].pc = "final", ![r].out = "stopped"]
      <3>1. edits' \subseteq edits /\ r \notin edits'
        BY <2>2, RestoreIs
      <3> QED
        BY <1>a, <1>1, <2>1, <2>2, <3>1, PlacesApart DEF Runs
    <2>3. CASE edits' = edits /\ Go(r, "final") /\ run[r].out # "stopped"
      BY <1>a, <1>1, <2>1, <2>3, PlacesApart DEF Runs, Go
    <2> QED
      BY <1>2, <2>2, <2>3 DEF Outcome
  <1>3. CASE Final(r)
    <2>1. lock' = lock /\ holding' = holding /\ run[r].pc = "final"
      BY <1>3 DEF Final, server
    <2> DEFINE b == run[r].turn \in stops
               out == IF b THEN "stopped" ELSE run[r].out
    <2>2. run' = [run EXCEPT ![r].pc = "close", ![r].halted = b, ![r].out = out]
      BY <1>3 DEF Final
    <2>3. (b /\ edits' = Restore(run[r].snap)) \/ (~b /\ edits' = edits)
      BY <1>3 DEF Final
    <2>4. edits' \subseteq edits /\ (out = "stopped" => r \notin edits') /\ out \in {run[r].out, "stopped"}
      BY <1>a, <2>1, <2>3, RestoreIs, PlacesApart DEF EndOK
    <2> HIDE DEF b, out
    <2>5. run'[r].snap = run[r].snap /\ run'[r].pc = "close" /\ run'[r].out = out /\ \A m \in Run \ {r} : run'[m] = run[m]
      BY <1>a, <2>2 DEF Runs
    <2> QED
      BY <1>1, <2>1, <2>4, <2>5, PlacesApart
  <1>4. CASE Close(r) \/ ShowEnd(r)
    <2>1. lock' = lock /\ holding' = holding /\ edits' = edits /\ run[r].pc \in {"close", "shut"}
      BY <1>4 DEF Close, ShowEnd, server
    <2>2. \E pc \in {"shut", "letgo"} : Go(r, pc)
      BY <1>4 DEF Close, ShowEnd
    <2>3. run[r].out = "stopped" => r \notin edits
      BY <1>a, <2>1, PlacesApart DEF EndOK
    <2> QED
      BY <1>a, <1>1, <2>1, <2>2, <2>3, PlacesApart DEF Runs, Go
  <1>5. CASE LetGo(r) \/ Fail(r)
    <2>1. run[r].pc \in Finishing /\ edits' = edits /\ holding' = holding
      BY <1>5, PlacesApart DEF LetGo, Fail, server
    <2>2. PICK out \in Outs : /\ run' = [run EXCEPT ![r] = Closed(r, "over", out)]
                              /\ out = run[r].out \/ (out \in {"error", "stopped"} /\ (out = "stopped" => run[r].out = "stopped"))
      <3>1. run[r].out \in Outs
        BY <1>a DEF Runs
      <3>2. LetGo(r) => run' = [run EXCEPT ![r] = Closed(r, "over", run[r].out)]
        BY DEF LetGo
      <3>3. Fail(r) => run' = [run EXCEPT ![r] = Closed(r, "over", IF run[r].out = "stopped" THEN "stopped" ELSE "error")]
        BY DEF Fail
      <3>4. "stopped" \in Outs /\ "error" \in Outs
        BY DEF Outs
      <3> QED
        BY <1>5, <3>1, <3>2, <3>3, <3>4
    <2>3. out = "stopped" => r \notin edits
      BY <1>a, <2>1, <2>2 DEF EndOK
    <2>4. CASE Held(By("turn", r))
      <3>1. Mine(r) /\ lock # Ready
        BY <1>a, <2>4, HeldIsAlone DEF Held
      <3>2. lock' = Ready \/ lock' = Hand(By("turn", r), By("gate", run[r].turn))
        BY <1>5, <2>4 DEF LetGo, Fail, Release
      <3>3. run[r].turn \in Run
        BY <1>a DEF Runs
      <3>4. lock' = Ready \/ (lock' # Ready /\ lock'.shot = lock.shot /\ lock'.key.kind = "gate")
        BY <1>a, <2>4, <3>2, <3>3, HandIs, ByKey
      <3> QED
        BY <2>1, <2>2, <2>3, <3>1, <3>4, EndKeeps
    <2>5. CASE ~Held(By("turn", r))
      <3>1. lock' = lock
        BY <1>5, <2>5 DEF LetGo, Fail, Release, Hand
      <3>2. out \notin {"done", "gate"}
        BY <1>a, <2>1, <2>2, <2>5 DEF EndOK
      <3> QED
        BY <2>1, <2>2, <2>3, <3>1, <3>2, EndKeeps
    <2> QED
      BY <2>4, <2>5
  <1> QED
    BY <1>2, <1>3, <1>4, <1>5

LEMMA CoreRunStep == ASSUME TypesOK, Core, NEW r \in Run, RunStep(r) PROVE Core'
  BY StartKeeps, LoopKeeps, PauseKeeps, FinishKeeps DEF RunStep

\* Steps of the routes: they may shrink the edit set, and drop a row nobody has.
LEMMA ShrinkKeeps ==
    ASSUME Core, run' = run, lock' = lock, holding \subseteq holding', edits' \subseteq edits
    PROVE  Core'
  <1>a. HasLock /\ OneHas /\ Tickets /\ OnHold /\ Snaps /\ Ends /\ NotYet /\ LandedKept
    BY DEF Core
  <1>1. HasLock' /\ OneHas' /\ OnHold'
    BY <1>a DEF HasLock, OneHas, OnHold, Has, KeyOf, Held
  <1>2. Tickets' /\ Snaps'
    BY <1>a DEF Tickets, TicketOK, Snaps, SnapOK, Held
  <1>3. Ends' /\ NotYet' /\ LandedKept'
    BY <1>a DEF Ends, EndOK, NotYet, Unadded, LandedKept, Landed, Held
  <1> QED
    BY <1>1, <1>2, <1>3 DEF Core

LEMMA DropKeeps ==
    ASSUME Core, NoneHas, run' = run, holding' = holding, edits' = edits, lock' = Ready,
           \A r \in Run : ~Held(By("turn", r))
    PROVE  Core'
  <1>a. HasLock /\ OneHas /\ Tickets /\ OnHold /\ Snaps /\ Ends /\ NotYet /\ LandedKept
    BY DEF Core
  <1>1. HasLock' /\ OneHas' /\ OnHold'
    BY <1>a DEF HasLock, OneHas, OnHold, Has, NoneHas
  <1>2. Tickets'
    <2>1. \A r \in Run : run[r].pc \notin OnTicket
      BY DEF NoneHas, Has
    <2> QED
      BY <1>a, <2>1 DEF Tickets, TicketOK
  <1>3. Snaps'
    <2>1. \A r \in Run : run[r].pc \notin OnTurn \cup OnPause /\ ~Held(By("turn", r))'
      BY DEF NoneHas, Has, Held
    <2> QED
      BY <1>a, <2>1 DEF Snaps, SnapOK
  <1>4. Ends'
    BY <1>a DEF Ends, EndOK
  <1>5. NotYet' /\ LandedKept'
    BY <1>a DEF NotYet, Unadded, LandedKept
  <1> QED
    BY <1>1, <1>2, <1>3, <1>4, <1>5 DEF Core

\* The routes and the watcher, and what passes with time.
\* Reading, marking, asking and putting back.
LEMMA CoreLooks ==
    ASSUME Core, \/ StopClick \/ StopLook \/ StopPut \/ StopVideo \/ StopMark \/ PauseClick \/ PauseAsk \/ PauseMark
                 \/ ResumeClick \/ ResumeMark \/ ResumeLook \/ WatchRead \/ WatchLook \/ WatchPut \/ LookAtView
                 \/ Deadline \/ UNCHANGED vars
    PROVE  Core'
  <1>1. run' = run /\ lock' = lock /\ holding' = holding /\ edits' \subseteq edits
    BY DEF StopClick, StopLook, StopPut, StopVideo, StopMark, PauseClick, PauseAsk, PauseMark, ResumeClick, ResumeMark,
       ResumeLook, WatchRead, WatchLook, WatchPut, LookAtView, Deadline, vars, server, PutBack, Restore
  <1> QED
    BY <1>1, ShrinkKeeps

LEMMA CoreAnswer ==
    ASSUME Core, StopAnswer
    PROVE  Core'
  <1>1. run' = run /\ holding' = holding /\ edits' = edits
    BY DEF StopAnswer, server
  <1>2. CASE lock' = lock
    BY <1>1, <1>2, ShrinkKeeps
  <1>3. CASE lock' # lock
    <2>1. lock' = Ready /\ GateRow(lock)
      BY <1>3 DEF StopAnswer, Release, Held, GateRow
    <2>2. NoneHas
      BY <2>1, NobodyHas DEF Core
    <2>3. \A r \in Run : ~Held(By("turn", r))
      BY <2>1 DEF GateRow, Held, By
    <2> QED
      BY <1>1, <2>1, <2>2, <2>3, DropKeeps
  <1> QED
    BY <1>2, <1>3

LEMMA CoreServer ==
    ASSUME TypesOK, Core, DownIsQuiet, Crash \/ Restart
    PROVE  Core'
  <1>a. HasLock /\ OneHas /\ Tickets /\ OnHold /\ Snaps /\ Ends /\ NotYet /\ LandedKept /\ RunType
    BY DEF Core, TypesOK
  <1>1. CASE Crash
    <2>e. lock' = lock /\ edits' = edits
      BY <1>1 DEF Crash
    <2>1. ASSUME NEW m \in Run
          PROVE  \/ run'[m] = run[m] /\ run[m].pc \in {"new", "over"}
                 \/ run'[m].pc = "lost" /\ run'[m].snap = {}
      <3>1. run'[m] = IF run[m].pc \in {"new", "over"} THEN run[m] ELSE Closed(m, "lost", "none")
        BY <1>1 DEF Crash
      <3> QED
        BY <1>a, <3>1, ClosedType DEF Outs
    <2>2. HasLock' /\ OneHas' /\ OnHold'
      <3>1. \A m \in Run : ~Has(m)' /\ run'[m].pc \notin Pausing
        BY <2>1, PlacesApart DEF Has
      <3> QED
        BY <3>1 DEF HasLock, OneHas, OnHold
    <2>3. ASSUME NEW m \in Run PROVE TicketOK(m)' /\ SnapOK(m)' /\ EndOK(m)'
      <3>1. TicketOK(m) /\ SnapOK(m) /\ EndOK(m)
        BY <1>a DEF Tickets, Snaps, Ends
      <3> QED
        BY <2>1, <2>e, <3>1, PlacesApart DEF TicketOK, SnapOK, EndOK
    <2>4. NotYet'
      <3>1. ASSUME NEW m \in Run, Unadded(m)'
            PROVE  m \notin edits' /\ (lock' # Ready => m \notin lock'.shot) /\ \A k \in Run : m \notin run'[k].snap
        <4>1. Unadded(m)
          BY <2>1, <3>1, PlacesApart DEF Unadded
        <4> QED
          BY <1>a, <2>1, <2>e, <4>1 DEF NotYet
      <3> QED
        BY <3>1 DEF NotYet
    <2>5. LandedKept'
      <3>1. \A m \in edits' : Landed(m)' => Landed(m)
        <4>1. edits \subseteq Run
          BY DEF TypesOK, LockType
        <4> QED
          BY <2>1, <2>e, <4>1 DEF Landed
      <3> QED
        BY <1>a, <2>e, <3>1 DEF LandedKept
    <2> QED
      BY <2>2, <2>3, <2>4, <2>5 DEF Core, Tickets, Snaps, Ends
  <1>2. CASE Restart
    <2>e. run' = run /\ edits' = edits /\ holding' = holding
      BY <1>2 DEF Restart, server
    <2>1. \A m \in Run : run[m].pc \in {"new", "over", "lost"}
      BY <1>2 DEF Restart, DownIsQuiet
    <2>2. HasLock' /\ OneHas' /\ OnHold'
      <3>1. \A m \in Run : ~Has(m)' /\ run'[m].pc \notin Pausing
        BY <2>1, <2>e, PlacesApart DEF Has
      <3> QED
        BY <3>1 DEF HasLock, OneHas, OnHold
    <2>3. ASSUME NEW m \in Run PROVE TicketOK(m)' /\ SnapOK(m)' /\ EndOK(m)'
      <3>1. TicketOK(m) /\ SnapOK(m) /\ EndOK(m)
        BY <1>a DEF Tickets, Snaps, Ends
      <3> QED
        BY <2>1, <2>e, <3>1, PlacesApart DEF TicketOK, SnapOK, EndOK
    <2>4. NotYet' /\ LandedKept'
      BY <1>2, <1>a, <2>e DEF NotYet, Unadded, LandedKept, Landed, Restart
    <2> QED
      BY <2>2, <2>3, <2>4 DEF Core, Tickets, Snaps, Ends
  <1> QED
    BY <1>1, <1>2

Buttons == {"stop", "pause", "resume", "watch"}

LEMMA RouteIs ==
    /\ Route["stop"] = stopper /\ Route["pause"] = pauser /\ Route["resume"] = resumer /\ Route["watch"] = watcher
    /\ (\A n \in Buttons : Route[n].pc = "idle") <=>
         stopper.pc = "idle" /\ pauser.pc = "idle" /\ resumer.pc = "idle" /\ watcher.pc = "idle"
  BY DEF Route, Buttons

LEMMA QuietNext ==
    ASSUME TypesOK, DownIsQuiet, [Next]_vars
    PROVE  DownIsQuiet'
  <1>1. CASE Crash
    <2>1. \A m \in Run : run'[m].pc \in {"new", "over", "lost"}
      <3>1. \A m \in Run : run'[m] = IF run[m].pc \in {"new", "over"} THEN run[m] ELSE Closed(m, "lost", "none")
        BY <1>1 DEF Crash
      <3> QED
        BY <3>1, ClosedType DEF TypesOK, Outs
    <2>2. \A n \in Buttons : Route'[n].pc = "idle"
      BY <1>1, NoViewType DEF Crash, Route, Buttons
    <2> QED
      BY <2>1, <2>2 DEF DownIsQuiet, Buttons
  <1>2. CASE Deadline \/ UNCHANGED vars
    BY <1>2 DEF Deadline, vars, clicks, machine, DownIsQuiet, Route
  <1>3. ASSUME NEW r \in Run, RunStep(r) PROVE up' = up /\ up
    <2>1. MayStep(r) /\ UNCHANGED up
      BY <1>3, RunStepTypes
    <2> QED
      BY <2>1 DEF MayStep
  <1>4. CASE StopClick \/ PauseClick \/ ResumeClick \/ WatchRead \/ RouteStep \/ LookAtView
    <2>1. up
      BY <1>4 DEF StopClick, PauseClick, ResumeClick, WatchRead, RouteStep, LookAtView, MayClick, At,
         StopLook, StopPut, StopDrop, StopVideo, StopMark, StopAnswer, PauseAsk, PauseMark, ResumeMark, ResumeLook,
         ResumeStart, WatchLook, WatchPut, WatchDrop
    <2>2. up' = up
      BY <1>4 DEF StopClick, PauseClick, ResumeClick, WatchRead, RouteStep, LookAtView, machine,
         StopLook, StopPut, StopDrop, StopVideo, StopMark, StopAnswer, PauseAsk, PauseMark, ResumeMark, ResumeLook,
         ResumeStart, WatchLook, WatchPut, WatchDrop
    <2> QED
      BY <2>1, <2>2 DEF DownIsQuiet
  <1>5. CASE Restart
    BY <1>5 DEF Restart, DownIsQuiet
  <1>6. ASSUME NEW r \in Run, RunStep(r) PROVE DownIsQuiet'
    BY <1>3, <1>6 DEF DownIsQuiet
  <1> QED
    BY <1>1, <1>2, <1>4, <1>5, <1>6 DEF Next

LEMMA InitCore == Init => Core /\ DownIsQuiet
  <1> SUFFICES ASSUME Init PROVE Core /\ DownIsQuiet
    OBVIOUS
  <1>1. \A r \in Run : run[r] = Fresh(r) /\ run[r].pc = "new" /\ run[r].snap = {}
    BY FreshType DEF Init
  <1>2. Core
    BY <1>1, PlacesApart DEF Init, Core, HasLock, OneHas, Has, Tickets, TicketOK, OnHold, Snaps, SnapOK, Ends, EndOK, NotYet,
       LandedKept
  <1>3. DownIsQuiet
    BY DEF Init, DownIsQuiet
  <1> QED
    BY <1>2, <1>3

------------------------------------------------------------------------------
(* What follows of the properties. *)

LEMMA UnderItsLock == HasLock => WorksUnderItsLock
  <1> SUFFICES ASSUME HasLock, NEW r \in Run, run[r].pc \in {"cleared", "shown", "outcome"} \cup Looping
               PROVE  Held(By("turn", r))
    BY DEF WorksUnderItsLock
  <1>1. Has(r) /\ KeyOf(r) = By("turn", r)
    BY PlacesApart DEF Has, KeyOf, Looping
  <1> QED
    BY <1>1 DEF HasLock

LEMMA PauseAdds ==
    ASSUME HasLock, [Next]_vars, PausedRow(lock)
    PROVE  edits' \subseteq edits
  <1>1. ASSUME NEW r \in Run, Step(r) PROVE FALSE
    <2>1. Held(By("turn", r))
      BY <1>1, UnderItsLock DEF Step, WorksUnderItsLock, Looping
    <2> QED
      BY <2>1 DEF PausedRow, Held, By
  <1>2. ASSUME NEW r \in Run, RunStep(r) PROVE edits' \subseteq edits
    BY <1>1, <1>2 DEF RunStep, TakeVideo, MakeJob, HandTurn, ForgetClicks, ShowRunning, Submit, Point, Check, Told, Hold,
       ShowPaused, HoldEnds, TakeBack, ShowBack, Unhold, Outcome, Final, Close, ShowEnd, LetGo, Fail, HoldFails, Restore
  <1>3. CASE StopPut \/ WatchPut
    BY <1>3 DEF StopPut, WatchPut, PutBack, Restore
  <1>4. (\E r \in Run : RunStep(r)) \/ StopPut \/ WatchPut \/ edits' = edits
    BY DEF Next, RouteStep, StopClick, StopLook, StopDrop, StopVideo, StopMark, StopAnswer, PauseClick, PauseAsk, PauseMark,
       ResumeClick, ResumeMark, ResumeLook, ResumeStart, WatchRead, WatchLook, WatchDrop, LookAtView, Deadline, Crash,
       Restart, vars
  <1> QED
    BY <1>2, <1>3, <1>4

------------------------------------------------------------------------------
(* Whatever overlaps: a turn that ended as stopped leaves nothing.         *)

\* Nothing knows a run that has added nothing yet, the row a Resume has in hand included.
ResumerKnows(m) == resumer.pc \in {"looked", "restart"} /\ m \in resumer.lock.shot
Unknown == \A m \in Run : Unadded(m) => ~Known(m) /\ ~ResumerKnows(m)

\* A snapshot is of the time before its run.
BeforeIt == \A r \in Run : r \notin run[r].snap

\* A run that ended as stopped left nothing.
LeftNothing(r) == run[r].pc \in Finishing \cup {"over"} /\ run[r].out = "stopped" => r \notin edits
AllClean == \A r \in Run : LeftNothing(r)

CleanInv == Unknown /\ BeforeIt /\ AllClean

\* A step of one run.
LEMMA StepCleans ==
    ASSUME CleanInv, NEW r \in Run, \A m \in Run \ {r} : run'[m] = run[m], resumer' = resumer,
           edits' \subseteq edits \cup {r}, Unadded(r)' => Unadded(r) /\ edits' \subseteq edits,
           lock' # Ready => \A m \in Run : m \in lock'.shot => Known(m),
           \A m \in Run : m \in run'[r].snap => Known(m),
           r \notin run'[r].snap, LeftNothing(r)'
    PROVE  CleanInv'
  <1>a. Unknown /\ BeforeIt /\ AllClean
    BY DEF CleanInv
  <1>1. ASSUME NEW m \in Run, Unadded(m)'
        PROVE  m \notin edits' /\ (lock' # Ready => m \notin lock'.shot) /\ (\A k \in Run : m \notin run'[k].snap)
               /\ ~ResumerKnows(m)'
    <2>1. Unadded(m)
      BY <1>1 DEF Unadded
    <2>2. ~Known(m) /\ ~ResumerKnows(m)
      BY <1>a, <2>1 DEF Unknown
    <2>3. m \notin edits'
      BY <1>1, <2>2 DEF Known
    <2>4. ASSUME NEW k \in Run PROVE m \notin run'[k].snap
      BY <2>2 DEF Known
    <2> QED
      BY <2>2, <2>3, <2>4 DEF ResumerKnows
  <1>2. Unknown'
    BY <1>1 DEF Unknown, Known
  <1>3. BeforeIt'
    BY <1>a DEF BeforeIt
  <1>4. ASSUME NEW m \in Run, m # r PROVE LeftNothing(m)'
    <2>1. LeftNothing(m) /\ run'[m] = run[m]
      BY <1>a, <1>4 DEF AllClean
    <2> QED
      BY <1>4, <2>1 DEF LeftNothing
  <1> QED
    BY <1>2, <1>3, <1>4 DEF CleanInv, AllClean

\* One whose snapshot and row hold nothing new.
LEMMA SameCleans ==
    ASSUME CleanInv, NEW r \in Run, \A m \in Run \ {r} : run'[m] = run[m], resumer' = resumer,
           edits' \subseteq edits \cup {r}, Unadded(r)' => Unadded(r) /\ edits' \subseteq edits,
           lock' # Ready => lock # Ready /\ lock'.shot = lock.shot,
           run'[r].snap \in {run[r].snap, {}}, LeftNothing(r)'
    PROVE  CleanInv'
  <1>1. lock' # Ready => \A m \in Run : m \in lock'.shot => Known(m)
    BY DEF Known
  <1>2. \A m \in Run : m \in run'[r].snap => Known(m)
    BY DEF Known
  <1>3. r \notin run'[r].snap
    BY DEF CleanInv, BeforeIt
  <1> QED
    BY <1>1, <1>2, <1>3, StepCleans

LEMMA RunStepCleans ==
    ASSUME TypesOK, CleanInv, NEW r \in Run, RunStep(r)
    PROVE  CleanInv'
  <1>t. RunType /\ run[r] \in Runs /\ run \in [Run -> Runs] /\ LockType /\ run[r].turn \in Run
    BY DEF TypesOK, RunType, Runs
  <1>o. run[r].out \in Outs /\ "stopped" \in Outs /\ "error" \in Outs /\ "none" \in Outs
    BY <1>t DEF Runs, Outs
  <1>s. (\A m \in Run \ {r} : run'[m] = run[m]) /\ resumer' = resumer
    BY RunStepTypes DEF clicks
  <1>a. Unknown /\ r \notin run[r].snap /\ LeftNothing(r)
    BY DEF CleanInv, BeforeIt, AllClean
  <1>g. ASSUME NEW pc \in Places, Go(r, pc)
        PROVE  run'[r].pc = pc /\ run'[r].snap = run[r].snap /\ run'[r].out = run[r].out
    BY <1>t, <1>g, RunGo
  <1>c. ASSUME NEW out \in Outs, run' = [run EXCEPT ![r] = Closed(r, "over", out)]
        PROVE  run'[r].pc = "over" /\ run'[r].snap = {} /\ run'[r].out = out
    <2>1. run'[r] = Closed(r, "over", out)
      BY <1>c, <1>t
    <2> QED
      BY <2>1, <1>t, ClosedType
  <1>p. Places = {"new", "over", "lost", "taken", "made", "handed", "cleared", "shown", "point", "check", "step", "told",
                  "hold", "holding", "held", "leave", "back", "unhold", "outcome", "final", "close", "shut", "letgo"}
    BY PlacesAre
  \* What a Hand and a Release leave of the row.
  <1>h. /\ \A key : Release(key) # Ready => lock # Ready /\ Release(key).shot = lock.shot
        /\ \A old, new \in Key : Hand(old, new) # Ready => lock # Ready /\ Hand(old, new).shot = lock.shot
    <2>1. \A key : Release(key) # Ready => lock # Ready /\ Release(key).shot = lock.shot
      BY DEF Release
    <2>2. ASSUME NEW old \in Key, NEW new \in Key, Hand(old, new) # Ready
          PROVE  lock # Ready /\ Hand(old, new).shot = lock.shot
      <3>1. CASE Held(old)
        BY <1>t, <3>1, HandIs DEF Held
      <3>2. CASE ~Held(old)
        BY <2>2, <3>2 DEF Hand
      <3> QED
        BY <3>1, <3>2
    <2> QED
      BY <2>1, <2>2
  <1>k. \A kind \in {"turn", "pause", "gate"} : By(kind, r) \in Key /\ By(kind, run[r].turn) \in Key
    BY <1>t, ByKey
  <1>1. CASE TakeVideo(r)
    <2>1. Go(r, "taken") /\ lock' = [key |-> By("req", r), shot |-> {}] /\ edits' = edits /\ run[r].pc = "new"
      BY <1>1 DEF TakeVideo
    <2>2. run'[r].pc = "taken" /\ run'[r].snap = run[r].snap
      BY <1>g, <1>p, <2>1
    <2>3. Unadded(r) /\ LeftNothing(r)'
      BY <2>1, <2>2, PlacesApart DEF Unadded, LeftNothing
    <2>4. \A m \in Run : m \notin lock'.shot
      BY <2>1
    <2>5. \A m \in Run : m \in run'[r].snap => Known(m)
      BY <2>2 DEF Known
    <2> QED
      BY <1>a, <1>s, <2>1, <2>2, <2>3, <2>4, <2>5, StepCleans
  <1>2. CASE HandTurn(r)
    <2> DEFINE shot == IF run[r].ticket.kind = "pause" THEN run[r].snap ELSE edits
               x == [run[r] EXCEPT !.pc = "handed", !.snap = shot]
    <2>1. run' = [run EXCEPT ![r] = x] /\ edits' = edits /\ run[r].pc = "made"
      BY <1>2 DEF HandTurn
    <2>2. x.pc = "handed" /\ x.snap = shot
      BY <1>t DEF Runs
    <2>3. lock' = lock \/ lock' = [key |-> By("turn", r), shot |-> shot]
      BY <1>2 DEF HandTurn
    <2>4. \A m \in Run : m \in shot => Known(m)
      BY DEF Known
    <2>5. Unadded(r)
      BY <2>1, PlacesApart DEF Unadded
    <2>6. r \notin shot
      BY <1>a, <2>4, <2>5 DEF Unknown
    <2> HIDE DEF shot, x
    <2>7. run'[r] = x
      BY <1>t, <2>1
    <2>8. LeftNothing(r)'
      BY <2>2, <2>7, PlacesApart DEF LeftNothing
    <2>9. lock' # Ready => \A m \in Run : m \in lock'.shot => Known(m)
      BY <2>3, <2>4 DEF Known
    <2> QED
      BY <1>s, <2>1, <2>2, <2>4, <2>5, <2>6, <2>7, <2>8, <2>9, StepCleans
  <1>3. CASE MakeJob(r) \/ Submit(r)
    <2>1. edits' = edits /\ (lock' # Ready => lock # Ready /\ lock'.shot = lock.shot) /\ Unadded(r)
      BY <1>3, <1>h, PlacesApart DEF MakeJob, Submit, Unadded
    <2>2. \/ \E pc \in {"made", "point"} : Go(r, pc)
          \/ \E out \in {"none", "error"} : run' = [run EXCEPT ![r] = Closed(r, "over", out)]
      BY <1>3 DEF MakeJob, Submit
    <2>3. run'[r].snap \in {run[r].snap, {}} /\ LeftNothing(r)'
      <3>1. ASSUME NEW pc \in {"made", "point"}, Go(r, pc) PROVE run'[r].snap = run[r].snap /\ LeftNothing(r)'
        BY <1>g, <1>p, <3>1, PlacesApart DEF LeftNothing
      <3>2. ASSUME NEW out \in {"none", "error"}, run' = [run EXCEPT ![r] = Closed(r, "over", out)]
            PROVE  run'[r].snap = {} /\ LeftNothing(r)'
        BY <1>c, <1>o, <3>2 DEF LeftNothing
      <3> QED
        BY <2>2, <3>1, <3>2
    <2> QED
      BY <1>s, <2>1, <2>3, SameCleans
  <1>4. CASE ForgetClicks(r) \/ ShowRunning(r)
    <2>1. edits' = edits /\ lock' = lock /\ Unadded(r) /\ \E pc \in {"cleared", "shown"} : Go(r, pc)
      BY <1>4, PlacesApart DEF ForgetClicks, ShowRunning, Unadded
    <2>2. run'[r].snap = run[r].snap /\ LeftNothing(r)'
      BY <1>g, <1>p, <2>1, PlacesApart DEF LeftNothing
    <2> QED
      BY <1>s, <2>1, <2>2, SameCleans
  <1>5. ASSUME edits' \subseteq edits \cup {r}, lock' # Ready => lock # Ready /\ lock'.shot = lock.shot,
               run'[r].snap = run[r].snap,
               run'[r].pc \in Looping \cup Pausing \cup {"outcome"} \cup Finishing,
               run'[r].pc \in Finishing => run'[r].out = "error" \/ LeftNothing(r)'
        PROVE  CleanInv'
    <2>1. ~Unadded(r)' /\ LeftNothing(r)'
      BY <1>5, PlacesApart DEF Unadded, LeftNothing, Looping
    <2> QED
      BY <1>s, <1>5, <2>1, SameCleans
  <1>6. CASE Point(r) \/ ShowPaused(r) \/ ShowBack(r)
    <2>1. edits' = edits /\ lock' = lock /\ \E pc \in {"hold", "check", "held", "unhold"} : Go(r, pc)
      BY <1>6 DEF Point, ShowPaused, ShowBack
    <2>2. run'[r].snap = run[r].snap /\ run'[r].pc \in {"hold", "check", "held", "unhold"}
      BY <1>g, <1>p, <2>1
    <2> QED
      BY <1>5, <2>1, <2>2, PlacesApart DEF Looping
  <1>7. CASE Hold(r) \/ TakeBack(r)
    <2>1. edits' = edits /\ \E pc \in {"holding", "check", "back"} : Go(r, pc)
      BY <1>7 DEF Hold, TakeBack
    <2>2. lock' = lock \/ \E old, new \in Key : lock' = Hand(old, new)
      BY <1>7, <1>k DEF Hold, TakeBack
    <2>3. run'[r].snap = run[r].snap /\ run'[r].pc \in {"holding", "check", "back"}
      BY <1>g, <1>p, <2>1
    <2> QED
      BY <1>5, <1>h, <2>1, <2>2, <2>3, PlacesApart DEF Looping
  <1>8. CASE Check(r) \/ Step(r) \/ Told(r) \/ HoldEnds(r) \/ Unhold(r) \/ HoldFails(r)
    <2>1. edits' \subseteq edits \cup {r} /\ lock' = lock
      BY <1>8 DEF Check, Step, Told, HoldEnds, Unhold, HoldFails
    <2>2. /\ run'[r].snap = run[r].snap /\ run'[r].pc \in {"outcome", "step", "told", "final", "point", "leave", "check"}
          /\ run'[r].pc = "final" => run'[r].out = "error"
      <3>1. CASE Check(r) \/ Told(r) \/ HoldEnds(r) \/ Unhold(r) \/ HoldFails(r)
        BY <1>t, <3>1 DEF Check, Told, HoldEnds, Unhold, HoldFails, Go, Runs
      <3>2. CASE Step(r)
        <4>1. \/ run' = [run EXCEPT ![r].pc = "told", ![r].calls = @ - 1, ![r].seen = view]
              \/ \E out \in {"done", "gate", "error"} :
                    run' = [run EXCEPT ![r].out = out, ![r].pc = IF out = "error" THEN "final" ELSE "outcome"]
          BY <3>2 DEF Step
        <4> QED
          BY <1>t, <4>1 DEF Runs
      <3> QED
        BY <1>8, <3>1, <3>2
    <2> QED
      BY <1>5, <2>1, <2>2, PlacesApart DEF Looping
  <1>9. CASE Outcome(r)
    <2>1. lock' = lock /\ edits' \subseteq edits
      BY <1>9 DEF Outcome, Restore
    <2>2. run'[r].snap = run[r].snap /\ run'[r].pc = "final" /\ (run'[r].out = "stopped" => r \notin edits')
      BY <1>9, <1>a, <1>t DEF Outcome, Go, Runs, Restore
    <2>3. LeftNothing(r)'
      BY <2>2 DEF LeftNothing
    <2> QED
      BY <1>5, <2>1, <2>2, <2>3, PlacesApart
  <1>10. CASE Final(r)
    <2> DEFINE b == run[r].turn \in stops
               out == IF b THEN "stopped" ELSE run[r].out
    <2>1. lock' = lock /\ edits' \subseteq edits /\ run[r].pc = "final"
      BY <1>10 DEF Final, Restore
    <2>2. run' = [run EXCEPT ![r].pc = "close", ![r].halted = b, ![r].out = out]
      BY <1>10 DEF Final
    <2>3. out = "stopped" => r \notin edits'
      BY <1>10, <1>a, <2>1, PlacesApart DEF Final, Restore, LeftNothing
    <2> HIDE DEF b, out
    <2>4. run'[r].snap = run[r].snap /\ run'[r].pc = "close" /\ run'[r].out = out
      BY <1>t, <2>2 DEF Runs
    <2>5. LeftNothing(r)'
      BY <2>3, <2>4 DEF LeftNothing
    <2> QED
      BY <1>5, <2>1, <2>4, <2>5, PlacesApart
  <1>11. CASE Close(r) \/ ShowEnd(r)
    <2>1. lock' = lock /\ edits' = edits /\ run[r].pc \in Finishing /\ \E pc \in {"shut", "letgo"} : Go(r, pc)
      BY <1>11, PlacesApart DEF Close, ShowEnd
    <2>2. run'[r].snap = run[r].snap /\ run'[r].out = run[r].out /\ run'[r].pc \in {"shut", "letgo"}
      BY <1>g, <1>p, <2>1
    <2>3. LeftNothing(r)'
      BY <1>a, <2>1, <2>2 DEF LeftNothing
    <2> QED
      BY <1>5, <2>1, <2>2, <2>3, PlacesApart
  <1>12. CASE LetGo(r) \/ Fail(r)
    <2>1. edits' = edits /\ run[r].pc \in Finishing
      BY <1>12, PlacesApart DEF LetGo, Fail
    <2>2. lock' # Ready => lock # Ready /\ lock'.shot = lock.shot
      BY <1>12, <1>h, <1>k DEF LetGo, Fail
    <2>3. PICK out \in Outs : run' = [run EXCEPT ![r] = Closed(r, "over", out)] /\ (out = "stopped" => run[r].out = "stopped")
      <3>1. LetGo(r) => run' = [run EXCEPT ![r] = Closed(r, "over", run[r].out)]
        BY DEF LetGo
      <3>2. Fail(r) => run' = [run EXCEPT ![r] = Closed(r, "over", IF run[r].out = "stopped" THEN "stopped" ELSE "error")]
        BY DEF Fail
      <3> QED
        BY <1>12, <1>o, <3>1, <3>2
    <2>4. run'[r].pc = "over" /\ run'[r].snap = {} /\ run'[r].out = out
      BY <1>c, <2>3
    <2>5. LeftNothing(r)' /\ ~Unadded(r)'
      BY <1>a, <2>1, <2>3, <2>4, PlacesApart DEF LeftNothing, Unadded
    <2> QED
      BY <1>s, <2>1, <2>2, <2>4, <2>5, SameCleans
  <1> QED
    BY <1>1, <1>2, <1>3, <1>4, <1>6, <1>7, <1>8, <1>9, <1>10, <1>11, <1>12 DEF RunStep

\* Nobody's step: the edit set and the row may shrink, and a Resume read no more than is known.
LEMMA IdleCleans ==
    ASSUME CleanInv, run' = run, edits' \subseteq edits,
           lock' # Ready => lock # Ready /\ lock'.shot = lock.shot,
           \A m \in Run : ResumerKnows(m)' => ResumerKnows(m) \/ Known(m)
    PROVE  CleanInv'
  <1>a. Unknown /\ BeforeIt /\ AllClean
    BY DEF CleanInv
  <1>1. ASSUME NEW m \in Run, Unadded(m)'
        PROVE  m \notin edits' /\ (lock' # Ready => m \notin lock'.shot) /\ (\A k \in Run : m \notin run'[k].snap)
               /\ ~ResumerKnows(m)'
    <2>1. ~Known(m) /\ ~ResumerKnows(m)
      BY <1>a, <1>1 DEF Unknown, Unadded
    <2> QED
      BY <2>1 DEF Known
  <1>2. Unknown'
    BY <1>1 DEF Unknown, Known
  <1> QED
    BY <1>a, <1>2 DEF CleanInv, BeforeIt, AllClean, LeftNothing

\* The run a Resume starts takes the snapshot the Resume read.
LEMMA ResumeCleans ==
    ASSUME TypesOK, CleanInv, ResumeStart
    PROVE  CleanInv'
  <1>a. Unknown /\ BeforeIt /\ AllClean /\ RunType
    BY DEF CleanInv, TypesOK
  <1>i. resumer.pc = "restart" /\ resumer'.pc = "idle" /\ edits' = edits
    BY RouteIs, NoViewType DEF ResumeStart, At
  <1>n. \A m \in Run : ~ResumerKnows(m)'
    BY <1>i DEF ResumerKnows
  <1>1. ASSUME run' = run, lock' = Release(resumer.lock.key) PROVE CleanInv'
    BY <1>1, <1>i, <1>n, IdleCleans DEF Release
  <1>2. ASSUME NEW r \in Run, run[r].pc = "new", lock' = lock,
               run' = [run EXCEPT ![r] = [Fresh(r) EXCEPT !.pc = "made", !.turn = resumer.lock.key.id,
                                                          !.ticket = resumer.lock.key, !.snap = resumer.lock.shot]]
        PROVE  CleanInv'
    <2>1. /\ run'[r].pc = "made" /\ run'[r].snap = resumer.lock.shot
          /\ \A m \in Run \ {r} : run'[m] = run[m]
      BY <1>a, <1>2 DEF RunType, Fresh
    <2>2. Unadded(r)
      BY <1>2 DEF Unadded
    <2>3. ASSUME NEW m \in Run, Unadded(m)'
          PROVE  ~Known(m)' /\ ~ResumerKnows(m)'
      <3>1. Unadded(m)
        BY <2>1, <2>2, <2>3 DEF Unadded
      <3>2. ~Known(m) /\ m \notin resumer.lock.shot
        BY <1>a, <1>i, <3>1 DEF Unknown, ResumerKnows
      <3>3. \A k \in Run : m \notin run'[k].snap
        BY <2>1, <3>2 DEF Known
      <3> QED
        BY <1>2, <1>i, <1>n, <3>2, <3>3 DEF Known
    <2>4. BeforeIt'
      BY <1>a, <1>i, <2>1, <2>2 DEF BeforeIt, Unknown, ResumerKnows
    <2>5. ASSUME NEW m \in Run PROVE LeftNothing(m)'
      BY <1>a, <1>i, <2>1, PlacesApart DEF AllClean, LeftNothing
    <2> QED
      BY <2>3, <2>4, <2>5 DEF CleanInv, Unknown, AllClean
  <1> QED
    BY <1>1, <1>2 DEF ResumeStart

\* A crash loses the runs; what is in the video and in the row stays.
LEMMA CrashCleans ==
    ASSUME TypesOK, CleanInv, Crash
    PROVE  CleanInv'
  <1>a. Unknown /\ BeforeIt /\ AllClean /\ RunType
    BY DEF CleanInv, TypesOK
  <1>1. edits' = edits /\ lock' = lock /\ resumer'.pc = "idle"
    BY NoViewType DEF Crash
  <1>2. ASSUME NEW m \in Run
        PROVE  \/ run'[m] = run[m] /\ run[m].pc \in {"new", "over"}
               \/ run'[m].pc = "lost" /\ run'[m].snap = {}
    <2>1. run'[m] = IF run[m].pc \in {"new", "over"} THEN run[m] ELSE Closed(m, "lost", "none")
      BY DEF Crash
    <2> QED
      BY <1>a, <2>1, ClosedType DEF Outs
  <1>3. ASSUME NEW m \in Run, Unadded(m)' PROVE ~Known(m)' /\ ~ResumerKnows(m)'
    <2>1. Unadded(m)
      BY <1>2, <1>3, PlacesApart DEF Unadded
    <2>2. ~Known(m)
      BY <1>a, <2>1 DEF Unknown
    <2> QED
      BY <1>1, <1>2, <2>2 DEF Known, ResumerKnows
  <1>4. BeforeIt'
    BY <1>a, <1>2 DEF BeforeIt
  <1>5. ASSUME NEW m \in Run PROVE LeftNothing(m)'
    BY <1>a, <1>1, <1>2, PlacesApart DEF AllClean, LeftNothing
  <1> QED
    BY <1>3, <1>4, <1>5 DEF CleanInv, Unknown, AllClean

LEMMA NextCleans ==
    ASSUME TypesOK, CleanInv, [Next]_vars
    PROVE  CleanInv'
  <1>t. ClickType /\ LockType
    BY DEF TypesOK
  <1>1. ASSUME run' = run, resumer' = resumer, edits' \subseteq edits, lock' # Ready => lock # Ready /\ lock'.shot = lock.shot
        PROVE  CleanInv'
    <2>1. \A m \in Run : ResumerKnows(m)' => ResumerKnows(m) \/ Known(m)
      BY <1>1 DEF ResumerKnows
    <2> QED
      BY <1>1, <2>1, IdleCleans
  <1>2. CASE StopDrop \/ StopAnswer \/ WatchDrop \/ Restart
    BY <1>1, <1>2 DEF StopDrop, StopAnswer, WatchDrop, Restart, clicks, Release
  <1>3. CASE StopPut \/ WatchPut
    <2>1. edits' \subseteq edits
      BY <1>3 DEF StopPut, WatchPut, PutBack, Restore
    <2> QED
      BY <1>1, <1>3, <2>1 DEF StopPut, WatchPut
  <1>4. CASE StopClick \/ StopLook \/ StopVideo \/ StopMark \/ PauseClick \/ PauseAsk \/ PauseMark
             \/ WatchRead \/ WatchLook \/ LookAtView \/ Deadline \/ UNCHANGED vars
    <2>1. UNCHANGED <<run, resumer, edits, lock>>
      BY <1>4 DEF StopClick, StopLook, StopVideo, StopMark, PauseClick, PauseAsk, PauseMark,
         WatchRead, WatchLook, LookAtView, Deadline, vars, clicks
    <2> QED
      BY <1>1, <2>1
  <1>5. CASE ResumeClick \/ ResumeMark \/ ResumeLook
    <2>1. UNCHANGED <<run, edits, lock>>
      BY <1>5 DEF ResumeClick, ResumeMark, ResumeLook
    <2>2. ASSUME NEW m \in Run, ResumerKnows(m)' PROVE ResumerKnows(m) \/ Known(m)
      <3>1. CASE ResumeClick
        <4>1. resumer' = [Idle EXCEPT !.pc = "looked", !.lock = lock] \/ \E v : resumer' = [Idle EXCEPT !.pc = "mark", !.view = v]
          BY <3>1 DEF ResumeClick
        <4>2. CASE resumer' = [Idle EXCEPT !.pc = "looked", !.lock = lock] /\ PausedRow(lock)
          <5>1. resumer'.lock = lock
            BY <1>t, <4>2, NewClick DEF LockType
          <5> QED
            BY <2>2, <4>2, <5>1 DEF ResumerKnows, Known, PausedRow
        <4>3. CASE \E v : resumer' = [Idle EXCEPT !.pc = "mark", !.view = v]
          <5>1. resumer'.pc = "mark"
            BY <4>3 DEF Idle
          <5> QED
            BY <2>2, <5>1 DEF ResumerKnows
        <4> QED
          BY <3>1, <4>2, <4>3 DEF ResumeClick
      <3>2. CASE resumer' = Idle
        BY <2>2, <3>2, NoViewType DEF ResumerKnows
      <3>3. CASE ResumeLook /\ resumer' # Idle
        <4>1. resumer.pc = "looked"
          BY <3>3, RouteIs DEF ResumeLook, At
        <4>2. resumer' = [resumer EXCEPT !.pc = "restart"]
          BY <3>3 DEF ResumeLook
        <4>3. resumer'.lock = resumer.lock
          BY <1>t, <4>2, ClickTo DEF ClickType
        <4> QED
          BY <2>2, <4>1, <4>3 DEF ResumerKnows
      <3> QED
        BY <1>5, <3>1, <3>2, <3>3 DEF ResumeMark
    <2> QED
      BY <2>1, <2>2, IdleCleans
  <1> QED
    BY <1>2, <1>3, <1>4, <1>5, RunStepCleans, ResumeCleans, CrashCleans DEF Next, RouteStep

\* A turn that ended as stopped has nothing in the video, whichever of the routes cross and wherever their steps fall.
THEOREM StoppedIsGone == Spec => []StoppedLeavesNothing
  <1>1. Init => CleanInv
    <2> SUFFICES ASSUME Init PROVE CleanInv
      OBVIOUS
    <2>1. lock = Ready /\ edits = {} /\ resumer.pc = "idle"
      BY NoViewType DEF Init
    <2>2. \A r \in Run : run[r].pc = "new" /\ run[r].snap = {}
      BY FreshType DEF Init, Fresh
    <2> QED
      BY <2>1, <2>2 DEF CleanInv, Unknown, Known, ResumerKnows, BeforeIt, AllClean, LeftNothing
  <1>2. TypesOK /\ CleanInv /\ [Next]_vars => CleanInv'
    BY NextCleans
  <1>3. CleanInv => StoppedLeavesNothing
    BY PlacesApart DEF CleanInv, AllClean, LeftNothing, StoppedLeavesNothing
  <1> QED
    BY <1>1, <1>2, <1>3, TypesAlways, PTL DEF Spec
------------------------------------------------------------------------------
(* Where nobody clicks Resume the other routes may cross: a turn pauses    *)
(* once, and then only ends.                                               *)

\* A turn that is past its pause, and one on its way there since it began to hold.
Gone(t) == \/ run[t].pc \in {"check", "outcome"} /\ t \in stops
           \/ run[t].pc \in Finishing \cup {"over", "lost"}
Leaving(t) == \/ run[t].pc \in {"holding", "held"} /\ t \in asked
              \/ run[t].pc \in {"leave", "back", "unhold"} /\ t \in stops
              \/ Gone(t)

\* Without Resume a turn is one run.
NoResume == resumer.pc = "idle" /\ \A r \in Run : run[r].turn = r

\* A turn begins to hold when it is asked to, and is then leaving.
Holding == \A r \in Run : /\ run[r].pc = "hold" => r \in asked
                          /\ run[r].pc \in {"holding", "held", "leave", "back", "unhold"} => Leaving(r)

\* The pause a route has read is of a turn that is leaving, and one it acts on of a turn that is past it.
ReadOK(c) == /\ c.pc \in {"looked", "put", "drop"} /\ PausedRow(c.lock) => Leaving(c.lock.key.id)
             /\ c.pc \in {"put", "drop"} => PausedRow(c.lock) /\ Gone(c.lock.key.id)
Reads == /\ ReadOK(stopper) /\ ReadOK(watcher)
         /\ watcher.pc = "looked" => PausedRow(watcher.lock)

PauseInv == NoResume /\ Holding /\ (PausedRow(lock) => Leaving(lock.key.id)) /\ Reads

\* What a run's step does to its turn, and to the clicks of others.
LEMMA RunStepClicks ==
    ASSUME TypesOK, NoResume, NEW r \in Run, RunStep(r)
    PROVE  /\ \A m \in Run \ {r} : /\ m \in asked => m \in asked'
                                   /\ m \in stops => m \in stops'
           /\ run'[r].turn = r /\ UNCHANGED clicks /\ \A m \in Run \ {r} : run'[m] = run[m]
  <1>1. run[r].turn = r
    BY DEF NoResume
  <1>2. /\ \A m \in Run \ {r} : m \in asked => m \in asked'
        /\ \A m \in Run \ {r} : m \in stops => m \in stops'
    BY <1>1 DEF RunStep, server, TakeVideo, MakeJob, HandTurn, ForgetClicks, ShowRunning, Submit, Point, Check, Step, Told,
       Hold, ShowPaused, HoldEnds, TakeBack, ShowBack, Unhold, Outcome, Final, Close, ShowEnd, LetGo, Fail, HoldFails
  <1> QED
    BY <1>1, <1>2, RunStepTypes, RunStepTurn DEF TypesOK

\* Its own: a run that leaves goes on leaving, and one that is past its pause stays so.
LEMMA OwnStepLeaves ==
    ASSUME TypesOK, NoResume, NEW r \in Run, RunStep(r)
    PROVE  /\ Leaving(r) => Leaving(r)'
           /\ Gone(r) => Gone(r)'
  <1>t. RunType /\ run[r] \in Runs /\ run \in [Run -> Runs] /\ run[r].turn = r
    BY DEF TypesOK, RunType, NoResume
  <1>o. run[r].out \in Outs /\ "stopped" \in Outs /\ "error" \in Outs /\ "none" \in Outs
    BY <1>t DEF Runs, Outs
  <1>g. ASSUME NEW pc \in Places, Go(r, pc) PROVE run'[r].pc = pc
    BY <1>t, <1>g, RunGo
  <1>c. ASSUME NEW out \in Outs, run' = [run EXCEPT ![r] = Closed(r, "over", out)] PROVE run'[r].pc = "over"
    <2>1. run'[r] = Closed(r, "over", out)
      BY <1>c, <1>t
    <2> QED
      BY <2>1, <1>t, ClosedType
  <1>p. /\ {"check", "held", "back", "unhold", "step", "shut", "letgo", "final", "hold"} \subseteq Places
        /\ Finishing = {"final", "close", "shut", "letgo"}
    BY PlacesAre, PlacesApart
  <1>1. CASE ShowPaused(r)
    <2>1. run[r].pc = "holding" /\ run'[r].pc = "held" /\ asked' = asked
      BY <1>1, <1>g, <1>p DEF ShowPaused, server
    <2> QED
      BY <2>1, <1>p DEF Leaving, Gone
  <1>2. CASE HoldEnds(r)
    <2>1. run[r].pc = "held" /\ run'[r].pc = "leave" /\ (r \in asked => r \in stops')
      BY <1>2, <1>t DEF HoldEnds, Runs
    <2> QED
      BY <2>1, <1>p DEF Leaving, Gone
  <1>3. CASE TakeBack(r) \/ ShowBack(r)
    <2>1. run[r].pc \in {"leave", "back"} /\ run'[r].pc \in {"back", "unhold"} /\ stops' = stops
      BY <1>3, <1>g, <1>p DEF TakeBack, ShowBack, server
    <2> QED
      BY <2>1, <1>p DEF Leaving, Gone
  <1>4. CASE Unhold(r)
    <2>1. run[r].pc = "unhold" /\ run'[r].pc = "check" /\ stops' = stops
      BY <1>4, <1>t DEF Unhold, Runs
    <2> QED
      BY <2>1, <1>p DEF Leaving, Gone
  <1>5. CASE Check(r)
    <2>1. run[r].pc = "check" /\ (r \in stops => run'[r].pc = "outcome") /\ stops' = stops
      BY <1>5, <1>t DEF Check, Runs, server
    <2> QED
      BY <2>1, <1>p DEF Leaving, Gone
  <1>6. CASE Outcome(r) \/ Final(r) \/ Close(r) \/ ShowEnd(r) \/ HoldFails(r)
    <2>1. run'[r].pc \in Finishing
      <3>1. CASE Final(r)
        BY <3>1, <1>t, <1>p DEF Final, Runs
      <3>2. CASE Outcome(r)
        BY <3>2, <1>t, <1>p, <1>g DEF Outcome, Runs
      <3>3. CASE Close(r) \/ ShowEnd(r)
        BY <3>3, <1>p, <1>g DEF Close, ShowEnd
      <3>4. CASE HoldFails(r)
        BY <3>4, <1>t, <1>p DEF HoldFails, Runs
      <3> QED
        BY <1>6, <3>1, <3>2, <3>3, <3>4
    <2> QED
      BY <2>1 DEF Leaving, Gone
  <1>7. CASE LetGo(r) \/ Fail(r)
    <2>1. \E out \in Outs : run' = [run EXCEPT ![r] = Closed(r, "over", out)]
      BY <1>7, <1>o DEF LetGo, Fail
    <2> QED
      BY <2>1, <1>c DEF Leaving, Gone
  <1>8. CASE TakeVideo(r) \/ MakeJob(r) \/ HandTurn(r) \/ ForgetClicks(r) \/ ShowRunning(r) \/ Submit(r) \/ Point(r)
             \/ Step(r) \/ Told(r) \/ Hold(r)
    <2>1. run[r].pc \in {"new", "taken", "made", "handed", "cleared", "shown", "point", "step", "told", "hold"}
      BY <1>8 DEF TakeVideo, MakeJob, HandTurn, ForgetClicks, ShowRunning, Submit, Point, Step, Told, Hold
    <2> QED
      BY <2>1, <1>p DEF Leaving, Gone
  <1> QED
    BY <1>1, <1>2, <1>3, <1>4, <1>5, <1>6, <1>7, <1>8 DEF RunStep

\* Whatever happens next.
LEMMA NextLeaves ==
    ASSUME TypesOK, NoResume, "resume" \notin Clicks, [Next]_vars, NEW t \in Run
    PROVE  /\ NoResume'
           /\ Leaving(t) => Leaving(t)'
           /\ Gone(t) => Gone(t)'
  <1>t. RunType
    BY DEF TypesOK
  <1>1. ASSUME NEW r \in Run, RunStep(r)
        PROVE  NoResume' /\ (Leaving(t) => Leaving(t)') /\ (Gone(t) => Gone(t)')
    <2>1. NoResume'
      BY <1>1, RunStepClicks DEF NoResume, clicks
    <2>2. CASE t = r
      BY <1>1, <2>1, <2>2, OwnStepLeaves
    <2>3. CASE t # r
      <3>1. run'[t] = run[t] /\ (t \in asked => t \in asked') /\ (t \in stops => t \in stops')
        BY <1>1, <2>3, RunStepClicks
      <3> QED
        BY <2>1, <3>1 DEF Leaving, Gone
    <2> QED
      BY <2>1, <2>2, <2>3
  <1>2. CASE Crash
    <2>1. run'[t] = IF run[t].pc \in {"new", "over"} THEN run[t] ELSE Closed(t, "lost", "none")
      BY <1>2 DEF Crash
    <2>2. \A m \in Run : run'[m].turn = run[m].turn
      <3> SUFFICES ASSUME NEW m \in Run PROVE run'[m].turn = run[m].turn
        OBVIOUS
      <3>1. run'[m] = IF run[m].pc \in {"new", "over"} THEN run[m] ELSE Closed(m, "lost", "none")
        BY <1>2 DEF Crash
      <3>2. Closed(m, "lost", "none").turn = run[m].turn
        BY <1>t, ClosedType DEF Outs
      <3> QED
        BY <3>1, <3>2
    <2>3. NoResume'
      BY <1>2, <2>2, NoViewType DEF NoResume, Crash
    <2>4. Closed(t, "lost", "none").pc = "lost"
      BY <1>t, ClosedType DEF Outs
    <2>5. run[t].pc = "new" => ~Leaving(t) /\ ~Gone(t)
      BY PlacesApart DEF Leaving, Gone
    <2> QED
      BY <2>1, <2>3, <2>4, <2>5 DEF Leaving, Gone
  <1>3. ASSUME UNCHANGED <<run, resumer>>, asked \subseteq asked', stops \subseteq stops'
        PROVE  NoResume' /\ (Leaving(t) => Leaving(t)') /\ (Gone(t) => Gone(t)')
    BY <1>3 DEF NoResume, Leaving, Gone
  <1>4. CASE StopClick \/ StopLook \/ StopPut \/ StopDrop \/ StopVideo \/ StopMark \/ StopAnswer
             \/ PauseClick \/ PauseAsk \/ PauseMark \/ WatchRead \/ WatchLook \/ WatchPut \/ WatchDrop
             \/ LookAtView \/ Deadline \/ Restart \/ UNCHANGED vars
    <2>1. UNCHANGED <<run, resumer>> /\ asked \subseteq asked' /\ stops \subseteq stops'
      BY <1>4 DEF StopClick, StopLook, StopPut, StopDrop, StopVideo, StopMark, StopAnswer, PauseClick, PauseAsk, PauseMark,
         WatchRead, WatchLook, WatchPut, WatchDrop, LookAtView, Deadline, Restart, vars, clicks, server
    <2> QED
      BY <1>3, <2>1
  <1>5. ~ResumeClick /\ ~ResumeMark /\ ~ResumeLook /\ ~ResumeStart
    BY RouteIs DEF NoResume, ResumeClick, ResumeMark, ResumeLook, ResumeStart, At
  <1> QED
    BY <1>1, <1>2, <1>4, <1>5 DEF Next, RouteStep

\* Holding goes on: what a turn was asked is not forgotten before it leaves.
LEMMA NextHolds ==
    ASSUME TypesOK, Core, NoResume, Holding, "resume" \notin Clicks, [Next]_vars
    PROVE  Holding'
  <1>t. RunType
    BY DEF TypesOK
  <1> SUFFICES ASSUME NEW m \in Run
               PROVE  /\ run'[m].pc = "hold" => m \in asked'
                      /\ run'[m].pc \in {"holding", "held", "leave", "back", "unhold"} => Leaving(m)'
    BY DEF Holding
  <1>l. Leaving(m) => Leaving(m)'
    BY NextLeaves
  <1>1. ASSUME NEW r \in Run, RunStep(r), r # m
        PROVE  run'[m] = run[m] /\ (m \in asked => m \in asked')
    BY <1>1, RunStepClicks
  <1>2. ASSUME RunStep(m)
        PROVE  /\ run'[m].pc = "hold" => m \in asked'
               /\ run'[m].pc \in {"holding", "held", "leave", "back", "unhold"} => Leaving(m)'
    <2>t. run[m] \in Runs /\ run \in [Run -> Runs] /\ run[m].turn = m
      BY <1>t DEF RunType, NoResume
    <2>o. run[m].out \in Outs /\ "stopped" \in Outs /\ "error" \in Outs /\ "none" \in Outs
      BY <2>t DEF Runs, Outs
    <2>g. ASSUME NEW pc \in Places, Go(m, pc) PROVE run'[m].pc = pc
      BY <1>t, <2>g, RunGo
    <2>p. Places = {"new", "over", "lost", "taken", "made", "handed", "cleared", "shown", "point", "check", "step", "told",
                    "hold", "holding", "held", "leave", "back", "unhold", "outcome", "final", "close", "shut", "letgo"}
      BY PlacesAre
    <2>1. CASE Point(m)
      <3>1. \/ Go(m, "hold") /\ m \in asked /\ asked' = asked
            \/ Go(m, "check")
        BY <2>1, <2>t DEF Point
      <3> QED
        BY <2>g, <2>p, <3>1
    <2>2. CASE Hold(m)
      <3>1. run[m].pc = "hold"
        BY <2>2 DEF Hold
      <3>2. \/ Go(m, "holding") /\ asked' = asked
            \/ Go(m, "check")
        BY <2>2 DEF Hold
      <3>3. m \in asked
        BY <3>1 DEF Holding
      <3> QED
        BY <2>g, <2>p, <3>2, <3>3 DEF Leaving
    <2>3. CASE run[m].pc \in {"holding", "held", "leave", "back", "unhold"}
      <3>1. Leaving(m)' /\ run'[m].pc # "hold"
        <4>1. Leaving(m)
          BY <2>3 DEF Holding
        <4>2. Leaving(m)'
          BY <1>l, <4>1
        <4> QED
          BY <4>2, PlacesApart DEF Leaving, Gone
      <3> QED
        BY <3>1
    <2>4. ASSUME ~Point(m), ~Hold(m), run[m].pc \notin {"holding", "held", "leave", "back", "unhold"}
          PROVE  run'[m].pc \notin {"hold", "holding", "held", "leave", "back", "unhold"}
      <3>1. CASE TakeVideo(m) \/ ForgetClicks(m) \/ ShowRunning(m) \/ Close(m) \/ ShowEnd(m)
        <4>1. \E pc \in {"taken", "cleared", "shown", "shut", "letgo"} : Go(m, pc)
          BY <3>1 DEF TakeVideo, ForgetClicks, ShowRunning, Close, ShowEnd
        <4> QED
          BY <2>g, <2>p, <4>1
      <3>2. CASE MakeJob(m) \/ Submit(m) \/ LetGo(m) \/ Fail(m)
        <4>1. \/ \E pc \in {"made", "point"} : Go(m, pc)
              \/ \E out \in Outs : run' = [run EXCEPT ![m] = Closed(m, "over", out)]
          BY <3>2, <2>o DEF MakeJob, Submit, LetGo, Fail
        <4>2. ASSUME NEW out \in Outs, run' = [run EXCEPT ![m] = Closed(m, "over", out)] PROVE run'[m].pc = "over"
          <5>1. run'[m] = Closed(m, "over", out)
            BY <4>2, <2>t
          <5> QED
            BY <5>1, <1>t, ClosedType
        <4> QED
          BY <2>g, <2>p, <4>1, <4>2
      <3>3. CASE HandTurn(m) \/ Told(m) \/ Step(m) \/ Final(m)
        BY <2>t, <3>3 DEF HandTurn, Told, Step, Final, Runs
      <3>4. CASE Check(m) \/ Outcome(m)
        BY <2>t, <2>g, <2>p, <3>4 DEF Check, Outcome, Runs
      <3>5. CASE ShowPaused(m) \/ HoldEnds(m) \/ TakeBack(m) \/ ShowBack(m) \/ Unhold(m) \/ HoldFails(m)
        BY <2>4, <3>5 DEF ShowPaused, HoldEnds, TakeBack, ShowBack, Unhold, HoldFails
      <3> QED
        BY <1>2, <2>4, <3>1, <3>2, <3>3, <3>4, <3>5 DEF RunStep
    <2> QED
      BY <2>1, <2>2, <2>3, <2>4
  <1>3. CASE Crash
    <2>1. run'[m] = IF run[m].pc \in {"new", "over"} THEN run[m] ELSE Closed(m, "lost", "none")
      BY <1>3 DEF Crash
    <2>2. Closed(m, "lost", "none").pc = "lost"
      BY <1>t, ClosedType DEF Outs
    <2> QED
      BY <2>1, <2>2
  <1>4. CASE StopClick \/ StopLook \/ StopPut \/ StopDrop \/ StopVideo \/ StopMark \/ StopAnswer
             \/ PauseClick \/ PauseAsk \/ PauseMark \/ WatchRead \/ WatchLook \/ WatchPut \/ WatchDrop
             \/ LookAtView \/ Deadline \/ Restart \/ UNCHANGED vars
    <2>1. run' = run /\ asked \subseteq asked'
      BY <1>4 DEF StopClick, StopLook, StopPut, StopDrop, StopVideo, StopMark, StopAnswer, PauseClick, PauseAsk, PauseMark,
         WatchRead, WatchLook, WatchPut, WatchDrop, LookAtView, Deadline, Restart, vars, clicks, server
    <2> QED
      BY <1>l, <2>1 DEF Holding
  <1>5. ~ResumeClick /\ ~ResumeMark /\ ~ResumeLook /\ ~ResumeStart
    BY RouteIs DEF NoResume, ResumeClick, ResumeMark, ResumeLook, ResumeStart, At
  <1>6. ASSUME run'[m] = run[m], m \in asked => m \in asked'
        PROVE  /\ run'[m].pc = "hold" => m \in asked'
               /\ run'[m].pc \in {"holding", "held", "leave", "back", "unhold"} => Leaving(m)'
    BY <1>6, <1>l DEF Holding
  <1> QED
    BY <1>1, <1>2, <1>3, <1>4, <1>5, <1>6 DEF Next, RouteStep

\* A row that is paused was so before, or its turn has just begun to hold.
LEMMA NextPauses ==
    ASSUME TypesOK, NoResume, Holding, PausedRow(lock) => Leaving(lock.key.id), "resume" \notin Clicks, [Next]_vars
    PROVE  (PausedRow(lock) => Leaving(lock.key.id))'
  <1>t. LockType /\ RunType
    BY DEF TypesOK
  <1> SUFFICES ASSUME PausedRow(lock)' PROVE Leaving(lock.key.id)'
    OBVIOUS
  <1>1. CASE lock' = lock
    <2>1. lock.key.id \in Run
      BY <1>1, <1>t DEF LockType, PausedRow, Row, Key
    <2>2. ASSUME NEW t \in Run, t = lock.key.id PROVE Leaving(t)'
      BY <1>1, <2>2, NextLeaves
    <2>3. PICK t \in Run : t = lock.key.id
      BY <2>1
    <2>4. Leaving(t)' /\ lock'.key.id = t
      BY <1>1, <2>2, <2>3
    <2> QED
      BY <2>4 DEF Leaving, Gone
  <1>2. ASSUME NEW r \in Run, RunStep(r), lock' # lock
        PROVE  Leaving(lock.key.id)'
    <2>t. run[r] \in Runs /\ run[r].turn = r
      BY <1>t DEF RunType, NoResume
    <2>k. By("turn", r) \in Key /\ By("pause", r) \in Key /\ By("gate", r) \in Key
      BY ByKey
    <2>1. Hold(r)
      <3>1. CASE TakeVideo(r) \/ HandTurn(r)
        BY <1>2, <3>1 DEF TakeVideo, HandTurn, By, PausedRow
      <3>2. CASE MakeJob(r) \/ Submit(r) \/ Fail(r)
        BY <1>2, <3>2 DEF MakeJob, Submit, Fail, Release, PausedRow
      <3>3. CASE TakeBack(r) \/ LetGo(r)
        <4>1. PICK old \in {By("turn", r), By("pause", r)}, new \in {By("turn", r), By("gate", r)} :
               lock' = Ready \/ lock' = Hand(old, new)
          BY <1>2, <2>t, <3>3 DEF TakeBack, LetGo, Release
        <4>2. lock' = Hand(old, new) /\ Held(old)
          BY <1>2, <4>1 DEF PausedRow, Hand
        <4>3. lock'.key = new
          BY <1>t, <2>k, <4>1, <4>2, HandIs
        <4> QED
          BY <4>1, <4>3 DEF PausedRow, By
      <3>4. CASE ForgetClicks(r) \/ ShowRunning(r) \/ Point(r) \/ Check(r) \/ Step(r) \/ Told(r) \/ ShowPaused(r)
                 \/ HoldEnds(r) \/ ShowBack(r) \/ Unhold(r) \/ Outcome(r) \/ Final(r) \/ Close(r) \/ ShowEnd(r)
                 \/ HoldFails(r)
        BY <1>2, <3>4 DEF ForgetClicks, ShowRunning, Point, Check, Step, Told, ShowPaused, HoldEnds, ShowBack, Unhold,
           Outcome, Final, Close, ShowEnd, HoldFails
      <3> QED
        BY <1>2, <3>1, <3>2, <3>3, <3>4 DEF RunStep
    <2>2. run[r].pc = "hold" /\ Held(By("turn", r)) /\ Go(r, "holding") /\ asked' = asked
          /\ lock' = Hand(By("turn", r), By("pause", r))
      BY <1>2, <2>1, <2>t DEF Hold
    <2>3. lock'.key = By("pause", r)
      BY <1>t, <2>k, <2>2, HandIs
    <2>4. run'[r].pc = "holding"
      BY <1>t, <2>2, RunGo, PlacesAre
    <2>5. r \in asked'
      BY <2>2 DEF Holding
    <2> QED
      BY <2>3, <2>4, <2>5 DEF Leaving, By
  <1>3. CASE StopDrop \/ StopAnswer \/ WatchDrop \/ Restart
    BY <1>1, <1>3 DEF StopDrop, StopAnswer, WatchDrop, Restart, Release, PausedRow
  <1>4. \/ lock' = lock \/ (\E r \in Run : RunStep(r)) \/ StopDrop \/ StopAnswer \/ WatchDrop \/ Restart
    <2>1. ~ResumeStart
      BY RouteIs DEF NoResume, ResumeStart, At
    <2> QED
      BY <2>1 DEF Next, RouteStep, StopClick, StopLook, StopPut, StopVideo, StopMark, PauseClick, PauseAsk, PauseMark,
         ResumeClick, ResumeMark, ResumeLook, WatchRead, WatchLook, WatchPut, LookAtView, Deadline, Crash, vars
  <1> QED
    BY <1>1, <1>2, <1>3, <1>4

\* What a route reads and acts on.
LEMMA NextReads ==
    ASSUME TypesOK, Core, PauseInv, "resume" \notin Clicks, [Next]_vars
    PROVE  Reads'
  <1>a. /\ LockType /\ ClickType /\ OnHold /\ NoResume /\ Reads /\ (PausedRow(lock) => Leaving(lock.key.id))
        /\ ReadOK(stopper) /\ ReadOK(watcher) /\ stopper \in Click /\ watcher \in Click
    BY DEF TypesOK, Core, PauseInv, Reads, ClickType
  <1>i. Idle.pc = "idle"
    BY NoViewType
  <1>l. ASSUME NEW t \in Run PROVE (Leaving(t) => Leaving(t)') /\ (Gone(t) => Gone(t)')
    BY <1>a, NextLeaves
  <1>k. ASSUME NEW c \in Click, ReadOK(c) PROVE ReadOK(c)'
    <2>1. PausedRow(c.lock) => c.lock.key.id \in Run
      BY ClickHas DEF PausedRow, Row, Key
    <2>2. PICK t : t = c.lock.key.id
      OBVIOUS
    <2>3. PausedRow(c.lock) => (Leaving(t) => Leaving(t)') /\ (Gone(t) => Gone(t)')
      BY <1>l, <2>1, <2>2
    <2> QED
      BY <1>k, <2>2, <2>3 DEF ReadOK, PausedRow
  <1>h. ASSUME NEW c \in Click, ReadOK(c), c.pc = "looked", PausedRow(c.lock), c.lock.key.id \notin holding
        PROVE  Gone(c.lock.key.id)
    <2>1. PICK t \in Run : t = c.lock.key.id
      BY <1>h, ClickHas DEF PausedRow, Row, Key
    <2>2. run[t].pc \notin Pausing
      BY <1>a, <1>h, <2>1 DEF OnHold, NoResume
    <2>3. Leaving(t)
      BY <1>h, <2>1 DEF ReadOK
    <2> QED
      BY <2>1, <2>2, <2>3, PlacesApart DEF Leaving
  <1>t. stopper' \in Click /\ watcher' \in Click
    BY TypesNext DEF TypesOK, ClickType
  \* By what is so now, for the click as it will be.
  <1>1. ReadOK(stopper')
    <2>1. CASE stopper' = stopper
      BY <1>a, <2>1
    <2>2. CASE stopper'.pc \notin {"looked", "put", "drop"}
      BY <2>2 DEF ReadOK
    <2>3. CASE StopClick
      <3>1. stopper'.pc = "looked" /\ stopper'.lock = lock
        BY <1>a, <2>3, NewClick DEF StopClick, LockType
      <3> QED
        BY <1>a, <3>1 DEF ReadOK
    <2>4. CASE StopLook
      <3>1. stopper.pc = "looked"
        BY <2>4, RouteIs DEF StopLook, At
      <3>2. CASE PausedRow(stopper.lock) /\ stopper.lock.key.id \notin holding
        <4>1. stopper'.pc = "put" /\ stopper'.lock = stopper.lock
          BY <1>a, <2>4, <3>2, ClickTo DEF StopLook
        <4>2. Gone(stopper.lock.key.id)
          BY <1>a, <1>h, <3>1, <3>2
        <4> QED
          BY <3>2, <4>1, <4>2 DEF ReadOK, Leaving
      <3>3. CASE ~(PausedRow(stopper.lock) /\ stopper.lock.key.id \notin holding)
        <4>1. stopper'.pc = "video"
          BY <1>a, <2>4, <3>3, ClickTo DEF StopLook
        <4> QED
          BY <2>2, <4>1
      <3> QED
        BY <3>2, <3>3
    <2>5. CASE StopPut
      <3>1. stopper.pc = "put" /\ stopper'.pc = "drop" /\ stopper'.lock = stopper.lock
        BY <1>a, <2>5, RouteIs, ClickTo DEF StopPut, At
      <3> QED
        BY <1>a, <3>1 DEF ReadOK, Leaving
    <2>6. CASE StopDrop \/ StopVideo \/ StopMark \/ StopAnswer \/ Crash
      <3>1. stopper'.pc \in {"video", "mark", "answer", "idle"}
        BY <1>a, <1>i, <2>6 DEF StopDrop, StopVideo, StopMark, StopAnswer, Crash, Click
      <3> QED
        BY <2>2, <3>1
    <2>7. \/ stopper' = stopper \/ StopClick \/ StopLook \/ StopPut \/ StopDrop \/ StopVideo \/ StopMark \/ StopAnswer
          \/ Crash
      BY RunStepTypes DEF Next, RouteStep, PauseClick, PauseAsk, PauseMark, ResumeClick, ResumeMark, ResumeLook,
         ResumeStart, WatchRead, WatchLook, WatchPut, WatchDrop, LookAtView, Deadline, Restart, vars, clicks
    <2> QED
      BY <2>1, <2>3, <2>4, <2>5, <2>6, <2>7
  <1>2. ReadOK(watcher') /\ (watcher'.pc = "looked" => PausedRow(watcher'.lock))
    <2>1. CASE watcher' = watcher
      BY <1>a, <2>1 DEF Reads
    <2>2. CASE WatchRead
      <3>1. watcher'.pc = "looked" /\ watcher'.lock = lock /\ PausedRow(lock)
        BY <1>a, <2>2, NewClick DEF WatchRead, LockType
      <3> QED
        BY <1>a, <3>1 DEF ReadOK
    <2>3. CASE watcher' = Idle
      BY <1>i, <2>3 DEF ReadOK
    <2>4. CASE WatchLook /\ watcher' # Idle
      <3>1. watcher.pc = "looked" /\ PausedRow(watcher.lock) /\ watcher.lock.key.id \notin holding
        BY <1>a, <2>4, RouteIs DEF WatchLook, At, Reads
      <3>2. watcher'.pc = "put" /\ watcher'.lock = watcher.lock
        BY <1>a, <2>4, ClickTo DEF WatchLook
      <3>3. Gone(watcher.lock.key.id)
        BY <1>a, <1>h, <3>1
      <3> QED
        BY <3>1, <3>2, <3>3 DEF ReadOK, Leaving
    <2>5. CASE WatchPut
      <3>1. watcher.pc = "put" /\ watcher'.pc = "drop" /\ watcher'.lock = watcher.lock
        BY <1>a, <2>5, RouteIs, ClickTo DEF WatchPut, At
      <3> QED
        BY <1>a, <3>1 DEF ReadOK, Leaving
    <2>6. watcher' = watcher \/ watcher' = Idle \/ WatchRead \/ (WatchLook /\ watcher' # Idle) \/ WatchPut
      BY RunStepTypes DEF Next, RouteStep, PauseClick, PauseAsk, PauseMark, ResumeClick, ResumeMark, ResumeLook,
         ResumeStart, StopClick, StopLook, StopPut, StopDrop, StopVideo, StopMark, StopAnswer, WatchDrop, LookAtView,
         Deadline, Restart, Crash, vars, clicks
    <2> QED
      BY <2>1, <2>2, <2>3, <2>4, <2>5, <2>6
  <1>3. ASSUME NEW c \in Click, NEW d \in Click, c = stopper', d = watcher'
        PROVE  Reads'
    <2>1. ReadOK(c)' /\ ReadOK(d)'
      BY <1>k, <1>1, <1>2, <1>3
    <2>2. d.pc = "looked" => PausedRow(d.lock)
      BY <1>2, <1>3
    <2> QED
      BY <1>3, <2>1, <2>2 DEF Reads, ReadOK, Leaving, Gone, PausedRow
  <1> QED
    BY <1>t, <1>3

\* A route that drops a pause drops one that nobody has any more, or nothing.
LEMMA CoreDrops ==
    ASSUME TypesOK, Core, PauseInv, StopDrop \/ WatchDrop
    PROVE  Core'
  <1>a. HasLock /\ Tickets /\ OnHold /\ NoResume /\ ReadOK(stopper) /\ ReadOK(watcher)
    BY DEF Core, PauseInv, Reads
  <1>1. PICK l : PausedRow(l) /\ Gone(l.key.id) /\ lock' = Release(l.key)
    <2>1. CASE StopDrop
      <3>1. stopper.pc = "drop" /\ lock' = Release(stopper.lock.key)
        BY <2>1, RouteIs DEF StopDrop, At
      <3> QED
        BY <1>a, <3>1 DEF ReadOK
    <2>2. CASE WatchDrop
      <3>1. watcher.pc = "drop" /\ lock' = Release(watcher.lock.key)
        BY <2>2, RouteIs DEF WatchDrop, At
      <3> QED
        BY <1>a, <3>1 DEF ReadOK
    <2> QED
      BY <2>1, <2>2
  <1>2. run' = run /\ holding' = holding /\ edits' = edits
    BY DEF StopDrop, WatchDrop, server
  <1>3. CASE lock' = lock
    BY <1>2, <1>3, ShrinkKeeps
  <1>4. CASE lock' # lock
    <2>1. lock' = Ready /\ lock # Ready /\ lock.key = l.key /\ lock.key.kind = "pause"
      BY <1>1, <1>4 DEF Release, Held, PausedRow
    <2>2. \A r \in Run : ~Held(By("turn", r))
      BY <2>1 DEF Held, By
    <2>3. ASSUME NEW m \in Run, Has(m) PROVE FALSE
      <3>1. Held(KeyOf(m)) /\ KeyOf(m) \in {By("req", m), By("turn", m), By("pause", run[m].turn)}
        BY <1>a, <2>3, KeyKinds DEF HasLock
      <3>2. KeyOf(m) = By("pause", run[m].turn) /\ l.key.id = m
        BY <1>a, <2>1, <3>1 DEF Held, By, NoResume
      <3>3. Gone(m) /\ m \in Run
        BY <1>1, <3>2
      <3>4. run[m].pc \notin OnPause /\ run[m].pc # "made"
        BY <3>3, PlacesApart DEF Gone
      <3> QED
        BY <1>a, <2>3, <3>2, <3>4, KeyKinds
    <2> QED
      BY <1>2, <2>1, <2>2, <2>3, DropKeeps DEF NoneHas
  <1> QED
    BY <1>3, <1>4

LEMMA FreeNext ==
    ASSUME TypesOK, Core, PauseInv, DownIsQuiet, "resume" \notin Clicks, [Next]_vars
    PROVE  Core' /\ PauseInv' /\ DownIsQuiet'
  <1>1. ~ResumeClick /\ ~ResumeMark /\ ~ResumeLook /\ ~ResumeStart
    BY RouteIs DEF PauseInv, NoResume, ResumeClick, ResumeMark, ResumeLook, ResumeStart, At
  <1>2. Core'
    BY <1>1, CoreRunStep, CoreLooks, CoreAnswer, CoreDrops, CoreServer DEF Next, RouteStep
  <1>3. NoResume'
    <2>1. PICK t : t \in Run
      BY ControlAssumption
    <2> QED
      BY <2>1, NextLeaves DEF PauseInv
  <1>4. Holding' /\ (PausedRow(lock) => Leaving(lock.key.id))' /\ Reads'
    BY NextHolds, NextPauses, NextReads DEF PauseInv
  <1> QED
    BY <1>2, <1>3, <1>4, QuietNext DEF PauseInv

LEMMA InitPauses == Init => PauseInv
  <1> SUFFICES ASSUME Init PROVE PauseInv
    OBVIOUS
  <1>1. \A r \in Run : run[r] = Fresh(r) /\ run[r].pc = "new" /\ run[r].turn = r
    BY FreshType DEF Init
  <1>2. resumer.pc = "idle" /\ stopper.pc = "idle" /\ watcher.pc = "idle" /\ lock = Ready
    BY NoViewType DEF Init
  <1> QED
    BY <1>1, <1>2 DEF PauseInv, NoResume, Holding, Reads, ReadOK, PausedRow

LEMMA FreeAlways == ASSUME "resume" \notin Clicks PROVE Spec => [](Core /\ PauseInv)
  <1>1. TypesOK /\ Core /\ PauseInv /\ DownIsQuiet /\ [Next]_vars => Core' /\ PauseInv' /\ DownIsQuiet'
    BY FreeNext
  <1>2. Init => Core /\ PauseInv /\ DownIsQuiet
    BY InitCore, InitPauses
  <1> QED
    BY <1>1, <1>2, TypesAlways, PTL DEF Spec

\* Where nobody clicks Resume a run that may still change the video has its lock, and a turn that ended as stopped
\* has nothing in it, wherever the steps of Stop, Pause and the watcher fall.
THEOREM WorksWithoutResume ==
    ASSUME "resume" \notin Clicks
    PROVE  Spec => [](WorksUnderItsLock /\ StoppedLeavesNothing)
  <1>1. Core => WorksUnderItsLock /\ StoppedLeavesNothing
    BY UnderItsLock, PlacesApart DEF Core, Ends, EndOK, StoppedLeavesNothing
  <1> QED
    BY <1>1, FreeAlways, PTL

\* And while a pause holds the video nothing is added to it.
THEOREM PauseWithoutResume == ASSUME "resume" \notin Clicks PROVE Spec => PausedAddsNothing
  <1>1. Core /\ [Next]_vars => [PausedRow(lock) => edits' \subseteq edits]_vars
    BY PauseAdds DEF Core
  <1> QED
    BY <1>1, FreeAlways, PTL DEF Spec, PausedAddsNothing

\* A route that puts back the snapshot of a pause the video is no longer in.
LatePut ==
    \/ StopPut /\ stopper.lock # lock
    \/ WatchPut /\ watcher.lock # lock

LEMMA LandedNext ==
    ASSUME TypesOK, Core, PauseInv, [Next]_vars
    PROVE  LandedStays \/ LatePut
  <1> SUFFICES ASSUME ~Astray, NEW m \in edits, run[m].pc = "over", run[m].out \in {"done", "gate"}, ~LatePut
               PROVE  m \in edits'
    BY DEF LandedStays
  <1>a. LandedKept /\ Snaps /\ HasLock /\ Landed(m) /\ m \in Run /\ ReadOK(stopper) /\ ReadOK(watcher)
    BY DEF Core, Landed, TypesOK, LockType, PauseInv, Reads
  <1>1. ASSUME NEW r \in Run, Outcome(r) \/ Final(r) PROVE m \in edits'
    <2>1. edits' = edits \/ edits' = edits \cap run[r].snap
      BY <1>1 DEF Outcome, Final, Restore
    <2>2. CASE edits' = edits \cap run[r].snap
      <3>1. Held(By("turn", r)) /\ run[r].pc \in OnTurn \cup Finishing
        <4>1. CASE Outcome(r)
          BY <1>a, <4>1, UnderItsLock, PlacesApart DEF Outcome, WorksUnderItsLock
        <4>2. CASE Final(r)
          BY <4>2, PlacesApart DEF Final, Astray
        <4> QED
          BY <1>1, <4>1, <4>2
      <3>2. run[r].snap = lock.shot
        BY <1>a, <3>1 DEF Snaps, SnapOK
      <3>3. lock # Ready /\ lock.key.kind = "turn"
        BY <3>1 DEF Held, By
      <3> QED
        BY <1>a, <2>2, <3>2, <3>3 DEF LandedKept
    <2> QED
      BY <2>1, <2>2
  <1>2. ASSUME NEW r \in Run, RunStep(r) PROVE m \in edits'
    <2>1. Outcome(r) \/ Final(r) \/ edits \subseteq edits'
      BY <1>2 DEF RunStep, TakeVideo, MakeJob, HandTurn, ForgetClicks, ShowRunning, Submit, Point, Check, Step, Told, Hold,
         ShowPaused, HoldEnds, TakeBack, ShowBack, Unhold, Close, ShowEnd, LetGo, Fail, HoldFails
    <2> QED
      BY <1>1, <2>1
  \* A put-back of the pause the video is in keeps what landed: its snapshot has it.
  <1>3. CASE StopPut \/ WatchPut
    <2>1. PausedRow(lock) /\ edits' = edits \cap lock.shot
      <3>1. CASE StopPut
        <4>1. stopper.pc = "put" /\ stopper.lock = lock
          BY <3>1, RouteIs DEF StopPut, At, LatePut
        <4> QED
          BY <1>a, <3>1, <4>1 DEF ReadOK, StopPut, PutBack, Restore
      <3>2. CASE WatchPut
        <4>1. watcher.pc = "put" /\ watcher.lock = lock
          BY <3>2, RouteIs DEF WatchPut, At, LatePut
        <4> QED
          BY <1>a, <3>2, <4>1 DEF ReadOK, WatchPut, PutBack, Restore
      <3> QED
        BY <1>3, <3>1, <3>2
    <2> QED
      BY <1>a, <2>1 DEF LandedKept, PausedRow
  <1>4. (\E r \in Run : RunStep(r)) \/ StopPut \/ WatchPut \/ edits' = edits
    BY DEF Next, RouteStep, StopClick, StopLook, StopDrop, StopVideo, StopMark, StopAnswer, PauseClick, PauseAsk, PauseMark,
       ResumeClick, ResumeMark, ResumeLook, ResumeStart, WatchRead, WatchLook, WatchDrop, LookAtView, Deadline, Crash,
       Restart, vars
  <1> QED
    BY <1>2, <1>3, <1>4

\* Where nobody clicks Resume, however the steps of Stop, Pause, the watcher, crashes and restarts cross, what a
\* turn that ended well put in the video is taken out by one thing only: a Stop or an auto-stop of a pause
\* (_stop_left_pause, which puts the snapshot back without the lock) that comes to it after the video has
\* left that pause.  No turn's own end and no put-back of the pause the video is in takes it out.
THEOREM LandedIsSafe ==
    ASSUME "resume" \notin Clicks
    PROVE  Spec => [][LandedStays \/ LatePut]_vars
  <1>1. TypesOK /\ Core /\ PauseInv /\ [Next]_vars => [LandedStays \/ LatePut]_vars
    BY LandedNext
  <1> QED
    BY <1>1, FreeAlways, TypesAlways, PTL DEF Spec
==============================================================================
