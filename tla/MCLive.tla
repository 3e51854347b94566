-------------------------------- MODULE MCLive --------------------------------
(***************************************************************************)
(* What must end, come back or be served: a turn under Stop and Pause and  *)
(* a change made by hand (each with the races its own run rules out: a     *)
(* Stop that is not prompt, calls that raise), the server after crashes    *)
(* and refusals, a change in Up next (listeners, runners and routes step   *)
(* by step), a payment whose event is delivered until it is answered, a    *)
(* batch of videos and a batch export.  One part is at work in a           *)
(* behaviour; the others stand still.  The fairness is each module's own,  *)
(* asked of the part at work.                                              *)
(***************************************************************************)
EXTENDS Integers, FiniteSets

CONSTANTS
    Run, Ready,                                  \* the turn
    Edition, Addition, Preview, Stopper, Vacant,  \* the change made by hand
    Proc,                                        \* the server
    Card, Asked, Listener,                       \* the queue
    Checkout, Handler, Admin,                    \* the payment
    Picture, Film,                               \* the export
    Clip, Person,                                \* the batch
    Nobody

VARIABLES
    part,
    tLock, tEdits, tRun, tStops, tAsked, tHolding, tView, tPaused, tStopper, tPauser, tResumer,
    tWatcher, tUp, tFaults,
    aLock, aEdits, aRows, aMeant, aReq, aJob, aWorker, aMade, aStop, aStops, aUp, aCrashes,
    sProc, sLease, sCall, sJob, sLock, sSpent, sOpen, sEnds, sSecond,
    qStatus, qLine, qPaused, qQuestion, qLock, qTell, qStart, qDue, qAdding, qWork, qClicks, qUp, qCrashes,
    bPlan, bGrants, bOrders, bInvoices, bEvent, bSeen, bHandler, bRefunded, bSentBack, bAdmin, bCrashes,
    xPhase, xItems, xMoved, xStage, xParent, xChild, xThread, xDriver, xLock, xBusy, xHeld, xDisk,
    xStopping, xBroke, xUp, xFaults,
    gPhase, gCancelled, gPaused, gLate, gParent, gChild, gAnswers, gWorker, gTurn, gQuestion, gPaid, gAns,
    gCalls, gCrossed, gClicks, gUp, gCrashes

Turn == INSTANCE TurnControl WITH
    MaxCalls <- 1, MaxFaults <- 1, Clicks <- {"stop", "pause", "watch"}, Atomic <- {"pause", "watch"},
    lock <- tLock, edits <- tEdits, run <- tRun, stops <- tStops, asked <- tAsked, holding <- tHolding,
    view <- tView, paused <- tPaused, stopper <- tStopper, pauser <- tPauser, resumer <- tResumer,
    watcher <- tWatcher, up <- tUp, faults <- tFaults

Landing == INSTANCE AddLanding WITH
    Change <- Edition, Add <- Addition, Free <- Vacant,
    MaxStops <- 1, MaxCrashes <- 0, StopsArePrompt <- FALSE,
    lock <- aLock, edits <- aEdits, rows <- aRows, meant <- aMeant, req <- aReq, job <- aJob,
    worker <- aWorker, made <- aMade, stop <- aStop, stops <- aStops, serving <- aUp, crashes <- aCrashes

Server == INSTANCE OneServer WITH
    HostOf <- [p \in Proc |-> p = CHOOSE q \in Proc : TRUE], Call <- {}, Edit <- {}, None <- Nobody,
    Ceiling <- 0, TTL <- 2, MaxTries <- 1, MaxEnds <- 2, MaxSecond <- 1, RenewalsKeepUp <- TRUE,
    proc <- sProc, lease <- sLease, call <- sCall, job <- sJob, lock <- sLock, spent <- sSpent,
    open <- sOpen, ends <- sEnds, second <- sSecond

Queue == INSTANCE UpNext WITH
    Item <- Card, Goal <- Asked, None <- Nobody, Slot <- Listener, MAX <- 2, MaxClicks <- 1, MaxCrashes <- 0,
    ThreadsArePrompt <- FALSE, CallsMayRaise <- FALSE,
    status <- qStatus, line <- qLine, paused <- qPaused, question <- qQuestion, lock <- qLock, tell <- qTell,
    start <- qStart, due <- qDue, adding <- qAdding, work <- qWork, clicks <- qClicks, up <- qUp, crashes <- qCrashes

\* One plan, bought in one month, with no work that spends.
Payment == INSTANCE Billing WITH
    TOPUP_MONTHS <- 1, Never <- 9, Plans <- {"A"}, PlanCredits <- [p \in {"A"} |-> 1],
    TrialCredits <- 1, TopupCredits <- 1, GivenCredits <- 1, Checkouts <- Checkout, Handlers <- Handler,
    Admins <- Admin, Jobs <- {}, None <- Nobody, LastMonth <- 0, MaxGiven <- 0, MaxUsed <- 0, MaxCrashes <- 1,
    since <- 0, month <- 0, usage <- [t \in {0} |-> 0], asked <- {}, given <- 0,
    plan <- bPlan, grants <- bGrants, orders <- bOrders, invoices <- bInvoices, event <- bEvent,
    seen <- bSeen, handler <- bHandler, refunded <- bRefunded, sentBack <- bSentBack, admin <- bAdmin,
    crashes <- bCrashes

\* Every file is of one video, no name is asked for twice, and a file is tried once.
Export == INSTANCE ExportEngine WITH
    File <- Picture, Video <- {Film}, VideoOf <- [f \in Picture |-> Film], Stem <- [f \in Picture |-> f], None <- Nobody,
    Concurrency <- 2, Attempts <- 1, MaxFaults <- 1,
    phase <- xPhase, items <- xItems, moved <- xMoved, stage <- xStage, parent <- xParent, child <- xChild,
    thread <- xThread, driver <- xDriver, lock <- xLock, busy <- xBusy, held <- xHeld, disk <- xDisk,
    stopping <- xStopping, broke <- xBroke, up <- xUp, faults <- xFaults

\* A pool of one thread, for which the second video waits; a turn makes one paid call.
Batch == INSTANCE BatchEngine WITH
    Video <- Clip, CONCURRENCY <- 1, Cap <- 1, Answer <- {}, Clicker <- Person, Engine <- Nobody,
    MaxClicks <- 2, MaxCrashes <- 1,
    phase <- gPhase, cancelled <- gCancelled, paused <- gPaused, late <- gLate, parent <- gParent,
    child <- gChild, answers <- gAnswers, worker <- gWorker, turn <- gTurn, question <- gQuestion,
    paid <- gPaid, ans <- gAns, calls <- gCalls, crossed <- gCrossed, clicks <- gClicks, up <- gUp,
    crashes <- gCrashes

turnVars == <<tLock, tEdits, tRun, tStops, tAsked, tHolding, tView, tPaused, tStopper, tPauser,
              tResumer, tWatcher, tUp, tFaults>>
landingVars == <<aLock, aEdits, aRows, aMeant, aReq, aJob, aWorker, aMade, aStop, aStops, aUp, aCrashes>>
serverVars == <<sProc, sLease, sCall, sJob, sLock, sSpent, sOpen, sEnds, sSecond>>
queueVars == <<qStatus, qLine, qPaused, qQuestion, qLock, qTell, qStart, qDue, qAdding, qWork, qClicks, qUp, qCrashes>>
paymentVars == <<bPlan, bGrants, bOrders, bInvoices, bEvent, bSeen, bHandler, bRefunded, bSentBack, bAdmin, bCrashes>>
exportVars == <<xPhase, xItems, xMoved, xStage, xParent, xChild, xThread, xDriver, xLock, xBusy, xHeld, xDisk,
                xStopping, xBroke, xUp, xFaults>>
batchVars == <<gPhase, gCancelled, gPaused, gLate, gParent, gChild, gAnswers, gWorker, gTurn, gQuestion, gPaid,
               gAns, gCalls, gCrossed, gClicks, gUp, gCrashes>>
vars == <<part, turnVars, landingVars, serverVars, queueVars, paymentVars, exportVars, batchVars>>

At(p) == part = p

Init ==
    /\ part \in {"turn", "landing", "server", "queue", "payment", "export", "batch"}
    /\ Turn!Init /\ Landing!LandingInit /\ Server!Init /\ Queue!Init /\ Payment!Unread /\ Export!Init /\ Batch!Init

\* Bound: of the changes, the preview and the Stop of a landing, any three.
LandingBegun ==
    Cardinality({c \in Edition : aReq[c].pc # "new"} \cup {p \in Preview : aJob[p].status # "none"}) + aStops

Next ==
    /\ UNCHANGED part
    /\ \/ /\ At("turn") /\ Turn!Next
          /\ UNCHANGED <<landingVars, serverVars, queueVars, paymentVars, exportVars, batchVars>>
       \/ /\ At("landing") /\ Landing!LandingNext /\ LandingBegun' <= 3
          /\ UNCHANGED <<turnVars, serverVars, queueVars, paymentVars, exportVars, batchVars>>
       \/ /\ At("server") /\ Server!Next
          /\ UNCHANGED <<turnVars, landingVars, queueVars, paymentVars, exportVars, batchVars>>
       \/ /\ At("queue") /\ Queue!Next
          /\ UNCHANGED <<turnVars, landingVars, serverVars, paymentVars, exportVars, batchVars>>
       \/ /\ At("payment") /\ Payment!Next
          /\ UNCHANGED <<turnVars, landingVars, serverVars, queueVars, exportVars, batchVars>>
       \/ /\ At("export") /\ Export!Next
          /\ UNCHANGED <<turnVars, landingVars, serverVars, queueVars, paymentVars, batchVars>>
       \/ /\ At("batch") /\ Batch!Next
          /\ UNCHANGED <<turnVars, landingVars, serverVars, queueVars, paymentVars, exportVars>>

FairSpec ==
    /\ Init /\ [][Next]_vars
    /\ \A r \in Run : SF_turnVars(At("turn") /\ tRun[r].pc # "new" /\ Turn!RunStep(r))
    /\ SF_turnVars(At("turn") /\ Turn!WatchRead)
    /\ WF_turnVars(At("turn") /\ Turn!RouteStep) /\ WF_turnVars(At("turn") /\ Turn!Deadline)
    /\ WF_turnVars(At("turn") /\ Turn!Restart)
    /\ WF_landingVars(At("landing") /\ Landing!ServerGoesOn)
    /\ \A p \in Proc :
         /\ WF_serverVars(At("server") /\ (Server!StartStep(p) \/ Server!Release(p) \/ Server!Exit(p)))
         /\ WF_serverVars(At("server") /\ Server!Renew(p))
    /\ WF_serverVars(At("server") /\ Server!Tick) /\ WF_serverVars(At("server") /\ Server!Respawn)
    /\ WF_queueVars(At("queue") /\ (Queue!AddLook \/ Queue!Restart \/ \E s \in Listener : Queue!ThreadStep(s)))
    /\ WF_queueVars(At("queue") /\ Queue!WorkStep) /\ WF_queueVars(At("queue") /\ Queue!CarryOn)
    /\ \A c \in Checkout : WF_paymentVars(At("payment") /\ \E h \in Handler : Payment!Deliver(h, c))
    /\ WF_paymentVars(At("payment") /\ \E h \in Handler : Payment!Handle(h))
    /\ WF_exportVars(At("export") /\ Export!GoesOn)
    /\ WF_batchVars(At("batch") /\ Batch!Close) /\ WF_batchVars(At("batch") /\ Batch!Deadline)
    /\ WF_batchVars(At("batch") /\ Batch!Restart)
    /\ \A v \in Clip : /\ WF_batchVars(At("batch") /\ Batch!ChildStep(v))
                       /\ WF_batchVars(At("batch") /\ Batch!TurnEnds(v))
    /\ \A c \in Person \cup Clip : WF_batchVars(At("batch") /\ Batch!CallStep(c))
------------------------------------------------------------------------------
(* Properties: each part's own, under its name here. *)

\* What must be so meanwhile, also when a Stop comes between any two of the run's steps, the database
\* or the pool refuses a call, and every thread of the queue may stop between any two of its steps: a
\* run that may still change the video has its lock, one that ended as stopped has nothing in the
\* video (TurnControl), and one change of the queue is at work at a time (UpNext).
SafeMeanwhile ==
    /\ At("turn") => Turn!TypeOK /\ Turn!WorksUnderItsLock /\ Turn!StoppedLeavesNothing
    /\ At("queue") => Queue!TypeOK /\ Queue!OneStarted

\* The lock of a turn, a request or a pause never sticks (pause.py: "so the lock never sticks").
TurnLockGoes == At("turn") => Turn!LockGoes

\* Whatever job a change's lock was passed to, and when that job ended: the video is Ready again.
LandingEnds == At("landing") => Landing!LandingEnds

\* The service comes back after every crash: on the same host at once, elsewhere when the dead
\* server's lease has run out (lease.py), whatever refusals come first.
ServerComesBack == At("server") => Server!ComesBack

\* No queued change is forgotten behind a video that is Ready, and a started one ends or waits on
\* the user (UpNext).
QueueMoves == At("queue") => Queue!QueueMoves

\* A payment the provider took is granted in the end, through duplicate and late events, the
\* browser's own confirmation, refunds and a crash (Billing).
PaymentIsGranted == At("payment") => Payment!PaidIsGranted

\* An export ends, whatever its threads, a Stop, the sweep or a crash do to it, unless the database
\* refuses its driver a call (ExportEngine).
ExportEnds == At("export") => Export!ExportEnds

\* A batch that was started ends, through Cancel, Pause, Resume, the deadline of a pause, waits given
\* up and a crash (BatchEngine).
BatchEnds == At("batch") => Batch!BatchEnds
===============================================================================
