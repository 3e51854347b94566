-------------------------- MODULE ExportEngineProofs --------------------------
(***************************************************************************)
(* Proofs about ExportEngine for any files, videos, threads, attempts and  *)
(* faults: the type invariant, that the parent ends last, that a file's    *)
(* row names its own picture, and that a video moves when its last file    *)
(* was made.                                                               *)
(***************************************************************************)
EXTENDS ExportEngine, TLAPS

Pc == {"queued", "over"} \cup Working
Item == [file : Names \cup {None}, error : BOOLEAN, attempts : 0..Attempts]

\* An attempt that starts is one that is left.
TriesLeft ==
    \A f \in File :
        /\ thread[f] \in {"queued", "begin"} => items[f].attempts = 0
        /\ thread[f] = "try" => items[f].attempts < Attempts

TypeInv == TypeOK /\ TriesLeft

\* A file whose attempt raised tries again or writes its reason; its name and its attempts stay.
LEMMA RaisedFacts ==
    ASSUME TypeInv, NEW f \in File, thread[f] \in {"wait", "render", "deliver"}, Raised(f)
    PROVE  /\ thread' \in [File -> Pc] /\ items' \in [File -> Item]
           /\ thread'[f] \in {"try", "fail"}
           /\ \A g \in File \ {f} : thread'[g] = thread[g]
           /\ \A g \in File : items'[g].file = items[g].file /\ items'[g].attempts = items[g].attempts
           /\ thread'[f] = "try" => items[f].attempts < Attempts
  <1>1. items \in [File -> Item] /\ thread \in [File -> Pc]
    BY DEF TypeInv, TypeOK, Item, Pc
  <1>2. CASE items[f].attempts < Attempts
    BY <1>1, <1>2 DEF Raised, To, Pc, Working
  <1>3. CASE ~(items[f].attempts < Attempts)
    <2>1. thread' = [thread EXCEPT ![f] = "fail"] /\ items' = [items EXCEPT ![f].error = TRUE]
      BY <1>3 DEF Raised, To
    <2>2. items[f] \in Item
      BY <1>1
    <2> QED
      BY <1>1, <2>1, <2>2 DEF Item, Pc, Working
  <1> QED
    BY <1>2, <1>3

\* A job that is over stays as it is, and one that is not takes its new status.
LEMMA MovedStatus ==
    ASSUME NEW was \in {"queued", "running"} \cup Over, NEW status \in {"running"} \cup Over
    PROVE  /\ Moved(was, status) \in {"running"} \cup Over
           /\ was \in Over => Moved(was, status) = was
           /\ was \notin Over => Moved(was, status) = status
  BY DEF Moved

\* A job that failed work ends reads failed, unless it was over already.
LEMMA FailedStatus ==
    ASSUME NEW was \in {"queued", "running"} \cup Over
    PROVE  /\ Moved(was, "failed") \in Over
           /\ was \in {"running"} \cup Over => Moved(was, "failed") \in {"running"} \cup Over
  BY DEF Moved, Over

------------------------------------------------------------------------------
\* An export that has just been started has the types.
LEMMA InitType == Init => TypeInv
  <1> SUFFICES ASSUME Init PROVE TypeInv
    OBVIOUS
  <1> USE ExportAssumption
  <1>1. items \in [File -> [file : Names \cup {None}, error : BOOLEAN, attempts : 0..Attempts]]
    BY DEF Init
  <1>2. child \in [File -> {"queued", "running"} \cup Over] /\ thread \in [File -> {"queued", "over"} \cup Working]
    BY DEF Init
  <1>3. broke \in BOOLEAN /\ up \in BOOLEAN
    BY Zenon DEF Init
  <1>4. faults \in 0..MaxFaults
    BY DEF Init
  <1>5. TypeOK
    BY <1>1, <1>2, <1>3, <1>4 DEF Init, TypeOK
  <1> QED
    BY <1>5 DEF Init, TypeInv, TriesLeft

\* A step of one thread, and what it may leave behind, keeps the types.
LEMMA FileStepType ==
    ASSUME TypeInv, NEW f \in File,
           OneFile(f) \/ Breaks(f) \/ StopCancels(f) \/ SweepChild(f)
    PROVE  TypeInv'
  <1> USE ExportAssumption DEF TypeInv
  <1> USE DEF Item, Pc
  <1>0. /\ thread \in [File -> Pc] /\ items \in [File -> Item] /\ items[f] \in Item
        /\ child \in [File -> {"queued", "running"} \cup Over] /\ VideoOf[f] \in Video
        /\ lock \in [Video -> File \cup {None}]
    BY DEF TypeOK
  <1>1. CASE PoolTakes(f)
    BY <1>0, <1>1 DEF PoolTakes, At, To, TypeOK, TriesLeft, Working, record, jobs, place, bounds
  <1>2. CASE Begin(f)
    BY <1>0, <1>2, MovedStatus DEF Begin, Child, At, To, TypeOK, TriesLeft, Working, Over, record, place, bounds
  <1>3. CASE Try(f)
    <2>1. items[f].attempts \in 0..Attempts /\ items[f].attempts < Attempts
      BY <1>0, <1>3 DEF Try, At, TriesLeft
    <2>2. items' = [items EXCEPT ![f] = [items[f] EXCEPT !.attempts = items[f].attempts + 1]]
      BY <1>3 DEF Try
    <2>3. items' \in [File -> Item] /\ \A g \in File \ {f} : items'[g] = items[g]
      BY <1>0, <2>1, <2>2
    <2> QED
      BY <1>0, <1>3, <2>3 DEF Try, At, To, TypeOK, TriesLeft, Working, jobs, place, bounds
  <1>4. CASE TakeVideo(f)
    <2>1. lock' \in [Video -> File \cup {None}] /\ thread[f] = "wait"
      BY <1>0, <1>4 DEF TakeVideo, At
    <2>2. thread' \in [File -> Pc] /\ items' \in [File -> Item] /\ TriesLeft'
      <3>1. CASE Raised(f)
        BY <1>0, <2>1, <3>1, RaisedFacts DEF TriesLeft
      <3>2. CASE To(f, "render") /\ UNCHANGED items
        BY <1>0, <3>2 DEF To, Working, TriesLeft
      <3> QED
        BY <1>4, <3>1, <3>2 DEF TakeVideo
    <2> QED
      BY <1>4, <2>1, <2>2 DEF TakeVideo, TypeOK, jobs, bounds
  <1>5. CASE Render(f)
    <2>1. thread' \in [File -> Pc] /\ items' \in [File -> Item] /\ lock' \in [Video -> File \cup {None}]
      BY <1>0, <1>5, RaisedFacts DEF Render, At, To, Working
    <2>2. TriesLeft'
      BY <1>0, <1>5, RaisedFacts DEF Render, At, To, Working, TriesLeft
    <2> QED
      BY <1>5, <2>1, <2>2 DEF Render, TypeOK, jobs, bounds
  <1>6. CASE PickName(f)
    BY <1>0, <1>6 DEF PickName, At, To, TypeOK, TriesLeft, Working, Names, record, jobs, bounds
  <1>7. CASE Deliver(f)
    <2>1. thread' \in [File -> Pc] /\ items' \in [File -> Item]
      BY <1>0, <1>7, RaisedFacts DEF Deliver, At, To, Working
    <2>2. TriesLeft'
      BY <1>0, <1>7, RaisedFacts DEF Deliver, At, To, Working, TriesLeft
    <2>3. disk' \in [Names -> File \cup {None}]
      BY <1>7 DEF Deliver, TypeOK
    <2> QED
      BY <1>7, <2>1, <2>2, <2>3 DEF Deliver, TypeOK, jobs, bounds
  <1>8. CASE Made(f)
    <2>1. items' = [items EXCEPT ![f] = [items[f] EXCEPT !.file = held[f], !.error = FALSE]]
      BY <1>8 DEF Made
    <2>2. items' \in [File -> Item] /\ \A g \in File : items'[g].attempts = items[g].attempts
      BY <1>0, <2>1 DEF TypeOK
    <2> QED
      BY <1>0, <1>8, <2>2 DEF Made, At, To, TypeOK, TriesLeft, Working, jobs, place, bounds
  <1>9. CASE Finish(f)
    BY <1>0, <1>9, MovedStatus DEF Finish, Child, At, To, TypeOK, TriesLeft, Working, Over, record, place, bounds
  <1>10. CASE VideoDone(f)
    BY <1>0, <1>10 DEF VideoDone, At, To, TypeOK, TriesLeft, Working, jobs, place, bounds
  <1>11. CASE MoveStage(f)
    BY <1>0, <1>11 DEF MoveStage, At, To, TypeOK, TriesLeft, Working, record, jobs, place, bounds
  <1>12. CASE FailFile(f)
    BY <1>0, <1>12, MovedStatus DEF FailFile, Child, At, To, TypeOK, TriesLeft, Working, Over, record, place, bounds
  <1>13. CASE Progress(f)
    BY <1>0, <1>13 DEF Progress, At, To, TypeOK, TriesLeft, Working, record, jobs, place, bounds
  <1>14. CASE Breaks(f)
    BY <1>0, <1>14 DEF Breaks, Fault, To, TypeOK, TriesLeft, Working, record, jobs, place
  <1>15. CASE StopCancels(f)
    BY <1>0, <1>15, MovedStatus DEF StopCancels, Child, TypeOK, TriesLeft, Over, record, place, bounds
  <1>16. CASE SweepChild(f)
    BY <1>0, <1>16, MovedStatus DEF SweepChild, Child, Fault, TypeOK, TriesLeft, Over, record, place
  <1> QED
    BY <1>1, <1>2, <1>3, <1>4, <1>5, <1>6, <1>7, <1>8, <1>9, <1>10, <1>11, <1>12, <1>13, <1>14, <1>15, <1>16
       DEF OneFile

\* A driver that breaks off fails some children that were not over, and ends none another way.
LEMMA DriverBreaksKeeps ==
    ASSUME TypeInv, DriverBreaks
    PROVE  /\ child' \in [File -> {"queued", "running"} \cup Over]
           /\ \A f \in File : child[f] \in Over => child'[f] = child[f]
           /\ \A f \in File : child'[f] = "done" => child[f] = "done"
  <1>0. child \in [File -> {"queued", "running"} \cup Over]
    BY DEF TypeInv, TypeOK
  <1>1. CASE UNCHANGED child
    BY <1>0, <1>1
  <1>2. ASSUME NEW failed \in SUBSET File,
               child' = [f \in File |-> IF f \in failed THEN Moved(child[f], "failed") ELSE child[f]]
        PROVE  /\ child' \in [File -> {"queued", "running"} \cup Over]
               /\ \A f \in File : child[f] \in Over => child'[f] = child[f]
               /\ \A f \in File : child'[f] = "done" => child[f] = "done"
    <2>1. \A f \in File : /\ Moved(child[f], "failed") \in {"queued", "running"} \cup Over
                          /\ child[f] \in Over => Moved(child[f], "failed") = child[f]
                          /\ Moved(child[f], "failed") = "done" => child[f] = "done"
      BY <1>0, FailedStatus DEF Moved
    <2>2. \A f \in File : child'[f] = child[f] \/ child'[f] = Moved(child[f], "failed")
      BY <1>2
    <2>3. DOMAIN child' = File /\ child' = [f \in File |-> child'[f]]
      BY <1>2
    <2> QED
      BY <1>0, <2>1, <2>2, <2>3
  <1> QED
    BY <1>1, <1>2 DEF DriverBreaks

\* A step of what goes on around the files keeps the types.
LEMMA OtherStepType ==
    ASSUME TypeInv,
           Drive \/ DriverBreaks \/ SweepParent \/ Crash \/ Restart \/ \E v \in Video : OtherWork(v) \/ StopLists(v)
    PROVE  TypeInv'
  <1> USE ExportAssumption DEF TypeInv, TriesLeft
  <1>1. ASSUME NEW d \in {"waits", "ends"}, Close(d) PROVE TypeInv'
    <2>1. \A f \in File : Moved(child[f], "failed") \in {"queued", "running"} \cup Over
      BY FailedStatus DEF TypeOK
    <2>2. child' \in [File -> {"queued", "running"} \cup Over]
      BY <1>1, <2>1 DEF Close
    <2>3. \A f \in File : [items[f] EXCEPT !.error = @ \/ child[f] \notin Over] \in Item
                          /\ [items[f] EXCEPT !.error = @ \/ child[f] \notin Over].attempts = items[f].attempts
      <3>1. SUFFICES ASSUME NEW f \in File, NEW b \in BOOLEAN
                     PROVE  [items[f] EXCEPT !.error = b] \in Item
                            /\ [items[f] EXCEPT !.error = b].attempts = items[f].attempts
        BY DEF TypeOK
      <3>2. items[f] \in Item
        BY DEF TypeOK, Item
      <3> QED
        BY <3>2 DEF Item
    <2>4. items' \in [File -> Item] /\ \A f \in File : items'[f].attempts = items[f].attempts
      BY <1>1, <2>3 DEF Close
    <2> QED
      BY <1>1, <2>2, <2>4 DEF Close, TypeOK, Item, place, bounds, AllBack
  <1>2. ASSUME NEW d \in {"waits", "ends"}, EndParent(d) PROVE TypeInv'
    BY <1>2 DEF EndParent, Moved, TypeOK, Over, record, place, bounds
  <1>3. CASE SweepParent
    BY <1>3 DEF SweepParent, Fault, TypeOK, Over, record, place
  <1>4. CASE Crash
    <2>1. up' \in BOOLEAN
      BY <1>4 DEF Crash
    <2> QED
      BY <1>4, <2>1 DEF Crash, Fault, TypeOK, record, jobs, place
  <1>5. CASE Restart
    <2>1. \A f \in File : Moved(child[f], "failed") \in {"queued", "running"} \cup Over
      BY FailedStatus DEF TypeOK
    <2>2. child' \in [File -> {"queued", "running"} \cup Over]
      BY <1>5, <2>1 DEF Restart
    <2>3. parent' \in {"running"} \cup Over
      BY <1>5, FailedStatus DEF Restart, TypeOK
    <2>4. thread' \in [File -> Pc] /\ TriesLeft'
      BY <1>5 DEF Restart, Pc
    <2>5. /\ lock' \in [Video -> File \cup {None}] /\ busy' \subseteq Video /\ stopping' \subseteq File
          /\ held' \in [File -> Names \cup {None}]
      BY <1>5 DEF Restart
    <2>6. up' \in BOOLEAN
      BY <1>5 DEF Restart
    <2> QED
      BY <1>5, <2>2, <2>3, <2>4, <2>5, <2>6 DEF Restart, TypeOK, record, Pc
  <1>6. ASSUME NEW v \in Video, OtherWork(v) PROVE TypeInv'
    BY <1>6 DEF OtherWork, TypeOK, record, jobs, bounds
  <1>7. ASSUME NEW v \in Video, StopLists(v) PROVE TypeInv'
    BY <1>7 DEF StopLists, Fault, TypeOK, record, jobs, place
  <1>8. CASE DriverBreaks
    <2>1. child' \in [File -> {"queued", "running"} \cup Over]
      BY <1>8, DriverBreaksKeeps
    <2>2. up' \in BOOLEAN /\ broke' \in BOOLEAN
      BY <1>8 DEF DriverBreaks, TypeOK
    <2> QED
      BY <1>8, <2>1, <2>2 DEF DriverBreaks, Fault, TypeOK, record, place
  <1> QED
    BY <1>1, <1>2, <1>3, <1>4, <1>5, <1>6, <1>7, <1>8 DEF Drive

\* Every step keeps the types, and leaves a thread that may try again a try.
LEMMA NextType == TypeInv /\ [Next]_vars => TypeInv'
  <1> SUFFICES ASSUME TypeInv, [Next]_vars PROVE TypeInv'
    OBVIOUS
  <1>1. CASE Next
    BY <1>1, FileStepType, OtherStepType DEF Next
  <1>2. CASE UNCHANGED vars
    BY <1>2 DEF TypeInv, TriesLeft, TypeOK, vars, record, jobs, place, bounds
  <1> QED
    BY <1>1, <1>2

------------------------------------------------------------------------------
FileStep(f) == OneFile(f) \/ Breaks(f) \/ StopCancels(f) \/ SweepChild(f)
AroundStep == Drive \/ DriverBreaks \/ SweepParent \/ Crash \/ Restart \/ \E v \in Video : OtherWork(v) \/ StopLists(v)

\* What a step of one file leaves alone.
LEMMA FileStepKeeps ==
    ASSUME TypeInv, NEW f \in File, FileStep(f)
    PROVE  /\ phase' = phase /\ driver' = driver /\ parent' = parent
           /\ \A g \in File \ {f} : thread'[g] = thread[g]
           /\ thread[f] = "over" => thread'[f] = "over"
           /\ \A g \in File : child[g] \in Over => child'[g] = child[g]
           /\ \A g \in File : \/ items'[g].file = items[g].file
                              \/ g = f /\ thread[f] = "made" /\ Made(f)
  <1>0. /\ thread \in [File -> Pc] /\ items \in [File -> Item]
        /\ child \in [File -> {"queued", "running"} \cup Over]
    BY DEF TypeInv, TypeOK, Item, Pc
  <1>1. CASE PoolTakes(f)
    BY <1>0, <1>1 DEF PoolTakes, At, To, record, jobs
  <1>2. CASE Begin(f)
    BY <1>0, <1>2 DEF Begin, Child, Moved, At, To, record
  <1>3. CASE Try(f)
    BY <1>0, <1>3 DEF Try, At, To, jobs, Item
  <1>4. CASE TakeVideo(f)
    BY <1>0, <1>4, RaisedFacts DEF TakeVideo, At, To, jobs
  <1>5. CASE Render(f)
    BY <1>0, <1>5, RaisedFacts DEF Render, At, To, jobs
  <1>6. CASE PickName(f)
    BY <1>0, <1>6 DEF PickName, At, To, record, jobs
  <1>7. CASE Deliver(f)
    BY <1>0, <1>7, RaisedFacts DEF Deliver, At, To, jobs
  <1>8. CASE Made(f)
    BY <1>0, <1>8 DEF Made, At, To, jobs
  <1>9. CASE Finish(f)
    BY <1>0, <1>9 DEF Finish, Child, Moved, At, To, record
  <1>10. CASE VideoDone(f)
    BY <1>0, <1>10 DEF VideoDone, At, To, jobs
  <1>11. CASE MoveStage(f)
    BY <1>0, <1>11 DEF MoveStage, At, To, record, jobs
  <1>12. CASE FailFile(f)
    BY <1>0, <1>12 DEF FailFile, Child, Moved, At, To, record
  <1>13. CASE Progress(f)
    BY <1>0, <1>13 DEF Progress, At, To, record, jobs
  <1>14. CASE Breaks(f)
    BY <1>0, <1>14 DEF Breaks, To, record, jobs
  <1>15. CASE StopCancels(f)
    BY <1>0, <1>15 DEF StopCancels, Child, Moved, record
  <1>16. CASE SweepChild(f)
    BY <1>0, <1>16 DEF SweepChild, Child, Moved, record
  <1> QED
    BY <1>1, <1>2, <1>3, <1>4, <1>5, <1>6, <1>7, <1>8, <1>9, <1>10, <1>11, <1>12, <1>13, <1>14, <1>15, <1>16
       DEF FileStep, OneFile
------------------------------------------------------------------------------
(* The parent ends last *)

\* The driver ends, and the parent reads done, when nothing is left to come back.
LastInv ==
    driver = "ends" \/ parent = "done" =>
        phase = "finished" /\ \A f \in File : thread[f] = "over" /\ child[f] \in Over

\* A step of one file keeps what the parent promises of the children.
LEMMA FileStepLast ==
    ASSUME TypeInv, LastInv, NEW f \in File, FileStep(f)
    PROVE  LastInv'
  BY FileStepKeeps DEF LastInv

\* So does a step of what goes on around the files: the close comes when all threads are back.
LEMMA AroundStepLast ==
    ASSUME TypeInv, LastInv, AroundStep
    PROVE  LastInv'
  <1>0. \A f \in File : /\ child[f] \in {"queued", "running"} \cup Over /\ Moved(child[f], "failed") \in Over
                       /\ child[f] \in Over => Moved(child[f], "failed") = child[f]
    BY FailedStatus DEF TypeInv, TypeOK, Moved
  <1>1. ASSUME NEW d \in {"waits", "ends"}, Close(d) PROVE LastInv'
    <2>1. phase' = "finished" /\ thread' = thread /\ \A f \in File : thread[f] = "over"
      BY <1>1 DEF Close, AllBack
    <2>2. child' = [f \in File |-> Moved(child[f], "failed")]
      BY <1>1, Zenon DEF Close
    <2>3. \A f \in File : child'[f] = Moved(child[f], "failed") /\ Moved(child[f], "failed") \in Over
      BY <2>2, FailedStatus DEF TypeInv, TypeOK
    <2>4. \A f \in File : thread'[f] = "over"
      BY <2>1
    <2> QED
      BY <2>1, <2>3, <2>4 DEF LastInv
  <1>2. ASSUME NEW d \in {"waits", "ends"}, EndParent(d) PROVE LastInv'
    BY <1>2 DEF EndParent, LastInv, record
  <1>3. CASE SweepParent
    BY <1>3 DEF SweepParent, LastInv, record
  <1>4. CASE Crash
    BY <1>4 DEF Crash, LastInv, record, jobs
  <1>5. CASE Restart
    BY <1>0, <1>5 DEF Restart, Moved, LastInv, record
  <1>6. ASSUME NEW v \in Video, OtherWork(v) \/ StopLists(v) PROVE LastInv'
    BY <1>6 DEF OtherWork, StopLists, LastInv, record, jobs
  <1>7. CASE DriverBreaks
    BY <1>7, DriverBreaksKeeps DEF DriverBreaks, LastInv, record
  <1> QED
    BY <1>1, <1>2, <1>3, <1>4, <1>5, <1>6, <1>7 DEF AroundStep, Drive
------------------------------------------------------------------------------
(* A file's row names its own picture *)

\* A thread that made its file, and where it goes from there.
AfterMade == {"finish", "look", "move", "progress", "over"}

\* What is named is there, a picked name is its thread's alone, and a job that reads done has its file.
FilesInv ==
    \A f \in File :
        /\ child[f] = "done" => items[f].file # None
        /\ items[f].file # None => disk[items[f].file] = f /\ thread[f] \in AfterMade
        /\ thread[f] \in {"deliver", "made"} => held[f] # None
        /\ thread[f] = "made" => disk[held[f]] = f
        /\ thread[f] \in {"finish", "look"} => items[f].file # None
        /\ \A g \in File \ {f} : held[g] # None => held[g] # held[f] /\ held[g] # items[f].file

\* A step that names, picks and writes nothing.
LEMMA QuietFiles ==
    ASSUME FilesInv, held' = held, disk' = disk, \A g \in File : items'[g].file = items[g].file,
           \A g \in File : child'[g] = "done" => child[g] = "done",
           \A g \in File : \/ thread'[g] = thread[g]
                          \/ /\ thread'[g] \notin {"deliver", "made", "finish", "look"}
                             /\ thread[g] \in AfterMade => thread'[g] \in AfterMade
    PROVE  FilesInv'
  BY DEF FilesInv

\* A step of one file keeps every name its own.
LEMMA FileStepFiles ==
    ASSUME TypeInv, FilesInv, NEW f \in File, FileStep(f)
    PROVE  FilesInv'
  <1>0. /\ thread \in [File -> Pc] /\ items \in [File -> Item] /\ None \notin Names
        /\ child \in [File -> {"queued", "running"} \cup Over]
        /\ held \in [File -> Names \cup {None}] /\ disk \in [Names -> File \cup {None}]
    BY ExportAssumption DEF TypeInv, TypeOK, Item, Pc
  <1>1. CASE PoolTakes(f)
    BY <1>0, <1>1, QuietFiles DEF PoolTakes, At, To, record, jobs, place, AfterMade
  <1>2. CASE Begin(f)
    BY <1>0, <1>2, QuietFiles DEF Begin, Child, Moved, At, To, record, place, AfterMade
  <1>3. CASE Try(f)
    BY <1>0, <1>3, QuietFiles DEF Try, At, To, jobs, place, Item, AfterMade
  <1>4. CASE TakeVideo(f)
    BY <1>0, <1>4, RaisedFacts, QuietFiles DEF TakeVideo, At, To, jobs, AfterMade
  <1>5. CASE Render(f)
    BY <1>0, <1>5, RaisedFacts, QuietFiles DEF Render, At, To, jobs, AfterMade
  <1>6. CASE PickName(f)
    <2>1. PICK n \in 1..Cardinality(File) :
             <<Stem[f], n>> \notin Taken(f) /\ held' = [held EXCEPT ![f] = <<Stem[f], n>>]
      BY <1>6 DEF PickName
    <2>2. <<Stem[f], n>> \in Names /\ held'[f] = <<Stem[f], n>> /\ \A g \in File \ {f} : held'[g] = held[g]
      BY <1>0, <2>1 DEF Names
    <2>3. \A g \in File \ {f} : held'[f] # items[g].file /\ held'[f] # held[g]
      BY <2>1, <2>2 DEF Taken
    <2>4. /\ items' = items /\ disk' = disk /\ child' = child
          /\ thread'[f] = "deliver" /\ items[f].file = None /\ \A g \in File \ {f} : thread'[g] = thread[g]
      BY <1>0, <1>6 DEF PickName, At, To, record, jobs, FilesInv, AfterMade
    <2> QED
      BY <1>0, <2>2, <2>3, <2>4 DEF FilesInv
  <1>7. CASE Deliver(f)
    <2>1. held' = held /\ child' = child /\ thread[f] = "deliver"
      BY <1>7 DEF Deliver, At, jobs
    <2>2. CASE Raised(f) /\ UNCHANGED disk
      BY <1>0, <2>1, <2>2, RaisedFacts, QuietFiles DEF AfterMade
    <2>3. CASE To(f, "made") /\ disk' = [disk EXCEPT ![held[f]] = f] /\ UNCHANGED items
      <3>1. held[f] \in Names /\ items[f].file = None
        BY <1>0, <2>1 DEF FilesInv, AfterMade
      <3>2. \A g \in File \ {f} :
               /\ items[g].file \in Names => disk'[items[g].file] = disk[items[g].file]
               /\ held[g] \in Names => disk'[held[g]] = disk[held[g]]
        BY <1>0, <2>3, <3>1 DEF FilesInv
      <3>3. disk'[held[f]] = f /\ thread'[f] = "made" /\ \A g \in File \ {f} : thread'[g] = thread[g]
        BY <1>0, <2>3, <3>1 DEF To
      <3>4. \A g \in File : items[g].file \in Names \cup {None}
        BY <1>0 DEF Item
      <3> QED
        BY <1>0, <2>1, <2>3, <3>1, <3>2, <3>3, <3>4 DEF FilesInv
    <2> QED
      BY <1>7, <2>2, <2>3 DEF Deliver
  <1>8. CASE Made(f)
    <2>1. held' = held /\ child' = child /\ disk' = disk /\ thread[f] = "made" /\ thread'[f] = "finish"
      BY <1>0, <1>8 DEF Made, At, To, jobs, place
    <2>2. /\ items'[f].file = held[f]
          /\ \A g \in File \ {f} : items'[g] = items[g] /\ thread'[g] = thread[g]
      BY <1>0, <1>8 DEF Made, To, Item
    <2> QED
      BY <1>0, <2>1, <2>2 DEF FilesInv, AfterMade
  <1>9. CASE Finish(f)
    <2>1. /\ held' = held /\ disk' = disk /\ items' = items /\ thread[f] = "finish" /\ thread'[f] = "look"
          /\ \A g \in File \ {f} : thread'[g] = thread[g] /\ child'[g] = child[g]
      BY <1>0, <1>9 DEF Finish, Child, At, To, record, place
    <2> QED
      BY <2>1 DEF FilesInv, AfterMade
  <1>10. CASE VideoDone(f)
    BY <1>0, <1>10, QuietFiles DEF VideoDone, At, To, jobs, place, AfterMade
  <1>11. CASE MoveStage(f)
    BY <1>0, <1>11, QuietFiles DEF MoveStage, At, To, record, jobs, place, AfterMade
  <1>12. CASE FailFile(f)
    BY <1>0, <1>12, QuietFiles DEF FailFile, Child, Moved, At, To, record, place, AfterMade
  <1>13. CASE Progress(f)
    BY <1>0, <1>13, QuietFiles DEF Progress, At, To, record, jobs, place, AfterMade
  <1>14. CASE Breaks(f)
    BY <1>0, <1>14, QuietFiles DEF Breaks, To, record, jobs, place, AfterMade
  <1>15. CASE StopCancels(f)
    BY <1>0, <1>15, QuietFiles DEF StopCancels, Child, Moved, record, place
  <1>16. CASE SweepChild(f)
    BY <1>0, <1>16, QuietFiles DEF SweepChild, Child, Moved, record, place
  <1> QED
    BY <1>1, <1>2, <1>3, <1>4, <1>5, <1>6, <1>7, <1>8, <1>9, <1>10, <1>11, <1>12, <1>13, <1>14, <1>15, <1>16
       DEF FileStep, OneFile

\* So does what goes on around the files: a crash forgets held names, never files.
LEMMA AroundStepFiles ==
    ASSUME TypeInv, FilesInv, AroundStep
    PROVE  FilesInv'
  <1>0. items \in [File -> Item] /\ \A f \in File : child[f] \in {"queued", "running"} \cup Over
    BY DEF TypeInv, TypeOK, Item
  <1>1. ASSUME NEW d \in {"waits", "ends"}, Close(d) PROVE FilesInv'
    <2>1. \A f \in File : items'[f].file = items[f].file
      BY <1>0, <1>1 DEF Close, Item
    <2>2. \A f \in File : child'[f] = "done" => child[f] = "done"
      BY <1>1 DEF Close, Moved
    <2> QED
      BY <1>1, <2>1, <2>2, QuietFiles DEF Close, place
  <1>2. ASSUME NEW d \in {"waits", "ends"}, EndParent(d) PROVE FilesInv'
    BY <1>2, QuietFiles DEF EndParent, record, place
  <1>3. CASE SweepParent
    BY <1>3, QuietFiles DEF SweepParent, record, place
  <1>4. CASE Crash
    BY <1>4, QuietFiles DEF Crash, record, jobs, place
  <1>5. CASE Restart
    BY <1>5 DEF Restart, Moved, FilesInv, record, AfterMade
  <1>6. ASSUME NEW v \in Video, OtherWork(v) \/ StopLists(v) PROVE FilesInv'
    BY <1>6, QuietFiles DEF OtherWork, StopLists, record, jobs, place
  <1>7. CASE DriverBreaks
    BY <1>7, DriverBreaksKeeps, QuietFiles DEF DriverBreaks, record, place
  <1> QED
    BY <1>1, <1>2, <1>3, <1>4, <1>5, <1>6, <1>7 DEF AroundStep, Drive

------------------------------------------------------------------------------
(* A video moves when its last file was made *)

\* Of a video whose files are all made and that was not moved, one thread has yet to look.
MoveInv ==
    /\ stage \subseteq moved /\ \A v \in moved : AllMade(v)
    /\ \A f \in File : thread[f] = "move" => VideoOf[f] \in moved
    /\ driver = "waits" /\ ~broke =>
          \A v \in Video \ moved : AllMade(v) => \E f \in File : VideoOf[f] = v /\ thread[f] \in {"finish", "look"}
    /\ phase = "finished" =>
          /\ driver # "waits" /\ \A f \in File : thread[f] = "over"
          /\ ~broke => \A v \in Video : AllMade(v) => v \in moved

\* A step that makes no file, moves no video and takes no thread past its look.
LEMMA QuietMove ==
    ASSUME MoveInv, NEW f \in File, moved' = moved, stage' = stage, phase' = phase, driver' = driver,
           broke' = broke, \A g \in File : items'[g].file = items[g].file,
           \A g \in File \ {f} : thread'[g] = thread[g],
           thread'[f] = "move" => thread[f] = "move", thread[f] = "over" => thread'[f] = "over",
           thread[f] \in {"finish", "look"} => thread'[f] \in {"finish", "look"}
    PROVE  MoveInv'
  BY DEF MoveInv, AllMade

\* A step of one file moves its video only once it was the last to be made.
LEMMA FileStepMove ==
    ASSUME TypeInv, FilesInv, MoveInv, NEW f \in File, FileStep(f)
    PROVE  MoveInv'
  <1>0. /\ thread \in [File -> Pc] /\ items \in [File -> Item] /\ VideoOf \in [File -> Video]
        /\ held \in [File -> Names \cup {None}] /\ None \notin Names
    BY ExportAssumption DEF TypeInv, TypeOK, Item, Pc
  <1>k. /\ phase' = phase /\ driver' = driver /\ \A g \in File \ {f} : thread'[g] = thread[g]
        /\ thread[f] = "over" => thread'[f] = "over"
    BY FileStepKeeps
  <1>1. CASE PoolTakes(f)
    BY <1>0, <1>k, <1>1, QuietMove DEF PoolTakes, At, To, record, bounds
  <1>2. CASE Begin(f)
    BY <1>0, <1>k, <1>2, QuietMove DEF Begin, At, To, record, bounds
  <1>3. CASE Try(f)
    BY <1>0, <1>k, <1>3, QuietMove DEF Try, At, To, Item, bounds
  <1>4. CASE TakeVideo(f)
    BY <1>0, <1>k, <1>4, RaisedFacts, QuietMove DEF TakeVideo, At, To, bounds
  <1>5. CASE Render(f)
    BY <1>0, <1>k, <1>5, RaisedFacts, QuietMove DEF Render, At, To, bounds
  <1>6. CASE PickName(f)
    BY <1>0, <1>k, <1>6, QuietMove DEF PickName, At, To, record, bounds
  <1>7. CASE Deliver(f)
    BY <1>0, <1>k, <1>7, RaisedFacts, QuietMove DEF Deliver, At, To, bounds
  <1>8. CASE Made(f)
    <2>1. /\ moved' = moved /\ stage' = stage /\ broke' = broke
          /\ thread[f] = "made" /\ thread'[f] = "finish"
      BY <1>0, <1>8 DEF Made, At, To, bounds
    <2>2. items'[f].file # None /\ \A g \in File \ {f} : items'[g].file = items[g].file
      BY <1>0, <1>8, <2>1 DEF Made, Item, FilesInv
    <2>3. \A v \in Video : AllMade(v) => AllMade(v)'
      BY <2>2 DEF AllMade
    <2>4. \A v \in Video : v # VideoOf[f] /\ AllMade(v)' => AllMade(v)
      BY <2>2 DEF AllMade
    <2>5. phase # "finished"
      BY <2>1 DEF MoveInv
    <2> QED
      BY <1>0, <1>k, <2>1, <2>2, <2>3, <2>4, <2>5 DEF MoveInv, TypeInv, TypeOK
  <1>9. CASE Finish(f)
    BY <1>0, <1>k, <1>9, QuietMove DEF Finish, At, To, record, bounds
  <1>10. CASE VideoDone(f)
    <2>1. /\ thread[f] = "look" /\ items' = items /\ stage' = stage /\ broke' = broke
      BY <1>10 DEF VideoDone, At, bounds
    <2>2. phase # "finished"
      BY <2>1 DEF MoveInv
    <2>3. \A v \in Video : AllMade(v)' <=> AllMade(v)
      BY <2>1 DEF AllMade
    <2>4. CASE VideoOf[f] \notin moved /\ AllMade(VideoOf[f])
      <3>1. moved' = moved \cup {VideoOf[f]} /\ thread'[f] = "move"
        BY <1>0, <1>10, <2>4 DEF VideoDone, To
      <3> QED
        BY <1>0, <1>k, <2>1, <2>2, <2>3, <2>4, <3>1 DEF MoveInv, TypeInv, TypeOK
    <2>5. CASE ~(VideoOf[f] \notin moved /\ AllMade(VideoOf[f]))
      <3>1. moved' = moved /\ thread'[f] = "progress"
        BY <1>0, <1>10, <2>5 DEF VideoDone, To
      <3> QED
        BY <1>0, <1>k, <2>1, <2>2, <2>3, <2>5, <3>1 DEF MoveInv, TypeInv, TypeOK
    <2> QED
      BY <2>4, <2>5
  <1>11. CASE MoveStage(f)
    <2>1. /\ items' = items /\ moved' = moved /\ broke' = broke /\ VideoOf[f] \in moved
          /\ stage' \in {stage, stage \cup {VideoOf[f]}} /\ thread[f] = "move" /\ thread'[f] = "progress"
      BY <1>0, <1>11 DEF MoveStage, At, To, record, bounds, MoveInv
    <2> QED
      BY <1>0, <1>k, <2>1 DEF MoveInv, AllMade
  <1>12. CASE FailFile(f)
    BY <1>0, <1>k, <1>12, QuietMove DEF FailFile, At, To, record, bounds
  <1>13. CASE Progress(f)
    BY <1>0, <1>k, <1>13, QuietMove DEF Progress, At, To, record, bounds
  <1>14. CASE Breaks(f)
    <2>1. /\ items' = items /\ moved' = moved /\ stage' = stage /\ broke'
          /\ thread[f] # "over" /\ thread'[f] = "over"
      BY <1>0, <1>14 DEF Breaks, To, record
    <2> QED
      BY <1>k, <2>1 DEF MoveInv, AllMade
  <1>15. CASE StopCancels(f)
    BY <1>0, <1>k, <1>15, QuietMove DEF StopCancels, record, bounds
  <1>16. CASE SweepChild(f)
    BY <1>0, <1>k, <1>16, QuietMove DEF SweepChild, record
  <1> QED
    BY <1>1, <1>2, <1>3, <1>4, <1>5, <1>6, <1>7, <1>8, <1>9, <1>10, <1>11, <1>12, <1>13, <1>14, <1>15, <1>16
       DEF FileStep, OneFile

\* What goes on around the files makes no file and moves no video.
LEMMA AroundStepMove ==
    ASSUME TypeInv, MoveInv, AroundStep
    PROVE  MoveInv'
  <1>1. ASSUME NEW d \in {"waits", "ends"}, Close(d) PROVE MoveInv'
    <2>1. /\ moved' = moved /\ stage' = stage /\ broke' = broke /\ thread' = thread /\ driver' = "ends"
          /\ driver = "waits" /\ \A f \in File : thread[f] = "over"
      BY <1>1 DEF Close, AllBack, bounds
    <2>2. items \in [File -> Item]
      BY DEF TypeInv, TypeOK, Item
    <2>3. \A f \in File : items'[f].file = items[f].file
      BY <1>1, <2>2 DEF Close, Item
    <2>4. \A v \in Video : AllMade(v)' <=> AllMade(v)
      BY <2>3 DEF AllMade
    <2> QED
      BY <2>1, <2>4 DEF MoveInv, TypeInv, TypeOK
  <1>2. ASSUME NEW d \in {"waits", "ends"}, EndParent(d) PROVE MoveInv'
    BY <1>2 DEF EndParent, MoveInv, AllMade, record, bounds
  <1>3. CASE SweepParent
    BY <1>3 DEF SweepParent, MoveInv, AllMade, record
  <1>4. CASE Crash
    BY <1>4 DEF Crash, MoveInv, AllMade, record
  <1>5. CASE Restart
    BY <1>5 DEF Restart, MoveInv, AllMade, record
  <1>6. ASSUME NEW v \in Video, OtherWork(v) \/ StopLists(v) PROVE MoveInv'
    BY <1>6 DEF OtherWork, StopLists, MoveInv, AllMade, record, bounds
  <1>7. CASE DriverBreaks
    BY <1>7 DEF DriverBreaks, MoveInv, AllMade, record
  <1> QED
    BY <1>1, <1>2, <1>3, <1>4, <1>5, <1>6, <1>7 DEF AroundStep, Drive
------------------------------------------------------------------------------
IInv == TypeInv /\ LastInv /\ FilesInv /\ MoveInv

\* An export that has just been started has the invariant.
LEMMA InitInv == Init => IInv
  <1> SUFFICES ASSUME Init PROVE IInv
    OBVIOUS
  <1>1. TypeInv
    BY InitType
  <1>0. /\ phase = "running" /\ driver = "waits" /\ parent = "running" /\ moved = {} /\ stage = {}
        /\ \A f \in File : /\ items[f] = [file |-> None, error |-> FALSE, attempts |-> 0]
                          /\ child[f] = "queued" /\ thread[f] = "queued" /\ held[f] = None
    BY Zenon DEF Init
  <1>2. LastInv
    BY <1>0 DEF LastInv
  <1>3. FilesInv
    BY <1>0 DEF FilesInv
  <1>4. MoveInv
    BY <1>0, ExportAssumption DEF MoveInv, AllMade
  <1> QED
    BY <1>1, <1>2, <1>3, <1>4 DEF IInv

\* Every step keeps the invariant.
LEMMA NextInv == IInv /\ [Next]_vars => IInv'
  <1> SUFFICES ASSUME IInv, [Next]_vars PROVE IInv'
    OBVIOUS
  <1>0. TypeInv'
    BY NextType DEF IInv
  <1>1. ASSUME NEW f \in File, FileStep(f) PROVE IInv'
    BY <1>0, <1>1, FileStepLast, FileStepFiles, FileStepMove DEF IInv
  <1>2. CASE AroundStep
    BY <1>0, <1>2, AroundStepLast, AroundStepFiles, AroundStepMove DEF IInv
  <1>3. CASE UNCHANGED vars
    BY <1>0, <1>3 DEF IInv, LastInv, FilesInv, MoveInv, AllMade, vars, record, jobs, place, bounds
  <1> QED
    BY <1>1, <1>2, <1>3 DEF Next, FileStep, AroundStep

\* So it holds for ever.
LEMMA AlwaysInv == Spec => []IInv
  BY InitInv, NextInv, PTL DEF Spec

\* Every state an export reaches has the types the module gives its variables.
THEOREM TypesHold == Spec => []TypeOK
  <1>1. IInv => TypeOK
    BY DEF IInv, TypeInv
  <1> QED
    BY <1>1, AlwaysInv, PTL

\* Whatever breaks off, is stopped or swept, the parent of an export of any files reads done only
\* when every thread is back, every child is over and the record is finished.
THEOREM ParentLast == Spec => []ParentEndsLast
  <1>1. IInv => ParentEndsLast
    BY DEF IInv, LastInv, ParentEndsLast
  <1> QED
    BY <1>1, AlwaysInv, PTL

\* However many threads pick names at once, and wherever the server falls, a row names a file that
\* holds its own picture, and a job that reads done has its file.
THEOREM OwnFiles == Spec => []FilesAreTheirOwn
  <1>1. IInv => FilesAreTheirOwn
    BY DEF IInv, FilesInv, FilesAreTheirOwn
  <1> QED
    BY <1>1, AlwaysInv, PTL

\* Of any number of files of a video that end at once, one moves it to Exported, and none before all
\* of them were made.
THEOREM MovesWhenMade == Spec => []MovedWhenMade
  <1>1. IInv => MovedWhenMade
    BY DEF IInv, MoveInv, MovedWhenMade
  <1> QED
    BY <1>1, AlwaysInv, PTL
===============================================================================
