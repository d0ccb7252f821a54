--------------------------- MODULE FileCopyProofs ---------------------------
(***************************************************************************)
(* Proofs about the copy loop, for any set of files, number of tries and   *)
(* faults: threads that were given up do not make a row say completed      *)
(* whose copy is not whole, and save one row at most.  The loop and its    *)
(* threads implement FileOutcome.                                          *)
(***************************************************************************)
EXTENDS FileCopy, TLAPS

ThreadType ==
  [pc : {"none", "reads", "checked", "saves", "returned", "raised"},
   stop : BOOLEAN, stalled : BOOLEAN,
   to : Files \union {"none"}, as : Statuses, late : 0..2]

(* Where the loop is tells the file and the number of its tries. *)
LoopOK ==
  /\ InTry => file \in Files /\ file \notin todo
  /\ pc \in {"try", "reconnect"} => try < MaxTries
  /\ pc = "watch" => try > 0

(* Threads exist of tries that were made; one in a callback has a file.      *)
StartedOK ==
  \A t \in Threads : thread[t].pc # "none" =>
    /\ file \in Files
    /\ t[1] \notin todo
    /\ t[1] = file => t[2] <= try

(* A save that is under way says completed only of a completed file, and a   *)
(* file that is completed stays so: the loop does not come back to it.       *)
CompletedOK ==
  /\ \A f \in Files : object[f] = "completed" =>
       disk[f] = "whole" /\ f \notin todo /\ ~(InTry /\ f = file)
  /\ \A f \in Files : row[f] = "completed" => object[f] = "completed"
  /\ \A t \in Threads : thread[t].pc = "saves" /\ thread[t].as = "completed" =>
       thread[t].to \in Files /\ object[thread[t].to] = "completed"
  /\ pc = "watch" /\ thread[Current].pc = "returned" => disk[file] = "whole"

(* The stop event lets one callback through, the one that had looked at it.  *)
LateOK ==
  \A t \in Threads :
    /\ thread[t].late <= 1
    /\ ~thread[t].stop \/ thread[t].pc \in {"checked", "saves"} => thread[t].late = 0

CopyInv == TypeOK /\ LoopOK /\ StartedOK /\ CompletedOK /\ LateOK
-----------------------------------------------------------------------------
LEMMA CurrentThread ==
  ASSUME TypeOK, LoopOK, pc = "watch"
  PROVE  Current \in Threads /\ Current[1] = file /\ Current[2] = try
BY CopyAssumption DEF TypeOK, LoopOK, InTry, Current, Threads

LEMMA InitInv == Init => CopyInv
<1> SUFFICES ASSUME Init PROVE CopyInv
  OBVIOUS
<1>1. NoThread \in ThreadType /\ NoThread.pc = "none" /\ NoThread.late = 0
  BY DEF NoThread, ThreadType, Statuses
<1>2. TypeOK
  BY <1>1, CopyAssumption DEF Init, TypeOK, ThreadType, Statuses
<1>3. \A t \in Threads : thread[t].pc = "none" /\ thread[t].late = 0
  BY <1>1 DEF Init
<1>4. LoopOK /\ CompletedOK
  BY <1>3 DEF Init, LoopOK, CompletedOK, InTry
<1>5. StartedOK /\ LateOK
  BY <1>3 DEF StartedOK, LateOK
<1>6. QED
  BY <1>2, <1>4, <1>5 DEF CopyInv

(* Setting the fields of one thread.                                         *)
LEMMA SetThread ==
  ASSUME TypeOK, NEW t \in Threads, NEW r \in ThreadType, thread' = [thread EXCEPT ![t] = r]
  PROVE  /\ thread' \in [Threads -> ThreadType] /\ thread'[t] = r
         /\ \A u \in Threads : u # t => thread'[u] = thread[u]
BY DEF TypeOK, ThreadType

(* A step of a thread t that makes it r.                                     *)
LEMMA ThreadStepInv ==
  ASSUME CopyInv, UNCHANGED loopVars, NEW t \in Threads, NEW r \in ThreadType,
         thread' = [thread EXCEPT ![t] = r], thread[t].pc # "none",
         link' \in BOOLEAN, spent' \in 0..MaxFaults,
         disk' = disk \/ (disk' = [disk EXCEPT ![t[1]] = "whole"]),
         r.pc = "returned" => disk' = [disk EXCEPT ![t[1]] = "whole"],
         row' = row \/ (thread[t].pc = "saves" /\ row' = [row EXCEPT ![thread[t].to] = thread[t].as]),
         r.pc = "saves" /\ r.as = "completed" => r.to \in Files /\ object[r.to] = "completed",
         r.late <= 1, ~r.stop \/ r.pc \in {"checked", "saves"} => r.late = 0
  PROVE  CopyInv'
<1>1. TypeOK /\ LoopOK /\ StartedOK /\ CompletedOK /\ LateOK /\ LoopOK'
  BY DEF CopyInv, LoopOK, InTry, loopVars
<1>2. /\ thread' \in [Threads -> ThreadType] /\ thread'[t] = r
      /\ \A u \in Threads : u # t => thread'[u] = thread[u]
  BY <1>1, SetThread
<1>3. t[1] \in Files /\ thread[t] \in ThreadType
  BY <1>1 DEF Threads, TypeOK, ThreadType
<1>4. /\ disk' \in [Files -> {"none", "part", "whole"}]
      /\ \A f \in Files : disk[f] = "whole" => disk'[f] = "whole"
  BY <1>1, <1>3 DEF TypeOK
<1>5. row' \in [Files -> Statuses]
  BY <1>1, <1>3 DEF TypeOK, ThreadType
<1>6. TypeOK'
  BY <1>1, <1>2, <1>4, <1>5 DEF TypeOK, ThreadType, loopVars
<1>7. StartedOK'
  BY <1>1, <1>2 DEF StartedOK, loopVars
<1>8. CompletedOK'
  <2>1. \A f \in Files : object'[f] = "completed" =>
          disk'[f] = "whole" /\ f \notin todo' /\ ~(InTry' /\ f = file')
    BY <1>1, <1>4 DEF CompletedOK, loopVars, InTry
  <2>2. ASSUME NEW f \in Files, row'[f] = "completed" PROVE object'[f] = "completed"
    <3>1. CASE row' = row
      BY <1>1, <2>2, <3>1 DEF CompletedOK, loopVars
    <3>2. CASE thread[t].pc = "saves" /\ row' = [row EXCEPT ![thread[t].to] = thread[t].as]
      <4>1. CASE f = thread[t].to
        BY <1>1, <2>2, <3>2, <4>1 DEF CompletedOK, TypeOK, loopVars
      <4>2. CASE f # thread[t].to
        BY <1>1, <2>2, <3>2, <4>2 DEF CompletedOK, TypeOK, loopVars
      <4>3. QED
        BY <4>1, <4>2
    <3>3. QED
      BY <3>1, <3>2
  <2>3. ASSUME NEW u \in Threads, thread'[u].pc = "saves", thread'[u].as = "completed"
        PROVE  thread'[u].to \in Files /\ object'[thread'[u].to] = "completed"
    BY <1>1, <1>2, <2>3 DEF CompletedOK, loopVars
  <2>4. ASSUME pc' = "watch", thread'[Current].pc = "returned" PROVE disk'[file] = "whole"
    <3>1. pc = "watch" /\ Current \in Threads /\ Current[1] = file /\ file \in Files
      BY <1>1, <2>4, CurrentThread DEF loopVars, LoopOK, InTry
    <3>2. CASE Current = t
      BY <1>1, <1>2, <2>4, <3>1, <3>2 DEF TypeOK
    <3>3. CASE Current # t
      BY <1>1, <1>2, <1>4, <2>4, <3>1, <3>3 DEF CompletedOK
    <3>4. QED
      BY <3>2, <3>3
  <2>5. Current' = Current /\ file' = file /\ thread'[Current'] = thread'[Current]
    BY DEF Current, loopVars
  <2>6. QED
    BY <2>1, <2>2, <2>3, <2>4, <2>5 DEF CompletedOK
<1>9. LateOK'
  BY <1>1, <1>2 DEF LateOK
<1>10. QED
  BY <1>1, <1>6, <1>7, <1>8, <1>9 DEF CopyInv

LEMMA ThreadStep ==
  ASSUME CopyInv, NEW t \in Threads,
         Progress(t) \/ CallbackStep(t) \/ Returns(t) \/ Raises(t) \/ Hangs(t)
  PROVE  CopyInv'
<1>1. TypeOK /\ thread[t] \in ThreadType /\ thread \in [Threads -> ThreadType]
  BY DEF CopyInv, TypeOK, ThreadType
<1>2. /\ thread[t].late <= 1
      /\ ~thread[t].stop \/ thread[t].pc \in {"checked", "saves"} => thread[t].late = 0
  BY DEF CopyInv, LateOK
<1>3. link \in BOOLEAN /\ spent \in 0..MaxFaults
      /\ (\A kind : Fault(kind) => spent' \in 0..MaxFaults)
  BY <1>1, CopyAssumption DEF TypeOK, Fault
<1>4. CASE Progress(t)
  <2> DEFINE r == [thread[t] EXCEPT !.pc = "checked", !.stalled = FALSE]
  <2>1. r \in ThreadType /\ r.pc = "checked" /\ r.late = 0 /\ r.stop = thread[t].stop
    BY <1>1, <1>2, <1>4 DEF ThreadType, Progress
  <2>2. thread' = [thread EXCEPT ![t] = r]
    BY <1>1, <1>4 DEF Progress
  <2> HIDE DEF r
  <2>3. QED
    <3>1. UNCHANGED <<loopVars, link, row, disk, spent>> /\ thread[t].pc = "reads"
      BY <1>4 DEF Progress, ThreadKeeps
    <3>2. link' \in BOOLEAN /\ spent' \in 0..MaxFaults /\ r.late <= 1 /\ thread[t].pc # "none"
      BY <1>3, <2>1, <3>1
    <3>3. QED
      BY <2>1, <2>2, <3>1, <3>2, ThreadStepInv
<1>5. CASE Throttled(t)
  <2> DEFINE r == [thread[t] EXCEPT !.pc = "reads"]
  <2>1. r \in ThreadType /\ r.pc = "reads" /\ r.late = 0
    BY <1>1, <1>2, <1>5 DEF ThreadType, Throttled
  <2>2. thread' = [thread EXCEPT ![t] = r]
    BY <1>5 DEF Throttled
  <2> HIDE DEF r
  <2>3. QED
    <3>1. UNCHANGED <<loopVars, link, row, disk, spent>> /\ thread[t].pc = "checked"
      BY <1>5 DEF Throttled, ThreadKeeps
    <3>2. link' \in BOOLEAN /\ spent' \in 0..MaxFaults /\ r.late <= 1 /\ thread[t].pc # "none"
      BY <1>3, <2>1, <3>1
    <3>3. QED
      BY <2>1, <2>2, <3>1, <3>2, ThreadStepInv
<1>6. CASE MakeSave(t)
  <2> DEFINE r == [thread[t] EXCEPT !.pc = "saves", !.to = file, !.as = object[file]]
  <2>1. file \in Files /\ object[file] \in Statuses
    BY <1>1, <1>6 DEF MakeSave, CopyInv, StartedOK, TypeOK
  <2>2. /\ r \in ThreadType /\ r.pc = "saves" /\ r.late = 0
        /\ r.to = file /\ r.as = object[file]
    BY <1>1, <1>2, <1>6, <2>1 DEF ThreadType, MakeSave
  <2>3. thread' = [thread EXCEPT ![t] = r]
    BY <1>6 DEF MakeSave
  <2> HIDE DEF r
  <2>4. QED
    <3>1. UNCHANGED <<loopVars, link, row, disk, spent>> /\ thread[t].pc = "checked"
      BY <1>6 DEF MakeSave, ThreadKeeps
    <3>2. link' \in BOOLEAN /\ spent' \in 0..MaxFaults /\ r.late <= 1 /\ thread[t].pc # "none"
      BY <1>3, <2>1, <2>2, <3>1
    <3>3. QED
      BY <2>1, <2>2, <2>3, <3>1, <3>2, ThreadStepInv
<1>7. CASE ExecuteSave(t)
  <2> DEFINE n == IF thread[t].stop THEN thread[t].late + 1 ELSE 0
  <2> DEFINE r == [thread[t] EXCEPT !.pc = "reads", !.to = "none", !.as = "pending",
                     !.late = n]
  <2>1. thread[t].pc = "saves" /\ thread[t].late = 0
    BY <1>2, <1>7 DEF ExecuteSave
  <2>2. n \in 0..2 /\ n <= 1 /\ (~thread[t].stop => n = 0)
    BY <2>1
  <2> HIDE DEF n
  <2>3. /\ r \in ThreadType /\ r.pc = "reads" /\ r.late <= 1 /\ r.stop = thread[t].stop
        /\ (~r.stop => r.late = 0)
    BY <1>1, <2>2 DEF ThreadType, Statuses
  <2>4. thread' = [thread EXCEPT ![t] = r]
    BY <1>7 DEF ExecuteSave, n
  <2> HIDE DEF r
  <2>5. QED
    BY <1>3, <1>7, <2>1, <2>3, <2>4, ThreadStepInv DEF ExecuteSave, ThreadKeeps
<1>8. CASE Returns(t)
  <2> DEFINE r == [thread[t] EXCEPT !.pc = "returned"]
  <2>1. r \in ThreadType /\ r.pc = "returned" /\ r.late = 0
    BY <1>1, <1>2, <1>8 DEF ThreadType, Returns
  <2>2. thread' = [thread EXCEPT ![t] = r]
    BY <1>8 DEF Returns
  <2> HIDE DEF r
  <2>3. QED
    <3>1. /\ UNCHANGED <<loopVars, link, row, spent>> /\ thread[t].pc = "reads"
          /\ disk' = [disk EXCEPT ![t[1]] = "whole"]
      BY <1>8 DEF Returns, ThreadKeeps
    <3>2. link' \in BOOLEAN /\ spent' \in 0..MaxFaults /\ r.late <= 1 /\ thread[t].pc # "none"
      BY <1>3, <2>1, <3>1
    <3>3. QED
      BY <2>1, <2>2, <3>1, <3>2, ThreadStepInv
<1>9. CASE Raises(t)
  <2> DEFINE r == [thread[t] EXCEPT !.pc = "raised"]
  <2>1. /\ r \in ThreadType /\ r.pc = "raised" /\ r.late <= 1 /\ r.stop = thread[t].stop
        /\ (~r.stop => r.late = 0)
    BY <1>1, <1>2 DEF ThreadType
  <2>2. thread' = [thread EXCEPT ![t] = r] /\ link' \in BOOLEAN /\ spent' \in 0..MaxFaults
    BY <1>3, <1>9 DEF Raises, NoFault
  <2> HIDE DEF r
  <2>3. QED
    BY <1>9, <2>1, <2>2, ThreadStepInv DEF Raises
<1>10. CASE Hangs(t)
  <2> DEFINE r == [thread[t] EXCEPT !.stalled = TRUE]
  <2>1. /\ r \in ThreadType /\ r.pc = thread[t].pc /\ r.late = 0 /\ r.pc # "none"
        /\ r.pc # "returned" /\ r.to = thread[t].to /\ r.as = thread[t].as
    BY <1>1, <1>2, <1>10 DEF ThreadType, Hangs, Alive
  <2>2. thread' = [thread EXCEPT ![t] = r] /\ UNCHANGED <<loopVars, link, row, disk>>
    BY <1>10 DEF Hangs
  <2>3. spent' \in 0..MaxFaults
    BY <1>3, <1>10 DEF Hangs
  <2> HIDE DEF r
  <2>4. r.pc = "saves" /\ r.as = "completed" => r.to \in Files /\ object[r.to] = "completed"
    BY <2>1 DEF CopyInv, CompletedOK
  <2>5. ~r.stop \/ r.pc \in {"checked", "saves"} => r.late = 0
    BY <2>1
  <2>6. thread[t].pc # "none" /\ link' \in BOOLEAN /\ r.late <= 1
    BY <1>3, <2>1, <2>2
  <2>7. QED
    BY <2>1, <2>2, <2>3, <2>4, <2>5, <2>6, ThreadStepInv
<1>11. QED
  BY <1>4, <1>5, <1>6, <1>7, <1>8, <1>9, <1>10 DEF CallbackStep

(* A step of the loop: it saves a file that is not completed, and what is    *)
(* completed is left behind.                                                 *)
LEMMA LoopStepInv ==
  ASSUME CopyInv, TypeOK', LoopOK', StartedOK', LateOK',
         \A f \in Files : object[f] = "completed" =>
           disk'[f] = "whole" /\ f \notin todo' /\ ~(InTry' /\ f = file'),
         \/ UNCHANGED <<object, row>>
         \/ \E f \in Files, s \in Statuses :
              /\ SaveAs(f, s) /\ object[f] # "completed"
              /\ s = "completed" => disk'[f] = "whole" /\ f \notin todo' /\ ~(InTry' /\ f = file'),
         \A t \in Threads : thread'[t].pc = "saves" =>
           thread[t].pc = "saves" /\ thread'[t].to = thread[t].to /\ thread'[t].as = thread[t].as,
         pc' = "watch" => thread'[Current'].pc # "returned"
  PROVE  CopyInv'
<1>1. CompletedOK /\ TypeOK
  BY DEF CopyInv
<1>2. CASE UNCHANGED <<object, row>>
  BY <1>1, <1>2 DEF CopyInv, CompletedOK
<1>3. ASSUME NEW f \in Files, NEW s \in Statuses, SaveAs(f, s), object[f] # "completed",
             s = "completed" => disk'[f] = "whole" /\ f \notin todo' /\ ~(InTry' /\ f = file')
      PROVE  CompletedOK'
  <2>1. /\ object'[f] = s /\ row'[f] = s
        /\ \A g \in Files : g # f => object'[g] = object[g] /\ row'[g] = row[g]
    BY <1>1, <1>3 DEF SaveAs, TypeOK
  <2>2. \A g \in Files : object'[g] = "completed" =>
          disk'[g] = "whole" /\ g \notin todo' /\ ~(InTry' /\ g = file')
    BY <1>3, <2>1
  <2>3. \A g \in Files : row'[g] = "completed" => object'[g] = "completed"
    BY <1>1, <2>1 DEF CompletedOK
  <2>4. \A t \in Threads : thread'[t].pc = "saves" /\ thread'[t].as = "completed" =>
          thread'[t].to \in Files /\ object'[thread'[t].to] = "completed"
    BY <1>1, <1>3, <2>1 DEF CompletedOK
  <2>5. QED
    BY <2>2, <2>3, <2>4 DEF CompletedOK
<1>4. QED
  BY <1>2, <1>3 DEF CopyInv

(* A try that failed leaves the loop at the file or fails the file.          *)
LEMMA TryFailsInv ==
  ASSUME CopyInv, pc = "watch", TryFails, UNCHANGED <<todo, file, try, disk, spent>>,
         link' \in BOOLEAN,
         thread' = thread \/ thread' = [thread EXCEPT ![Current].stop = TRUE, ![Current].stalled = FALSE]
  PROVE  CopyInv'
<1>1. TypeOK /\ LoopOK /\ StartedOK /\ CompletedOK /\ LateOK /\ file \in Files
  BY DEF CopyInv, LoopOK, InTry
<1>2. Current \in Threads
  BY <1>1, CurrentThread
<1> DEFINE r == [thread[Current] EXCEPT !.stop = TRUE, !.stalled = FALSE]
<1>3. /\ r \in ThreadType /\ r.pc = thread[Current].pc /\ r.late = thread[Current].late
      /\ r.to = thread[Current].to /\ r.as = thread[Current].as /\ r.stop = TRUE
  <2>1. thread[Current] \in ThreadType
    BY <1>1, <1>2 DEF TypeOK, ThreadType
  <2>2. QED
    BY <2>1 DEF ThreadType
<1>4. thread' = thread \/ thread' = [thread EXCEPT ![Current] = r]
  BY <1>1, <1>2 DEF TypeOK
<1> HIDE DEF r
<1>5. /\ thread' \in [Threads -> ThreadType]
      /\ \A t \in Threads :
           /\ thread'[t].pc = thread[t].pc /\ thread'[t].late = thread[t].late
           /\ thread'[t].to = thread[t].to /\ thread'[t].as = thread[t].as
           /\ thread[t].stop => thread'[t].stop
  <2>1. CASE thread' = thread
    BY <1>1, <2>1 DEF TypeOK, ThreadType
  <2>2. CASE thread' = [thread EXCEPT ![Current] = r]
    BY <1>1, <1>2, <1>3, <2>2, SetThread
  <2>3. QED
    BY <1>4, <2>1, <2>2
<1>6. \A t \in Threads : thread'[t].late <= 1
      /\ (~thread'[t].stop \/ thread'[t].pc \in {"checked", "saves"} => thread'[t].late = 0)
  BY <1>1, <1>5 DEF LateOK
<1>7. \/ pc' = "reconnect" /\ try < MaxTries /\ UNCHANGED <<object, row>>
      \/ pc' = "next" /\ SaveAs(file, "failed")
  BY DEF TryFails
<1>8. object[file] # "completed"
  BY <1>1 DEF CompletedOK, InTry
<1>9. TypeOK'
  <2>1. object' \in [Files -> Statuses] /\ row' \in [Files -> Statuses]
    BY <1>1, <1>7 DEF TypeOK, SaveAs, Statuses
  <2>2. QED
    BY <1>1, <1>5, <1>7, <2>1 DEF TypeOK, ThreadType
<1>10. LoopOK' /\ StartedOK' /\ LateOK'
  BY <1>1, <1>5, <1>6, <1>7 DEF LoopOK, StartedOK, LateOK, InTry
<1>11. \A f \in Files : object[f] = "completed" =>
         disk'[f] = "whole" /\ f \notin todo' /\ ~(InTry' /\ f = file')
  BY <1>1, <1>8 DEF CompletedOK
<1>12. pc' # "watch" /\ "failed" \in Statuses
  BY <1>7 DEF Statuses
<1>13. QED
  BY <1>1, <1>5, <1>7, <1>8, <1>9, <1>10, <1>11, <1>12, LoopStepInv

LEMMA LoopStepKeeps ==
  ASSUME CopyInv, LoopStep
  PROVE  CopyInv'
<1>1. TypeOK /\ LoopOK /\ StartedOK /\ CompletedOK /\ LateOK
  BY DEF CopyInv
<1>2. CASE NextFile
  <2>1. PICK f \in todo : file' = f /\ todo' = todo \ {f} /\ SaveAs(f, "transferring")
    BY <1>2 DEF NextFile
  <2>2. try' = 0 /\ pc' = "try" /\ UNCHANGED <<link, disk, thread, spent>> /\ f \in Files
    BY <1>1, <1>2 DEF NextFile, TypeOK
  <2>3. TypeOK' /\ LoopOK'
    BY <1>1, <2>1, <2>2, CopyAssumption DEF TypeOK, LoopOK, SaveAs, Statuses, InTry
  <2>4. StartedOK' /\ LateOK'
    BY <1>1, <2>1, <2>2 DEF StartedOK, LateOK
  <2>5. object[f] # "completed" /\ "transferring" \in Statuses
    BY <1>1, <2>1, <2>2 DEF CompletedOK, Statuses
  <2>6. \A g \in Files : object[g] = "completed" =>
          disk'[g] = "whole" /\ g \notin todo' /\ ~(InTry' /\ g = file')
    BY <1>1, <2>1, <2>2, <2>5 DEF CompletedOK
  <2>7. QED
    BY <2>1, <2>2, <2>3, <2>4, <2>5, <2>6, LoopStepInv
<1>3. CASE StartTry
  <2> DEFINE t == <<file, try + 1>>
             r == [thread[t] EXCEPT !.pc = IF link THEN "reads" ELSE "raised"]
  <2>1. /\ pc = "try" /\ try' = try + 1 /\ pc' = "watch" /\ disk' = [disk EXCEPT ![file] = "part"]
        /\ UNCHANGED <<todo, file, link, object, row, spent>> /\ thread' = [thread EXCEPT ![t] = r]
    BY <1>3 DEF StartTry
  <2>2. file \in Files /\ file \notin todo /\ try + 1 \in 1..MaxTries
    BY <1>1, <2>1, CopyAssumption DEF LoopOK, InTry, TypeOK
  <2>3. t \in Threads /\ thread[t] \in ThreadType /\ t[1] = file /\ t[2] = try + 1
    BY <1>1, <2>2 DEF Threads, TypeOK, ThreadType
  <2>4. /\ r \in ThreadType /\ r.pc \in {"reads", "raised"} /\ r.late = thread[t].late
        /\ r.stop = thread[t].stop
    BY <2>3 DEF ThreadType
  <2>5. t = Current'
    BY <2>1 DEF Current
  <2> HIDE DEF r, t
  <2>6. /\ thread' \in [Threads -> ThreadType] /\ thread'[t] = r
        /\ \A u \in Threads : u # t => thread'[u] = thread[u]
    BY <1>1, <2>1, <2>3, <2>4, SetThread
  <2>7. TypeOK' /\ LoopOK'
    BY <1>1, <2>1, <2>2, <2>6 DEF TypeOK, ThreadType, LoopOK, InTry
  <2>8. StartedOK'
    <3> SUFFICES ASSUME NEW u \in Threads, thread'[u].pc # "none"
                 PROVE  u[1] \notin todo /\ (u[1] = file => u[2] <= try + 1)
      BY <2>1, <2>2 DEF StartedOK
    <3>1. try \in Nat /\ u[2] \in Nat
      BY <1>1 DEF TypeOK, Threads
    <3>2. QED
      BY <1>1, <2>2, <2>3, <2>6, <3>1 DEF StartedOK
  <2>9. LateOK'
    <3>1. r.late <= 1 /\ (~r.stop => r.late = 0)
      BY <1>1, <2>3, <2>4 DEF LateOK
    <3>2. QED
      BY <1>1, <2>4, <2>6, <3>1 DEF LateOK
  <2>10. object[file] # "completed"
    BY <1>1, <2>1, <2>2 DEF CompletedOK, InTry
  <2>11. \A f \in Files : object[f] = "completed" =>
           disk'[f] = "whole" /\ f \notin todo' /\ ~(InTry' /\ f = file')
    BY <1>1, <2>1, <2>10 DEF CompletedOK, TypeOK
  <2>12. /\ \A u \in Threads : thread'[u].pc = "saves" =>
              thread[u].pc = "saves" /\ thread'[u].to = thread[u].to /\ thread'[u].as = thread[u].as
         /\ thread'[Current'].pc # "returned"
    BY <2>4, <2>5, <2>6
  <2>13. QED
    BY <2>1, <2>7, <2>8, <2>9, <2>11, <2>12, LoopStepInv
<1>4. CASE Copied
  <2>1. /\ pc = "watch" /\ thread[Current].pc = "returned" /\ SaveAs(file, "completed")
        /\ pc' = "next" /\ UNCHANGED <<todo, file, try, link, disk, thread, spent>>
    BY <1>4 DEF Copied
  <2>2. file \in Files /\ file \notin todo /\ disk[file] = "whole" /\ object[file] # "completed"
    BY <1>1, <2>1 DEF LoopOK, CompletedOK, InTry
  <2>3. TypeOK' /\ LoopOK' /\ StartedOK' /\ LateOK'
    <3>1. TypeOK'
      BY <1>1, <2>1, <2>2 DEF TypeOK, SaveAs, Statuses
    <3>2. QED
      BY <1>1, <2>1, <3>1 DEF LoopOK, StartedOK, LateOK, InTry
  <2>4. \A f \in Files : object[f] = "completed" =>
          disk'[f] = "whole" /\ f \notin todo' /\ ~(InTry' /\ f = file')
    BY <1>1, <2>1 DEF CompletedOK, InTry
  <2>5. ~InTry' /\ "completed" \in Statuses
    BY <2>1 DEF InTry, Statuses
  <2>6. QED
    BY <2>1, <2>2, <2>3, <2>4, <2>5, LoopStepInv
<1>5. CASE Raised
  <2>1. UNCHANGED <<todo, file, try, disk, spent>> /\ link' \in BOOLEAN /\ thread' = thread
    BY <1>1, <1>5 DEF Raised, TypeOK
  <2>2. QED
    BY <1>5, <2>1, TryFailsInv DEF Raised
<1>6. CASE GivesUp
  BY <1>6, TryFailsInv DEF GivesUp
<1>7. CASE Reconnect \/ LoopEnds
  <2>1. UNCHANGED <<todo, file, try, object, row, disk, thread>> /\ link' \in BOOLEAN
    BY <1>1, <1>7 DEF Reconnect, LoopEnds, TypeOK
  <2>2. spent' \in 0..MaxFaults
    BY <1>1, <1>7, CopyAssumption DEF Reconnect, LoopEnds, TypeOK, Fault, NoFault
  <2>3. (pc = "reconnect" /\ pc' = "try") \/ pc' = "done"
    BY <1>7 DEF Reconnect, LoopEnds
  <2>4. TypeOK' /\ LoopOK' /\ StartedOK' /\ LateOK'
    BY <1>1, <2>1, <2>2, <2>3 DEF TypeOK, LoopOK, StartedOK, LateOK, InTry
  <2>5. \A f \in Files : object[f] = "completed" =>
          disk'[f] = "whole" /\ f \notin todo' /\ ~(InTry' /\ f = file')
    BY <1>1, <2>1, <2>3 DEF CompletedOK, InTry
  <2>6. QED
    BY <2>1, <2>3, <2>4, <2>5, LoopStepInv
<1>8. QED
  BY <1>2, <1>3, <1>4, <1>5, <1>6, <1>7 DEF LoopStep

LEMMA NextInv == CopyInv /\ [Next]_vars => CopyInv'
<1> SUFFICES ASSUME CopyInv, [Next]_vars PROVE CopyInv'
  OBVIOUS
<1>1. CASE LoopStep
  BY <1>1, LoopStepKeeps
<1>2. ASSUME NEW t \in Threads,
             Progress(t) \/ CallbackStep(t) \/ Returns(t) \/ Raises(t) \/ Hangs(t)
      PROVE  CopyInv'
  BY <1>2, ThreadStep
<1>3. ASSUME NEW f \in Files, StallCheck(f) PROVE CopyInv'
  <2>1. UNCHANGED <<pc, todo, file, try, object, link, disk, thread>>
        /\ row' = [row EXCEPT ![f] = "failed"]
    BY <1>3 DEF StallCheck, loopVars
  <2>2. spent' \in 0..MaxFaults
    BY <1>3, CopyAssumption DEF StallCheck, Fault, NoFault, CopyInv, TypeOK
  <2>3. TypeOK'
    BY <2>1, <2>2 DEF CopyInv, TypeOK, Statuses
  <2>4. \A g \in Files : row'[g] = "completed" => row[g] = "completed"
    BY <2>1 DEF CopyInv, TypeOK
  <2>5. CompletedOK'
    BY <2>1, <2>4 DEF CopyInv, CompletedOK, InTry, Current
  <2>6. LoopOK' /\ StartedOK' /\ LateOK'
    BY <2>1 DEF CopyInv, LoopOK, StartedOK, LateOK, InTry
  <2>7. QED
    BY <2>3, <2>5, <2>6 DEF CopyInv
<1>4. CASE UNCHANGED vars
  BY <1>4 DEF vars, CopyInv, TypeOK, LoopOK, StartedOK, CompletedOK, LateOK, InTry, Current
<1>5. QED
  BY <1>1, <1>2, <1>3, <1>4 DEF Next

(* For any files and number of tries the loop and its threads keep their      *)
(* types: no try beyond the last, no save but of a file.                      *)
THEOREM TypeCorrect == Spec => []TypeOK
<1>1. CopyInv => TypeOK
  BY DEF CopyInv
<1>2. QED
  BY <1>1, InitInv, NextInv, PTL DEF Spec

(* A row never says completed of a copy that is not whole, however many       *)
(* threads of earlier tries are still saving.                                 *)
THEOREM CompletedCopiesAreWhole == Spec => []CompletedIsWhole
<1>1. CopyInv => CompletedIsWhole
  BY DEF CopyInv, CompletedOK, CompletedIsWhole
<1>2. QED
  BY <1>1, InitInv, NextInv, PTL DEF Spec

(* A thread that was given up saves at most one row.                          *)
THEOREM AtMostOneLateSave == Spec => []OneLateSave
<1>1. CopyInv => OneLateSave
  BY DEF CopyInv, LateOK, OneLateSave
<1>2. QED
  BY <1>1, InitInv, NextInv, PTL DEF Spec
-----------------------------------------------------------------------------
(* What FileOutcome sees.  A file is pending until the loop comes to it; the *)
(* file in hand is in flight for the run, whatever its row says; only the    *)
(* thread of the present try works without a stop event; and a save that is  *)
(* under way is of a file begun, with a status that is its last or           *)
(* transferring.                                                             *)
RowsSeen ==
  /\ \A f \in Files : (f \in todo <=> row[f] = "pending") /\ (f \in todo <=> object[f] = "pending")
  /\ file \notin todo
  /\ InTry => object[file] = "transferring"
SaveSeen(t) ==
  thread[t].pc = "saves" =>
    /\ thread[t].to \in Files /\ thread[t].to \notin todo
    /\ thread[t].as # "pending"
    /\ thread[t].as = "transferring" \/ object[thread[t].to] = thread[t].as
    /\ ~thread[t].stop => thread[t].to = file
ThreadSeen(t) ==
  /\ thread[t].pc = "none" => ~thread[t].stop
  /\ Alive(t) /\ ~thread[t].stop => pc = "watch" /\ t = Current
SeenInv ==
  /\ RowsSeen
  /\ \A t \in Threads : SaveSeen(t) /\ ThreadSeen(t)
  /\ pc = "watch" => ~thread[Current].stop /\ thread[Current].pc # "none"

(* A step of thread t that makes it r.                                       *)
LEMMA ThreadStepSeen ==
  ASSUME CopyInv, SeenInv, UNCHANGED loopVars, NEW t \in Threads, NEW r \in ThreadType,
         thread' = [thread EXCEPT ![t] = r], thread[t].pc # "none",
         r.pc # "none", r.stop = thread[t].stop,
         r.pc \in {"reads", "checked", "saves"} => Alive(t),
         r.pc = "saves" => \/ thread[t].pc = "saves" /\ r.to = thread[t].to /\ r.as = thread[t].as
                           \/ r.to = file /\ r.as = object[file],
         row' = row \/ (thread[t].pc = "saves" /\ row' = [row EXCEPT ![thread[t].to] = thread[t].as])
  PROVE  SeenInv'
<1>1. TypeOK /\ LoopOK /\ StartedOK
  BY DEF CopyInv
<1>2. /\ thread'[t] = r
      /\ \A u \in Threads : u # t => thread'[u] = thread[u]
  BY <1>1, SetThread
<1>3. RowsSeen'
  <2>1. thread[t].pc = "saves" =>
          thread[t].to \in Files /\ thread[t].to \notin todo /\ thread[t].as # "pending"
    BY DEF SeenInv, SaveSeen
  <2>2. \A f \in Files : row'[f] = "pending" <=> row[f] = "pending"
    BY <1>1, <2>1 DEF TypeOK, SeenInv, RowsSeen
  <2>3. QED
    BY <2>2 DEF SeenInv, RowsSeen, loopVars, InTry
<1>4. Current' = Current /\ file' = file /\ todo' = todo /\ object' = object /\ pc' = pc
  BY DEF Current, loopVars
<1>5. file \in Files /\ file \notin todo /\ object[file] # "pending"
  <2>1. file \in Files
    BY <1>1 DEF StartedOK
  <2>2. QED
    BY <2>1 DEF SeenInv, RowsSeen
<1>6. SaveSeen(t)' /\ ThreadSeen(t)'
  <2>1. ThreadSeen(t)'
    BY <1>2, <1>4 DEF SeenInv, ThreadSeen, Alive
  <2>2. SaveSeen(t)'
    <3>1. CASE thread[t].pc = "saves" /\ r.to = thread[t].to /\ r.as = thread[t].as
      BY <1>2, <1>4, <3>1 DEF SeenInv, SaveSeen
    <3>2. CASE r.to = file /\ r.as = object[file]
      BY <1>2, <1>4, <1>5, <3>2 DEF SaveSeen
    <3>3. CASE r.pc # "saves"
      BY <1>2, <3>3 DEF SaveSeen
    <3>4. QED
      BY <3>1, <3>2, <3>3
  <2>3. QED
    BY <2>1, <2>2
<1>7. \A u \in Threads : u # t => SaveSeen(u)' /\ ThreadSeen(u)'
  BY <1>2, <1>4 DEF SeenInv, SaveSeen, ThreadSeen, Alive
<1>8. pc' = "watch" => ~thread'[Current'].stop /\ thread'[Current'].pc # "none"
  BY <1>1, <1>2, <1>4, CurrentThread DEF SeenInv
<1>9. QED
  BY <1>3, <1>6, <1>7, <1>8 DEF SeenInv

(* A step of thread t changes what is left of no other try.                  *)
LEMMA StrayStep ==
  ASSUME NEW t \in Threads, NEW r, Stray \in [Threads -> {"none", "saves", "gone"}],
         \A u \in Threads : u # t => thread'[u] = thread[u],
         Left(t)' = r
  PROVE  Stray' = [Stray EXCEPT ![t] = r]
<1>1. \A u \in Threads : u # t => Left(u)' = Left(u)
  BY DEF Left
<1>2. QED
  BY <1>1 DEF Stray

LEMMA StrayType == Stray \in [Threads -> {"none", "saves", "gone"}]
BY DEF Stray, Left

(* The threads, as FileOutcome sees them: the thread of the present try      *)
(* writes the file or reports on it, one that was given up makes its save or *)
(* gives the right to it up.                                                 *)
LEMMA ThreadOutcome ==
  ASSUME CopyInv, SeenInv, NEW t \in Threads,
         Progress(t) \/ CallbackStep(t) \/ Returns(t) \/ Raises(t) \/ Hangs(t)
  PROVE  SeenInv' /\ [Outcome!Next]_(Outcome!vars)
<1> DEFINE Good == SeenInv' /\ [Outcome!Next]_(Outcome!vars)
<1>1. TypeOK /\ thread[t] \in ThreadType /\ CompletedOK
  BY DEF CopyInv, TypeOK, ThreadType
<1>2. UNCHANGED loopVars /\ At' = At
  BY DEF Progress, CallbackStep, Throttled, MakeSave, ExecuteSave, Returns, Raises, Hangs,
         ThreadKeeps, loopVars, At, InTry
<1>3. Left(t) = Stray[t]
  BY DEF Stray
<1>4. ASSUME Alive(t), ~thread[t].stop
      PROVE  pc = "watch" /\ t = Current /\ t[1] = file /\ At = file /\ At # "none"
             /\ file \in Files /\ object[file] = "transferring"
  BY <1>1, <1>4, CurrentThread, CopyAssumption
  DEF SeenInv, ThreadSeen, RowsSeen, InTry, At, CopyInv, LoopOK
<1>5. ASSUME NEW r \in ThreadType, thread' = [thread EXCEPT ![t] = r]
      PROVE  /\ thread'[t] = r
             /\ \A s : Left(t)' = s => Stray' = [Stray EXCEPT ![t] = s]
             /\ Left(t)' = Left(t) => Stray' = Stray
  <2>1. /\ thread'[t] = r
        /\ \A u \in Threads : u # t => thread'[u] = thread[u]
    BY <1>1, <1>5, SetThread
  <2>2. \A s : Left(t)' = s => Stray' = [Stray EXCEPT ![t] = s]
    BY <2>1, StrayStep, StrayType
  <2>3. Left(t)' = Left(t) => Stray' = Stray
    BY <2>2, <1>3, StrayType
  <2>4. QED
    BY <2>1, <2>2, <2>3
<1>6. ASSUME UNCHANGED <<row, disk>>, Stray' = Stray PROVE UNCHANGED Outcome!vars
  BY <1>2, <1>6 DEF Outcome!vars
<1>7. CASE Progress(t) \/ Hangs(t)
  <2> DEFINE r == IF Progress(t) THEN [thread[t] EXCEPT !.pc = "checked", !.stalled = FALSE]
                                 ELSE [thread[t] EXCEPT !.stalled = TRUE]
  <2>1. thread' = [thread EXCEPT ![t] = r] /\ UNCHANGED <<row, disk>>
    BY <1>1, <1>7 DEF Progress, Hangs, ThreadKeeps
  <2>2. /\ r \in ThreadType /\ r.stop = thread[t].stop /\ ~thread[t].stop /\ Alive(t)
        /\ r.pc # "none" /\ r.to = thread[t].to /\ r.as = thread[t].as
        /\ r.pc = "saves" => thread[t].pc = "saves"
    BY <1>1, <1>7 DEF Progress, Hangs, Alive, ThreadType
  <2> HIDE DEF r
  <2>3. thread[t].pc # "none"
    BY <2>2 DEF Alive
  <2>4. SeenInv'
    BY <1>2, <2>1, <2>2, <2>3, ThreadStepSeen
  <2>5. Left(t)' = Left(t)
    BY <1>5, <2>1, <2>2 DEF Left
  <2>6. QED
    BY <1>5, <1>6, <2>1, <2>2, <2>4, <2>5
<1>8. CASE Throttled(t)
  <2> DEFINE r == [thread[t] EXCEPT !.pc = "reads"]
  <2>1. thread' = [thread EXCEPT ![t] = r] /\ UNCHANGED <<row, disk>> /\ thread[t].pc = "checked"
    BY <1>8 DEF Throttled, ThreadKeeps
  <2>2. r \in ThreadType /\ r.stop = thread[t].stop /\ r.pc = "reads"
    BY <1>1 DEF ThreadType
  <2> HIDE DEF r
  <2>3. SeenInv'
    BY <1>2, <2>1, <2>2, ThreadStepSeen DEF Alive
  <2>4. CASE ~thread[t].stop
    <3>1. Left(t)' = Left(t)
      BY <1>5, <2>1, <2>2, <2>4 DEF Left
    <3>2. QED
      BY <1>5, <1>6, <2>1, <2>2, <2>3, <3>1
  <2>5. CASE thread[t].stop
    <3>1. Left(t) = "saves" /\ Left(t)' = "gone"
      BY <1>5, <2>1, <2>2, <2>5 DEF Left
    <3>2. Outcome!Fade(t)
      BY <1>2, <1>3, <1>5, <2>1, <2>2, <3>1 DEF Outcome!Fade
    <3>3. QED
      BY <2>3, <3>2 DEF Outcome!Next
  <2>6. QED
    BY <1>1, <2>4, <2>5 DEF ThreadType
<1>9. CASE MakeSave(t)
  <2> DEFINE r == [thread[t] EXCEPT !.pc = "saves", !.to = file, !.as = object[file]]
  <2>1. thread' = [thread EXCEPT ![t] = r] /\ UNCHANGED <<row, disk>> /\ thread[t].pc = "checked"
    BY <1>9 DEF MakeSave, ThreadKeeps
  <2>2. file \in Files /\ object[file] \in Statuses
    BY <1>1, <2>1 DEF CopyInv, StartedOK, TypeOK
  <2>3. /\ r \in ThreadType /\ r.stop = thread[t].stop /\ r.pc = "saves"
        /\ r.to = file /\ r.as = object[file]
    BY <1>1, <2>2 DEF ThreadType
  <2> HIDE DEF r
  <2>4. SeenInv'
    BY <1>2, <2>1, <2>3, ThreadStepSeen DEF Alive
  <2>5. Left(t)' = Left(t)
    BY <1>5, <2>1, <2>3 DEF Left
  <2>6. QED
    BY <1>5, <1>6, <2>1, <2>3, <2>4, <2>5
<1>10. CASE ExecuteSave(t)
  <2> DEFINE n == IF thread[t].stop THEN thread[t].late + 1 ELSE 0
  <2> DEFINE r == [thread[t] EXCEPT !.pc = "reads", !.to = "none", !.as = "pending", !.late = n]
  <2>1. /\ thread' = [thread EXCEPT ![t] = r] /\ disk' = disk /\ thread[t].pc = "saves"
        /\ row' = [row EXCEPT ![thread[t].to] = thread[t].as]
    BY <1>10 DEF ExecuteSave, ThreadKeeps
  <2>2. n \in 0..2
    BY <2>1 DEF CopyInv, LateOK
  <2> HIDE DEF n
  <2>3. r \in ThreadType /\ r.stop = thread[t].stop /\ r.pc = "reads"
    BY <1>1, <2>2 DEF ThreadType, Statuses
  <2> HIDE DEF r
  <2>4. SeenInv'
    BY <1>2, <2>1, <2>3, ThreadStepSeen DEF Alive
  <2>5. /\ thread[t].to \in Files /\ thread[t].to \notin todo /\ thread[t].as # "pending"
        /\ thread[t].as = "transferring" \/ object[thread[t].to] = thread[t].as
        /\ ~thread[t].stop => thread[t].to = file
    BY <2>1 DEF SeenInv, SaveSeen
  <2>6. CASE ~thread[t].stop
    <3>1. At # "none" /\ row' = [row EXCEPT ![At] = "transferring"]
      BY <1>4, <2>1, <2>5, <2>6 DEF Alive
    <3>2. Left(t)' = Left(t)
      BY <1>5, <2>1, <2>3, <2>6 DEF Left
    <3>3. Outcome!Report
      BY <1>2, <1>5, <2>1, <2>3, <3>1, <3>2 DEF Outcome!Report, Outcome!Save
    <3>4. QED
      BY <2>4, <3>3 DEF Outcome!Next
  <2>7. CASE thread[t].stop
    <3>1. Left(t) = "saves" /\ Left(t)' = "gone"
      BY <1>5, <2>1, <2>3, <2>7 DEF Left
    <3>2. /\ row[thread[t].to] # "pending"
          /\ thread[t].as \in {"transferring", "completed", "failed"}
      BY <1>1, <2>5 DEF SeenInv, RowsSeen, ThreadType, Statuses
    <3>3. thread[t].to = At => thread[t].as = "transferring"
      BY <2>5, CopyAssumption DEF SeenInv, RowsSeen, At
    <3>4. thread[t].as = "completed" => disk[thread[t].to] = "whole"
      BY <1>1, <2>1 DEF CompletedOK
    <3>5. Outcome!LateSave(t)
      BY <1>2, <1>3, <1>5, <2>1, <2>3, <2>5, <3>1, <3>2, <3>3, <3>4
      DEF Outcome!LateSave, Outcome!Save
    <3>6. QED
      BY <2>4, <3>5 DEF Outcome!Next
  <2>8. QED
    BY <1>1, <2>6, <2>7 DEF ThreadType
<1>11. CASE Returns(t)
  <2> DEFINE r == [thread[t] EXCEPT !.pc = "returned"]
  <2>1. /\ thread' = [thread EXCEPT ![t] = r] /\ row' = row /\ thread[t].pc = "reads"
        /\ disk' = [disk EXCEPT ![t[1]] = "whole"] /\ ~thread[t].stop
    BY <1>11 DEF Returns, ThreadKeeps
  <2>2. r \in ThreadType /\ r.stop = thread[t].stop /\ r.pc = "returned"
    BY <1>1 DEF ThreadType
  <2> HIDE DEF r
  <2>3. SeenInv'
    BY <1>2, <2>1, <2>2, ThreadStepSeen
  <2>4. At # "none" /\ t[1] = At
    BY <1>4, <2>1 DEF Alive
  <2>5. Left(t)' = Left(t)
    BY <1>5, <2>1, <2>2 DEF Left
  <2>6. Outcome!Write
    BY <1>2, <1>5, <2>1, <2>2, <2>4, <2>5 DEF Outcome!Write
  <2>7. QED
    BY <2>3, <2>6 DEF Outcome!Next
<1>12. CASE Raises(t)
  <2> DEFINE r == [thread[t] EXCEPT !.pc = "raised"]
  <2>1. thread' = [thread EXCEPT ![t] = r] /\ UNCHANGED <<row, disk>> /\ thread[t].pc = "reads"
    BY <1>12 DEF Raises
  <2>2. r \in ThreadType /\ r.stop = thread[t].stop /\ r.pc = "raised"
    BY <1>1 DEF ThreadType
  <2> HIDE DEF r
  <2>3. SeenInv'
    BY <1>2, <2>1, <2>2, ThreadStepSeen
  <2>4. Left(t)' = Left(t)
    BY <1>5, <2>1, <2>2 DEF Left
  <2>5. QED
    BY <1>5, <1>6, <2>1, <2>2, <2>3, <2>4
<1>13. QED
  BY <1>7, <1>8, <1>9, <1>10, <1>11, <1>12 DEF CallbackStep

(* The loop saves the file it is at: when it takes it, or when it is done    *)
(* with it; then no other status of that file is under way but transferring. *)
LEMMA SaveSeenKept ==
  ASSUME CopyInv, SeenInv, NEW f \in Files, NEW s \in {"transferring", "completed", "failed"},
         SaveAs(f, s), file' = f,
         \/ f \in todo /\ todo' = todo \ {f} /\ pc' = "try"
         \/ f = file /\ InTry /\ todo' = todo /\ pc' = "next",
         s = "transferring" <=> pc' = "try",
         \A t \in Threads :
           /\ thread'[t].pc = thread[t].pc /\ thread'[t].to = thread[t].to
           /\ thread'[t].as = thread[t].as
           /\ thread[t].stop => thread'[t].stop
           /\ thread[t].pc = "none" => ~thread'[t].stop
           /\ Alive(t) => thread'[t].stop
  PROVE  SeenInv'
<1>1. TypeOK
  BY DEF CopyInv
<1>2. /\ object'[f] = s /\ row'[f] = s
      /\ \A g \in Files : g # f => object'[g] = object[g] /\ row'[g] = row[g]
  BY <1>1 DEF SaveAs, TypeOK
<1>3. RowsSeen'
  BY <1>2 DEF SeenInv, RowsSeen, InTry
<1>4. ASSUME NEW t \in Threads PROVE SaveSeen(t)' /\ ThreadSeen(t)'
  <2>1. ThreadSeen(t)'
    BY DEF ThreadSeen, Alive
  <2>2. SaveSeen(t)'
    <3>1. CASE thread[t].pc = "saves"
      <4>1. thread'[t].stop /\ thread'[t].to = thread[t].to /\ thread'[t].as = thread[t].as
        BY <3>1 DEF Alive
      <4>2. /\ thread[t].to \in Files /\ thread[t].to \notin todo /\ thread[t].as # "pending"
            /\ thread[t].as = "transferring" \/ object[thread[t].to] = thread[t].as
        BY <3>1 DEF SeenInv, SaveSeen
      <4>3. thread[t].as = "transferring" \/ thread[t].to # f
        BY <4>2 DEF SeenInv, RowsSeen
      <4>4. QED
        BY <1>2, <4>1, <4>2, <4>3 DEF SaveSeen
    <3>2. CASE thread[t].pc # "saves"
      BY <3>2 DEF SaveSeen
    <3>3. QED
      BY <3>1, <3>2
  <2>3. QED
    BY <2>1, <2>2
<1>5. QED
  BY <1>3, <1>4 DEF SeenInv

(* What is left of the tries does not change with a step that keeps the      *)
(* threads' stop events.                                                     *)
LEMMA StrayKept ==
  ASSUME \A t \in Threads : Left(t)' = Left(t)
  PROVE  Stray' = Stray
BY DEF Stray

(* The end of a try that failed.                                             *)
LEMMA TryFailsOutcome ==
  ASSUME CopyInv, SeenInv, Raised \/ GivesUp
  PROVE  SeenInv' /\ [Outcome!Next]_(Outcome!vars)
<1>1. /\ TypeOK /\ pc = "watch" /\ file \in Files /\ file \notin todo /\ InTry
      /\ Current \in Threads /\ ~thread[Current].stop /\ TryFails
      /\ UNCHANGED <<todo, file, try, disk>>
  BY CurrentThread
  DEF CopyInv, LoopOK, InTry, SeenInv, Raised, GivesUp
<1>2. At = file /\ At # "none" /\ object[file] = "transferring"
  BY <1>1, CopyAssumption DEF At, SeenInv, RowsSeen
<1>c. PICK c \in Threads : c = Current
  BY <1>1
<1> DEFINE r == [thread[c] EXCEPT !.stop = TRUE, !.stalled = FALSE]
<1>3. /\ r \in ThreadType /\ r.pc = thread[c].pc
      /\ r.to = thread[c].to /\ r.as = thread[c].as /\ r.stop = TRUE
  <2>1. thread[c] \in ThreadType
    BY <1>1 DEF TypeOK, ThreadType
  <2>2. QED
    BY <2>1 DEF ThreadType
<1>4. \/ thread' = thread /\ thread[Current].pc = "raised"
      \/ thread' = [thread EXCEPT ![c] = r]
  BY <1>1, <1>c DEF Raised, GivesUp, TypeOK
<1> HIDE DEF r
<1>5. \A t \in Threads :
        /\ thread'[t].pc = thread[t].pc /\ thread'[t].to = thread[t].to
        /\ thread'[t].as = thread[t].as
        /\ t # c => thread'[t] = thread[t]
        /\ thread[t].stop => thread'[t].stop
        /\ Alive(t) => thread'[t].stop
        /\ thread[t].pc = "none" => ~thread'[t].stop
  <2>1. \A t \in Threads : Alive(t) /\ ~thread[t].stop => t = c
    BY <1>c DEF SeenInv, ThreadSeen
  <2>2. \A t \in Threads : thread[t].pc = "none" => ~thread[t].stop
    BY DEF SeenInv, ThreadSeen
  <2>3. CASE thread' = thread /\ thread[Current].pc = "raised"
    BY <1>c, <2>1, <2>2, <2>3 DEF Alive
  <2>4. CASE thread' = [thread EXCEPT ![c] = r]
    <3>1. thread[c].pc # "none"
      BY <1>1, <1>c DEF SeenInv
    <3>2. QED
      BY <1>1, <1>3, <1>c, <2>1, <2>2, <2>4, <3>1, SetThread
  <2>5. QED
    BY <1>4, <2>3, <2>4
<1>6. Stray' = Stray \/ Outcome!Abandon(c)
  <2>1. CASE thread' = thread
    BY <2>1, StrayKept DEF Left
  <2>2. CASE thread' = [thread EXCEPT ![c] = r]
    <3>1. thread'[c] = r /\ \A u \in Threads : u # c => thread'[u] = thread[u]
      BY <1>1, <1>3, <2>2, SetThread
    <3>2. Left(c)' \in {"saves", "gone"} /\ Left(c) = "none"
      BY <1>1, <1>3, <1>c, <3>1 DEF Left
    <3>3. QED
      BY <1>1, <3>1, <3>2, StrayStep, StrayType DEF Outcome!Abandon, Stray
  <2>3. QED
    BY <1>4, <2>1, <2>2
<1>7. CASE pc' = "next" /\ SaveAs(file, "failed")
  <2>1. SeenInv'
    BY <1>1, <1>5, <1>7, SaveSeenKept
  <2>2. At' = "none"
    BY <1>7 DEF At, InTry
  <2>3. Outcome!Fail
    BY <1>1, <1>2, <1>6, <1>7, <2>2 DEF Outcome!Fail, Outcome!Save, SaveAs
  <2>4. QED
    BY <2>1, <2>3 DEF Outcome!Next
<1>8. CASE pc' = "reconnect" /\ UNCHANGED <<object, row>>
  <2>1. At' = At
    BY <1>1, <1>8 DEF At, InTry
  <2>2. SeenInv'
    <3>1. RowsSeen'
      BY <1>1, <1>8 DEF SeenInv, RowsSeen, InTry
    <3>2. \A t \in Threads : SaveSeen(t)' /\ ThreadSeen(t)'
      BY <1>1, <1>5, <1>8 DEF SeenInv, SaveSeen, ThreadSeen, Alive
    <3>3. QED
      BY <1>8, <3>1, <3>2 DEF SeenInv
  <2>3. UNCHANGED Outcome!vars \/ Outcome!GiveUp(c)
    BY <1>1, <1>2, <1>6, <1>8, <2>1 DEF Outcome!vars, Outcome!GiveUp
  <2>4. QED
    BY <1>1, <2>2, <2>3 DEF Outcome!Next
<1>9. QED
  BY <1>1, <1>7, <1>8 DEF TryFails

LEMMA LoopOutcome ==
  ASSUME CopyInv, SeenInv, LoopStep
  PROVE  SeenInv' /\ [Outcome!Next]_(Outcome!vars)
<1>1. TypeOK /\ LoopOK /\ StartedOK /\ CompletedOK
  BY DEF CopyInv
<1>2. CASE NextFile
  <2>1. PICK f \in todo : file' = f /\ todo' = todo \ {f} /\ SaveAs(f, "transferring")
    BY <1>2 DEF NextFile
  <2>2. /\ pc = "next" /\ try' = 0 /\ pc' = "try" /\ f \in Files
        /\ UNCHANGED <<link, disk, thread, spent>>
    BY <1>1, <1>2 DEF NextFile, TypeOK
  <2>3. \A t \in Threads : (Alive(t) => thread[t].stop) /\ (thread[t].pc = "none" => ~thread[t].stop)
    BY <2>2 DEF SeenInv, ThreadSeen
  <2>4. SeenInv'
    BY <2>1, <2>2, <2>3, SaveSeenKept
  <2>5. At = "none" /\ At' = f /\ row[f] = "pending"
    BY <2>1, <2>2 DEF At, InTry, SeenInv, RowsSeen
  <2>6. Stray' = Stray
    BY <2>2, StrayKept DEF Left
  <2>7. Outcome!Begin(f)
    BY <2>1, <2>2, <2>5, <2>6 DEF Outcome!Begin, Outcome!Save, SaveAs
  <2>8. QED
    BY <2>2, <2>4, <2>7 DEF Outcome!Next
<1>3. CASE StartTry
  <2>1. PICK t \in Threads : t = <<file, try + 1>>
    BY <1>1, <1>3, CopyAssumption DEF StartTry, LoopOK, InTry, TypeOK, Threads
  <2> DEFINE r == [thread[t] EXCEPT !.pc = IF link THEN "reads" ELSE "raised"]
  <2>2. /\ pc = "try" /\ try' = try + 1 /\ pc' = "watch" /\ disk' = [disk EXCEPT ![file] = "part"]
        /\ UNCHANGED <<todo, file, link, object, row, spent>> /\ thread' = [thread EXCEPT ![t] = r]
    BY <1>3, <2>1 DEF StartTry
  <2>3. file \in Files /\ try \in Nat /\ thread[t] \in ThreadType /\ Current' = t
    BY <1>1, <2>1, <2>2 DEF LoopOK, InTry, TypeOK, ThreadType, Current
  <2>4. thread[t].pc = "none" /\ ~thread[t].stop
    BY <1>1, <2>1, <2>3 DEF StartedOK, SeenInv, ThreadSeen
  <2>5. r \in ThreadType /\ r.pc \in {"reads", "raised"} /\ r.stop = thread[t].stop
    BY <2>3 DEF ThreadType
  <2> HIDE DEF r
  <2>6. thread'[t] = r /\ \A u \in Threads : u # t => thread'[u] = thread[u]
    BY <1>1, <2>2, <2>5, SetThread
  <2>7. SeenInv'
    <3>1. RowsSeen'
      BY <2>2 DEF SeenInv, RowsSeen, InTry
    <3>2. \A u \in Threads : SaveSeen(u)' /\ ThreadSeen(u)'
      BY <2>2, <2>3, <2>5, <2>6 DEF SeenInv, SaveSeen, ThreadSeen, Alive
    <3>3. QED
      BY <2>3, <2>4, <2>5, <2>6, <3>1, <3>2 DEF SeenInv
  <2>8. Stray' = Stray
    BY <2>4, <2>5, <2>6, StrayKept DEF Left
  <2>9. At = file /\ At' = file /\ At # "none"
    BY <2>2, <2>3, CopyAssumption DEF At, InTry
  <2>10. Outcome!Write
    BY <2>2, <2>8, <2>9 DEF Outcome!Write
  <2>11. QED
    BY <2>7, <2>10 DEF Outcome!Next
<1>4. CASE Copied
  <2>1. /\ pc = "watch" /\ thread[Current].pc = "returned" /\ SaveAs(file, "completed")
        /\ pc' = "next" /\ UNCHANGED <<todo, file, try, link, disk, thread, spent>>
    BY <1>4 DEF Copied
  <2>2. file \in Files /\ file \notin todo /\ disk[file] = "whole" /\ InTry
    BY <1>1, <2>1 DEF LoopOK, CompletedOK, InTry
  <2>3. \A t \in Threads : (Alive(t) => thread[t].stop) /\ (thread[t].pc = "none" => ~thread[t].stop)
    BY <2>1 DEF SeenInv, ThreadSeen, Alive
  <2>4. SeenInv'
    BY <2>1, <2>2, <2>3, SaveSeenKept
  <2>5. At = file /\ At # "none" /\ At' = "none"
    BY <2>1, <2>2, CopyAssumption DEF At, InTry
  <2>6. Stray' = Stray
    BY <2>1, StrayKept DEF Left
  <2>7. Outcome!Complete
    BY <2>1, <2>2, <2>5, <2>6 DEF Outcome!Complete, Outcome!Save, SaveAs
  <2>8. QED
    BY <2>4, <2>7 DEF Outcome!Next
<1>5. CASE Raised \/ GivesUp
  BY <1>5, TryFailsOutcome
<1>6. CASE Reconnect \/ LoopEnds
  <2>1. UNCHANGED <<todo, file, try, object, row, disk, thread>>
    BY <1>6 DEF Reconnect, LoopEnds
  <2>2. \/ pc = "reconnect" /\ pc' = "try"
        \/ pc = "next" /\ pc' = "done"
    BY <1>6 DEF Reconnect, LoopEnds
  <2>3. At' = At /\ InTry' = InTry
    BY <2>1, <2>2 DEF At, InTry
  <2>4. Stray' = Stray
    BY <2>1, StrayKept DEF Left
  <2>5. SeenInv'
    BY <2>1, <2>2, <2>3 DEF SeenInv, RowsSeen, SaveSeen, ThreadSeen, Alive, Current
  <2>6. QED
    BY <2>1, <2>3, <2>4, <2>5 DEF Outcome!vars
<1>7. QED
  BY <1>2, <1>3, <1>4, <1>5, <1>6 DEF LoopStep

LEMMA StallOutcome ==
  ASSUME CopyInv, SeenInv, NEW f \in Files, StallCheck(f)
  PROVE  SeenInv' /\ [Outcome!Next]_(Outcome!vars)
<1>1. /\ UNCHANGED <<pc, todo, file, try, object, link, disk, thread>>
      /\ row[f] = "transferring" /\ row' = [row EXCEPT ![f] = "failed"]
  BY DEF StallCheck, loopVars
<1>2. \A g \in Files : row'[g] = "pending" <=> row[g] = "pending"
  BY <1>1 DEF CopyInv, TypeOK
<1>3. SeenInv'
  BY <1>1, <1>2 DEF SeenInv, RowsSeen, SaveSeen, ThreadSeen, Alive, Current, InTry
<1>4. At' = At /\ Stray' = Stray
  BY <1>1, StrayKept DEF At, InTry, Left
<1>5. Outcome!Stall(f)
  BY <1>1, <1>4 DEF Outcome!Stall, Outcome!Save
<1>6. QED
  BY <1>3, <1>5 DEF Outcome!Next

(* Refinement: in the rows and on the disk, the loop with its leaked threads *)
(* does nothing that FileOutcome does not allow.                             *)
THEOREM CopyLoopImplementsOutcome == Spec => ImplementsFileOutcome
<1>1. Init => SeenInv /\ Outcome!Init
  <2> SUFFICES ASSUME Init PROVE SeenInv /\ Outcome!Init
    OBVIOUS
  <2>1. NoThread.pc = "none" /\ NoThread.stop = FALSE
    BY DEF NoThread
  <2>2. \A t \in Threads : thread[t].pc = "none" /\ ~thread[t].stop
    BY <2>1 DEF Init
  <2>3. SeenInv
    BY <2>2, CopyAssumption
    DEF Init, SeenInv, RowsSeen, SaveSeen, ThreadSeen, Alive, InTry
  <2>4. At = "none" /\ Stray = [t \in Threads |-> "none"]
    BY <2>2 DEF Init, At, InTry, Stray, Left
  <2>5. QED
    BY <2>3, <2>4 DEF Init, Outcome!Init
<1>2. CopyInv /\ SeenInv /\ [Next]_vars => SeenInv' /\ [Outcome!Next]_(Outcome!vars)
  <2> SUFFICES ASSUME CopyInv, SeenInv, [Next]_vars
               PROVE  SeenInv' /\ [Outcome!Next]_(Outcome!vars)
    OBVIOUS
  <2>1. CASE UNCHANGED vars
    <3>1. At' = At /\ Stray' = Stray
      BY <2>1, StrayKept DEF vars, At, InTry, Left
    <3>2. QED
      BY <2>1, <3>1
      DEF vars, Outcome!vars, SeenInv, RowsSeen, SaveSeen, ThreadSeen, Alive, Current, InTry
  <2>2. QED
    BY <2>1, LoopOutcome, ThreadOutcome, StallOutcome DEF Next
<1>3. QED
  BY <1>1, <1>2, InitInv, NextInv, PTL DEF Spec, ImplementsFileOutcome, Outcome!Spec
=============================================================================
