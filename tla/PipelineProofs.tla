--------------------------- MODULE PipelineProofs ---------------------------
(***************************************************************************)
(* Proofs about the pipeline, for any set of files, any number of workers, *)
(* any faults, deaths and user actions: the rows agree with the disk, no   *)
(* file is lost, no row is in flight without a run, and the shared columns *)
(* are used as RetryChain specifies.  Within the faults of RecoverySees an *)
(* item in PostProcessing is never out of the recovery's sight.            *)
(***************************************************************************)
EXTENDS Pipeline, TLAPS

(* The conjuncts of TypeOK by who writes them.                               *)
SharedOK ==
  /\ status \in Retry!Statuses /\ attempts \in 0..RetryCap
  /\ marker \in {"stale", "other"} \union Chains
  /\ size \subseteq Files
ChainOK == chain \in [Chains -> Retry!ChainType]
FilesOK ==
  /\ rows \in [Files -> {"none", "pending", "transferring", "completed", "failed"}]
  /\ disk \in [Files -> {"none", "part", "full", "unpacked"}]
  /\ remote \subseteq Files
TasksOK ==
  /\ tasks \in [{"postprocess", "transfer"} -> 0..MaxTasks]
  /\ verify \in [Verifiers -> ItemType \union {Nobody}]
  /\ reader \in ItemType \union {Nobody}
RunOK == run \in RunType \union {Idle}
SpentOK == spent \in [{"faults", "deaths", "actions"} -> Nat]

LEMMA TypeParts ==
  TypeOK <=> SharedOK /\ ChainOK /\ FilesOK /\ TasksOK /\ RunOK /\ SpentOK
BY DEF TypeOK, Retry!TypeOK, SharedOK, ChainOK, FilesOK, TasksOK, RunOK, SpentOK

LEMMA TypePartsNext ==
  SharedOK' /\ ChainOK' /\ FilesOK' /\ TasksOK' /\ RunOK' /\ SpentOK' => TypeOK'
BY DEF TypeOK, Retry!TypeOK, SharedOK, ChainOK, FilesOK, TasksOK, RunOK, SpentOK

(* What a task read of the item is an item; a run that has the semaphore is  *)
(* a run.                                                                    *)
LEMMA ItemRead ==
  ASSUME SharedOK
  PROVE  Item \in ItemType
BY DEF SharedOK, Item, ItemType

LEMMA RunRead ==
  ASSUME RunOK, Busy
  PROVE  run \in RunType /\ run.item \in ItemType
BY DEF RunOK, Busy, RunType

LEMMA SaveType ==
  ASSUME SharedOK, NEW item \in ItemType, NEW s \in Retry!Statuses, Save(item, s)
  PROVE  SharedOK' /\ marker' \in {marker, "stale", "other"}
BY DEF SharedOK, Save, ItemType

LEMMA QueueType ==
  ASSUME TasksOK, NEW kind \in {"postprocess", "transfer"}, Queue(kind) \/ Dequeue(kind)
  PROVE  tasks' \in [{"postprocess", "transfer"} -> 0..MaxTasks]
BY PipelineAssumption DEF TasksOK, Queue, Dequeue

(* Deaths are only ever counted up.                                          *)
LEMMA SpendType ==
  ASSUME SpentOK, NEW what \in {"faults", "deaths", "actions"}, NEW bound, Spend(what, bound)
  PROVE  /\ SpentOK'
         /\ spent'.deaths = 0 => spent.deaths = 0
BY DEF SpentOK, Spend

LEMMA FaultType ==
  ASSUME SpentOK, NEW kind, Fault(kind) \/ UNCHANGED spent
  PROVE  SpentOK' /\ (spent'.deaths = 0 => spent.deaths = 0)
<1>1. CASE Fault(kind)
  BY <1>1, SpendType DEF Fault
<1>2. CASE UNCHANGED spent
  BY <1>2 DEF SpentOK
<1>3. QED
  BY <1>1, <1>2
-----------------------------------------------------------------------------
(* What a step of another actor than the transfer under way may do: it keeps *)
(* the disk, the seedbox and the run, and a row it writes is neither         *)
(* completed nor in flight unless it was before.                             *)
ByOthers ==
  /\ UNCHANGED <<disk, remote, run>>
  /\ \A f \in Files :
       /\ rows'[f] = "completed" => rows[f] = "completed"
       /\ rows'[f] \in {"pending", "transferring"} => rows[f] \in {"pending", "transferring"}
  /\ spent'.deaths = 0 => spent.deaths = 0

(* The shared columns as RetryChain!Interfere writes them.                   *)
Interferes == UNCHANGED chain /\ marker' \in {marker, "stale", "other"}

BeforeRun ==
  \/ CheckDownloaders
  \/ \E p \in Verifiers : PostprocessStep(p)
  \/ ReadItem \/ Refused

LEMMA BeforeRunStep ==
  ASSUME TypeOK, BeforeRun
  PROVE  TypeOK' /\ ByOthers /\ Interferes
<1>0. SharedOK /\ ChainOK /\ FilesOK /\ TasksOK /\ RunOK /\ SpentOK
  BY TypeParts
<1>1. UNCHANGED <<rows, disk, remote, chain, run>>
  BY DEF BeforeRun, CheckDownloaders, PostprocessStep, ReadGrabbed, StartPostProcessing,
         QueueingFails, VerificationFails, ReadItem, Refused, fileVars
<1>2. ChainOK' /\ FilesOK' /\ RunOK'
  BY <1>0, <1>1 DEF ChainOK, FilesOK, RunOK
<1>3. Item \in ItemType
  BY <1>0, ItemRead
<1>4. (UNCHANGED itemVars => SharedOK' /\ marker' = marker) /\ (UNCHANGED spent => SpentOK')
  BY <1>0 DEF itemVars, SharedOK, SpentOK
<1> DEFINE Good == SharedOK' /\ TasksOK' /\ SpentOK' /\ marker' \in {marker, "stale", "other"}
                   /\ (spent'.deaths = 0 => spent.deaths = 0)
<1>5. ASSUME CheckDownloaders PROVE Good
  <2>1. TasksOK'
    BY <1>0, <1>5, QueueType DEF CheckDownloaders, TasksOK
  <2>2. QED
    BY <1>4, <1>5, <2>1 DEF CheckDownloaders
<1>6. ASSUME NEW p \in Verifiers, ReadGrabbed(p) PROVE Good
  <2>1. verify' \in [Verifiers -> ItemType \union {Nobody}]
    BY <1>0, <1>3, <1>6 DEF ReadGrabbed, TasksOK
  <2>2. tasks' \in [{"postprocess", "transfer"} -> 0..MaxTasks]
    BY <1>0, <1>6, QueueType DEF ReadGrabbed
  <2>3. TasksOK'
    BY <1>0, <1>6, <2>1, <2>2 DEF ReadGrabbed, TasksOK
  <2>4. QED
    BY <1>4, <1>6, <2>3 DEF ReadGrabbed
<1>7. ASSUME NEW p \in Verifiers,
             StartPostProcessing(p) \/ QueueingFails(p) \/ VerificationFails(p)
      PROVE  Good
  <2>1. verify[p] \in ItemType /\ verify' \in [Verifiers -> ItemType \union {Nobody}]
    BY <1>0, <1>7
    DEF StartPostProcessing, QueueingFails, VerificationFails, Verified, TasksOK
  <2>2. \E s \in Retry!Statuses : Save(verify[p], s)
    BY <1>7 DEF StartPostProcessing, QueueingFails, VerificationFails, Retry!Statuses
  <2>3. SharedOK' /\ marker' \in {marker, "stale", "other"}
    BY <1>0, <2>1, <2>2, SaveType
  <2>4. SpentOK' /\ (spent'.deaths = 0 => spent.deaths = 0)
    BY <1>0, <1>7, FaultType DEF StartPostProcessing, QueueingFails, VerificationFails
  <2>5. tasks' \in [{"postprocess", "transfer"} -> 0..MaxTasks] /\ reader' = reader
    BY <1>0, <1>7, QueueType
    DEF StartPostProcessing, QueueingFails, VerificationFails, TasksOK
  <2>6. TasksOK'
    BY <1>0, <2>1, <2>5 DEF TasksOK
  <2>7. QED
    BY <2>3, <2>4, <2>6
<1>8. ASSUME ReadItem PROVE Good
  <2>1. tasks' \in [{"postprocess", "transfer"} -> 0..MaxTasks]
    BY <1>0, <1>8, QueueType DEF ReadItem
  <2>2. TasksOK'
    BY <1>0, <1>3, <1>8, <2>1 DEF ReadItem, TasksOK
  <2>3. QED
    BY <1>4, <1>8, <2>2 DEF ReadItem
<1>9. ASSUME Refused PROVE Good
  <2>1. TasksOK'
    BY <1>0, <1>9 DEF Refused, TasksOK
  <2>2. QED
    BY <1>4, <1>9, <2>1 DEF Refused
<1>10. Good
  BY <1>5, <1>6, <1>7, <1>8, <1>9 DEF BeforeRun, PostprocessStep
<1>11. QED
  BY <1>1, <1>2, <1>10, TypePartsNext DEF ByOthers, Interferes
-----------------------------------------------------------------------------
(* The recovery tick, and what the user does.                                *)
LEMMA TickStep ==
  ASSUME TypeOK, Tick
  PROVE  TypeOK' /\ ByOthers /\ Interferes
<1>0. SharedOK /\ ChainOK /\ FilesOK /\ TasksOK /\ RunOK /\ SpentOK
  BY TypeParts
<1>1. UNCHANGED <<disk, remote, chain, run, verify, reader>>
  BY DEF Tick, Reopen, Stall, Recover, DownloaderFails, fileVars, taskVars
<1>2. ChainOK' /\ RunOK'
  BY <1>0, <1>1 DEF ChainOK, RunOK
<1>3. Item \in ItemType
  BY <1>0, ItemRead
<1> DEFINE RowsGood ==
             /\ rows' \in [Files -> {"none", "pending", "transferring", "completed", "failed"}]
             /\ \A f \in Files :
                  /\ rows'[f] = "completed" => rows[f] = "completed"
                  /\ rows'[f] \in {"pending", "transferring"}
                       => rows[f] \in {"pending", "transferring"}
           TasksGood == tasks' \in [{"postprocess", "transfer"} -> 0..MaxTasks]
           SharedGood == SharedOK' /\ marker' \in {marker, "stale", "other"}
           SpentGood == SpentOK' /\ (spent'.deaths = 0 => spent.deaths = 0)
<1>4. ASSUME Reopen \/ DownloaderFails
      PROVE  RowsGood /\ TasksGood /\ SharedGood /\ SpentGood
  <2>1. \E s \in Retry!Statuses : Save(Item, s)
    BY <1>4 DEF Reopen, DownloaderFails, Retry!Statuses
  <2>2. SharedGood
    BY <1>0, <1>3, <2>1, SaveType
  <2>3. SpentGood
    BY <1>0, <1>4, FaultType DEF Reopen, DownloaderFails
  <2>4. RowsGood /\ TasksGood
    BY <1>0, <1>4 DEF Reopen, DownloaderFails, fileVars, taskVars, FilesOK, TasksOK
  <2>5. QED
    BY <2>2, <2>3, <2>4
<1>5. ASSUME NEW f \in Files, Stall(f)
      PROVE  RowsGood /\ TasksGood /\ SharedGood /\ SpentGood
  <2>1. SpentGood
    BY <1>0, <1>5, FaultType DEF Stall
  <2>2. RowsGood
    BY <1>0, <1>5 DEF Stall, SaveRow, FilesOK
  <2>3. TasksGood /\ SharedGood
    BY <1>0, <1>5 DEF Stall, itemVars, taskVars, SharedOK, TasksOK
  <2>4. QED
    BY <2>1, <2>2, <2>3
<1>6. ASSUME Recover
      PROVE  RowsGood /\ TasksGood /\ SharedGood /\ SpentGood
  <2>1. SpentGood
    BY <1>0, <1>6, FaultType DEF Recover
  <2>2. RowsGood
    BY <1>0, <1>6 DEF Recover, FilesOK
  <2>3. TasksGood
    BY <1>0, <1>6, QueueType DEF Recover, TasksOK
  <2>4. SharedGood
    BY <1>0, <1>6 DEF Recover, SharedOK
  <2>5. QED
    BY <2>1, <2>2, <2>3, <2>4
<1>7. RowsGood /\ TasksGood /\ SharedGood /\ SpentGood
  BY <1>4, <1>5, <1>6 DEF Tick
<1>8. FilesOK' /\ TasksOK'
  BY <1>0, <1>1, <1>7 DEF FilesOK, TasksOK
<1>9. QED
  BY <1>1, <1>2, <1>7, <1>8, TypePartsNext DEF ByOthers, Interferes

LEMMA UserStepByOthers ==
  ASSUME TypeOK, UserStep
  PROVE  TypeOK' /\ ByOthers /\ Interferes
<1>0. SharedOK /\ ChainOK /\ FilesOK /\ TasksOK /\ RunOK /\ SpentOK
  BY TypeParts
<1>1. UNCHANGED <<disk, remote, chain, run, verify, reader>>
  BY DEF UserStep, CancelTransfer, Decide, Requeue, Retransfer, RetryFailed, SetStatus,
         fileVars, taskVars
<1>2. ChainOK' /\ RunOK'
  BY <1>0, <1>1 DEF ChainOK, RunOK
<1>3. \E kind : User(kind)
  BY DEF UserStep, CancelTransfer, Decide, Requeue, Retransfer, RetryFailed, SetStatus
<1>4. SpentOK' /\ (spent'.deaths = 0 => spent.deaths = 0)
  BY <1>0, <1>3, SpendType DEF User
<1>5. /\ rows' \in [Files -> {"none", "pending", "transferring", "completed", "failed"}]
      /\ \A f \in Files :
           /\ rows'[f] = "completed" => rows[f] = "completed"
           /\ rows'[f] \in {"pending", "transferring"} => rows[f] \in {"pending", "transferring"}
  <2>1. \/ UNCHANGED rows
        \/ NoRows
        \/ rows' = [f \in Files |-> IF rows[f] \in {"pending", "transferring"} THEN "failed"
                                                                               ELSE rows[f]]
    BY DEF UserStep, CancelTransfer, Decide, Requeue, Retransfer, RetryFailed, SetStatus,
           fileVars
  <2>2. QED
    BY <1>0, <2>1 DEF NoRows, FilesOK
<1>6. TasksOK'
  <2>1. UNCHANGED tasks \/ Queue("transfer")
    BY DEF UserStep, CancelTransfer, Decide, Requeue, Retransfer, RetryFailed, SetStatus,
           taskVars
  <2>2. QED
    BY <1>0, <1>1, <2>1, QueueType DEF TasksOK
<1>7. SharedOK' /\ marker' \in {marker, "stale", "other"}
  <2>1. CASE \E s \in Retry!Statuses : Save(Item, s)
    BY <1>0, <2>1, ItemRead, SaveType
  <2>2. CASE Requeue
    BY <1>0, <2>2, PipelineAssumption DEF Requeue, SharedOK, Retry!Statuses
  <2>3. CASE Retransfer
    BY <1>0, <2>3 DEF Retransfer, itemVars, SharedOK
  <2>4. QED
    BY <2>1, <2>2, <2>3
    DEF UserStep, CancelTransfer, Decide, RetryFailed, SetStatus, Retry!Statuses
<1>8. FilesOK'
  BY <1>0, <1>1, <1>5 DEF FilesOK
<1>9. QED
  BY <1>1, <1>2, <1>4, <1>5, <1>6, <1>7, <1>8, TypePartsNext DEF ByOthers, Interferes
-----------------------------------------------------------------------------
(* The retry chains: what RetryChainProofs shows of a step of a chain.       *)
R == INSTANCE RetryChainProofs WITH Outside <- {"status", "marker", "count", "errors", "redelivery"}

LEMMA ChainFrame ==
  ASSUME SharedOK, ChainOK, NEW c \in Chains, R!ChainStep(c)
  PROVE  /\ \E k \in Retry!ChainType : chain' = [chain EXCEPT ![c] = k]
         /\ status' \in {status, "Failed"}
         /\ attempts' \in 0..RetryCap
         /\ marker' \in {marker, c}
<1>1. R!TypeOK
  BY DEF SharedOK, ChainOK, R!TypeOK, R!Statuses, Retry!Statuses, R!ChainType, Retry!ChainType,
         R!None, Retry!None, R!Stages, Retry!Stages
<1>2. R!ChainType = Retry!ChainType
  BY DEF R!ChainType, Retry!ChainType, R!None, Retry!None, R!Stages, Retry!Stages
<1>3. R!RetryAssumption
  BY PipelineAssumption DEF R!RetryAssumption, R!Interference
<1>4. QED
  BY <1>1, <1>2, <1>3, R!ChainStepFrame

LEMMA RetryStepByOthers ==
  ASSUME TypeOK, NEW c \in Chains, RetryStep(c)
  PROVE  TypeOK' /\ ByOthers /\ Retry!Next
<1>0. SharedOK /\ ChainOK /\ FilesOK /\ TasksOK /\ RunOK /\ SpentOK
  BY TypeParts
<1>1. /\ UNCHANGED <<rows, disk, remote, run, tasks, verify, reader, size>>
      /\ UNCHANGED spent \/ Spend("deaths", MaxDeaths)
  BY DEF RetryStep, fileVars, taskVars
<1>2. FilesOK' /\ RunOK' /\ TasksOK' /\ SpentOK' /\ (spent'.deaths = 0 => spent.deaths = 0)
  <2>1. FilesOK' /\ RunOK' /\ TasksOK'
    BY <1>0, <1>1 DEF FilesOK, RunOK, TasksOK
  <2>2. SpentOK' /\ (spent'.deaths = 0 => spent.deaths = 0)
    BY <1>0, <1>1, SpendType DEF SpentOK
  <2>3. QED
    BY <2>1, <2>2
<1>3. R!ChainStep(c)
  BY DEF RetryStep, R!ChainStep, R!Starts, R!Returns, Retry!Returns,
         Retry!CountdownEnds, R!CountdownEnds, Retry!Capped, R!Capped, Retry!Skip, R!Skip,
         Retry!Call, R!Call, Retry!Permitted, R!Permitted, Retry!Succeeds, R!Succeeds,
         Retry!LastFails, R!LastFails, Retry!Fails, R!Fails, Retry!Errors, R!Errors,
         Retry!Redelivered, R!Redelivered, Retry!Move, R!Move, Retry!Drop, R!Drop,
         Retry!Await, R!Await, Retry!None, R!None
<1>4. SharedOK' /\ ChainOK'
  <2>1. \E k \in Retry!ChainType : chain' = [chain EXCEPT ![c] = k]
    BY <1>0, <1>3, ChainFrame
  <2>2. status' \in Retry!Statuses /\ attempts' \in 0..RetryCap /\ marker' \in {marker, c}
    BY <1>0, <1>3, ChainFrame DEF SharedOK, Retry!Statuses
  <2>3. QED
    BY <1>0, <1>1, <2>1, <2>2 DEF SharedOK, ChainOK
<1>5. Retry!Next
  BY DEF RetryStep, Retry!Next, Retry!Starts
<1>6. QED
  BY <1>1, <1>2, <1>4, <1>5, TypePartsNext DEF ByOthers

LEMMA CooldownByOthers ==
  ASSUME TypeOK, CooldownElapses
  PROVE  TypeOK' /\ ByOthers /\ Interferes
<1>0. SharedOK /\ ChainOK /\ FilesOK /\ TasksOK /\ RunOK /\ SpentOK
  BY TypeParts
<1>1. /\ UNCHANGED <<rows, disk, remote, run, tasks, verify, reader, size, spent, chain>>
      /\ UNCHANGED <<status, attempts>> /\ marker' = "stale"
  BY DEF CooldownElapses, Retry!CooldownElapses, fileVars, taskVars
<1>2. SharedOK' /\ ChainOK' /\ FilesOK' /\ TasksOK' /\ RunOK' /\ SpentOK'
  BY <1>0, <1>1 DEF SharedOK, ChainOK, FilesOK, TasksOK, RunOK, SpentOK
<1>3. QED
  BY <1>1, <1>2, TypePartsNext DEF ByOthers, Interferes
-----------------------------------------------------------------------------
(* The transfer that has the semaphore.  Idle is not a run.                  *)
LEMMA RunAtType ==
  ASSUME RunOK, NEW pc, RunAt(pc)
  PROVE  run \in RunType /\ run.item \in ItemType /\ run.pc = pc
BY DEF RunOK, RunAt, Busy, RunType

(* How a step of the run may change it.                                      *)
LEMMA RunGotoType ==
  ASSUME run \in RunType, NEW pc \in RunPC, RunGoto(pc)
  PROVE  RunOK'
BY DEF RunOK, RunType, RunGoto

LEMMA EnterStep ==
  ASSUME TypeOK, Enter
  PROVE  TypeOK' /\ Interferes
<1>0. SharedOK /\ ChainOK /\ FilesOK /\ TasksOK /\ RunOK /\ SpentOK
  BY TypeParts
<1>1. UNCHANGED <<status, attempts, marker, size, rows, disk, remote, tasks, verify, chain, spent>>
  BY DEF Enter, itemVars, fileVars
<1>2. TasksOK'
  BY <1>0, <1>1 DEF Enter, TasksOK
<1>3. RunOK'
  <2>1. reader \in ItemType
    BY <1>0 DEF Enter, TasksOK
  <2>2. QED
    BY <2>1 DEF Enter, RunOK, RunType, RunPC
<1>4. SharedOK' /\ ChainOK' /\ FilesOK' /\ SpentOK'
  BY <1>0, <1>1 DEF SharedOK, ChainOK, FilesOK, SpentOK
<1>5. QED
  BY <1>1, <1>2, <1>3, <1>4, TypePartsNext DEF Interferes

LEMMA DiesStep ==
  ASSUME TypeOK, Dies
  PROVE  TypeOK' /\ Interferes /\ spent'.deaths # 0
<1>0. SharedOK /\ ChainOK /\ FilesOK /\ TasksOK /\ RunOK /\ SpentOK
  BY TypeParts
<1>1. UNCHANGED <<status, attempts, marker, size, rows, disk, remote, verify, reader, chain>>
  BY DEF Dies, itemVars, fileVars
<1>2. TasksOK'
  <2>1. tasks' \in [{"postprocess", "transfer"} -> 0..MaxTasks]
    BY <1>0, QueueType DEF Dies, TasksOK
  <2>2. QED
    BY <1>0, <1>1, <2>1 DEF TasksOK
<1>3. RunOK'
  BY DEF Dies, RunOK
<1>4. SpentOK' /\ spent'.deaths # 0
  BY <1>0 DEF Dies, Spend, SpentOK
<1>5. SharedOK' /\ ChainOK' /\ FilesOK'
  BY <1>0, <1>1 DEF SharedOK, ChainOK, FilesOK
<1>6. QED
  BY <1>1, <1>2, <1>3, <1>4, <1>5, TypePartsNext DEF Interferes

(* The file a run copies is one of its records.                              *)
InRecords ==
  Busy /\ run.pc \in {"open", "fetch", "fetched"} => run.file \in run.records

(* The steps of the run by what they write.                                  *)
CopyStep ==
  \/ List
  \/ \E f \in Files : Register(f) \/ Begin(f)
  \/ Open \/ Progress \/ Fetched \/ Copied \/ CopyFails
WalkStep == CopyEnds \/ NothingToExtract \/ NoPost \/ PostSucceeds \/ PostFails
SaveStep == NoRemoteDir \/ Registered \/ Extract \/ ExtractFails \/ Mark

LEMMA RunStepCases == RunStep => CopyStep \/ WalkStep \/ SaveStep
BY DEF RunStep, CopyStep, WalkStep, SaveStep

LEMMA CopyStepType ==
  ASSUME TypeOK, InRecords, CopyStep
  PROVE  TypeOK' /\ Interferes
<1>0. SharedOK /\ ChainOK /\ FilesOK /\ TasksOK /\ RunOK /\ SpentOK
  BY TypeParts
<1>1. /\ UNCHANGED <<status, attempts, marker, size, remote, tasks, verify, reader, chain>>
      /\ UNCHANGED spent \/ \E kind : Fault(kind)
      /\ \E pc \in RunPC : RunAt(pc)
  BY DEF CopyStep, List, Register, Begin, Open, Progress, Fetched, Copied, CopyFails,
         OtherwiseKept, itemVars, fileVars, taskVars, RunPC
<1>2. run \in RunType
  BY <1>0, <1>1, RunAtType
<1>3. SharedOK' /\ ChainOK' /\ TasksOK'
  BY <1>0, <1>1 DEF SharedOK, ChainOK, TasksOK
<1>4. SpentOK'
  BY <1>0, <1>1, FaultType
<1>5. FilesOK' /\ RunOK'
  <2>1. CASE List
    BY <1>0, <1>2, <2>1 DEF List, fileVars, FilesOK, RunOK, RunType, RunPC
  <2>2. ASSUME NEW f \in Files, Register(f) PROVE FilesOK' /\ RunOK'
    <3>1. FilesOK'
      BY <1>0, <1>1, <2>2 DEF Register, FilesOK
    <3>2. /\ run.todo \ {f} \in SUBSET Files /\ run.records \union {f} \in SUBSET Files
          /\ \/ run' = [run EXCEPT !.todo = run.todo \ {f}]
             \/ run' = [run EXCEPT !.todo = run.todo \ {f}, !.records = run.records \union {f}]
      BY <1>2, <2>2 DEF Register, RunType
    <3> DEFINE left == run.todo \ {f}
                more == run.records \union {f}
    <3>4. left \in SUBSET Files /\ more \in SUBSET Files
      BY <3>2
    <3>5. \/ run' = [run EXCEPT !.todo = left]
          \/ run' = [run EXCEPT !.todo = left, !.records = more]
      BY <3>2
    <3> HIDE DEF left, more
    <3>6. RunOK'
      BY <1>2, <3>4, <3>5 DEF RunOK, RunType
    <3>7. QED
      BY <3>1, <3>6
  <2>3. ASSUME NEW f \in Files, Begin(f) PROVE FilesOK' /\ RunOK'
    BY <1>0, <1>1, <1>2, <2>3 DEF Begin, SaveRow, FilesOK, RunOK, RunType, RunPC
  <2>4. ASSUME Open \/ Progress \/ Fetched \/ Copied \/ CopyFails PROVE run.file \in Files
    BY <1>2, <2>4 DEF Open, Progress, Fetched, Copied, CopyFails, InRecords, RunType, RunAt
  <2>5. CASE Open \/ Fetched
    <3>1. FilesOK'
      BY <1>0, <1>1, <2>4, <2>5 DEF Open, Fetched, FilesOK
    <3>2. RunOK'
      BY <1>2, <2>5, RunGotoType DEF Open, Fetched, RunPC
    <3>3. QED
      BY <3>1, <3>2
  <2>6. CASE Progress
    BY <1>0, <1>1, <2>4, <2>6 DEF Progress, SaveRow, FilesOK, RunOK
  <2>7. CASE Copied \/ CopyFails
    <3>1. FilesOK'
      BY <1>0, <1>1, <2>4, <2>7 DEF Copied, CopyFails, SaveRow, FilesOK
    <3> DEFINE left == run.records \ {run.file}
    <3>2. left \in SUBSET Files
      BY <1>2 DEF RunType
    <3>3. PICK copied \in BOOLEAN :
            run' = [run EXCEPT !.pc = "copy", !.records = left, !.file = "none", !.copied = copied]
      BY <1>2, <2>7 DEF Copied, CopyFails, NextFile, RunType
    <3> HIDE DEF left
    <3>4. RunOK'
      BY <1>2, <3>2, <3>3 DEF RunOK, RunType, RunPC
    <3>5. QED
      BY <3>1, <3>4
  <2>8. QED
    BY <2>1, <2>2, <2>3, <2>5, <2>6, <2>7 DEF CopyStep
<1>6. QED
  BY <1>1, <1>3, <1>4, <1>5, TypePartsNext DEF Interferes

LEMMA WalkStepType ==
  ASSUME TypeOK, WalkStep
  PROVE  TypeOK' /\ (Interferes \/ \E c \in Chains : Retry!Schedule(c))
<1>0. SharedOK /\ ChainOK /\ FilesOK /\ TasksOK /\ RunOK /\ SpentOK
  BY TypeParts
<1>1. /\ UNCHANGED <<status, attempts, marker, size, rows, disk, tasks, verify, reader>>
      /\ UNCHANGED spent \/ \E kind : Fault(kind)
      /\ \E pc \in RunPC : RunAt(pc)
      /\ UNCHANGED chain \/ \E c \in Chains : Retry!Schedule(c)
      /\ remote' \subseteq remote
  BY DEF WalkStep, CopyEnds, NothingToExtract, NoPost, PostSucceeds, PostFails, Retry!Schedule,
         itemVars, fileVars, taskVars, RunPC
<1>2. run \in RunType
  BY <1>0, <1>1, RunAtType
<1>3. SharedOK' /\ FilesOK' /\ TasksOK'
  BY <1>0, <1>1 DEF SharedOK, FilesOK, TasksOK
<1>4. SpentOK'
  BY <1>0, <1>1, FaultType
<1>5. ChainOK'
  <2>1. [stage |-> "waiting", attempt |-> 1] \in Retry!ChainType
    BY PipelineAssumption DEF Retry!ChainType, Retry!Stages
  <2>2. QED
    BY <1>0, <1>1, <2>1 DEF ChainOK, Retry!Schedule, Retry!Await
<1>6. RunOK'
  <2>1. (\E pc \in RunPC : RunGoto(pc)) \/ \E outcome \in {"ok", "failed", "refused"} : Posted(outcome)
    BY DEF WalkStep, CopyEnds, NothingToExtract, NoPost, PostSucceeds, PostFails, RunPC
  <2>2. QED
    BY <1>2, <2>1, RunGotoType DEF Posted, RunOK, RunType, RunPC
<1>7. QED
  BY <1>1, <1>3, <1>4, <1>5, <1>6, TypePartsNext DEF Interferes

LEMMA SaveStepType ==
  ASSUME TypeOK, SaveStep
  PROVE  TypeOK' /\ Interferes
<1>0. SharedOK /\ ChainOK /\ FilesOK /\ TasksOK /\ RunOK /\ SpentOK
  BY TypeParts
<1>1. /\ UNCHANGED <<rows, remote, tasks, verify, reader, chain>>
      /\ UNCHANGED spent \/ \E kind : Fault(kind)
      /\ \E pc \in RunPC : RunAt(pc)
  BY DEF SaveStep, NoRemoteDir, Registered, Extract, ExtractFails, Mark, fileVars, taskVars, RunPC
<1>2. run \in RunType /\ run.item \in ItemType
  BY <1>0, <1>1, RunAtType
<1>3. ChainOK' /\ TasksOK'
  BY <1>0, <1>1 DEF ChainOK, TasksOK
<1>4. SpentOK'
  BY <1>0, <1>1, FaultType
<1>5. FilesOK'
  <2>1. UNCHANGED disk \/ disk' = [f \in Files |-> IF f \in OnDisk("full") THEN "unpacked"
                                                                          ELSE disk[f]]
    BY DEF SaveStep, NoRemoteDir, Registered, Extract, ExtractFails, Mark, fileVars
  <2>2. QED
    BY <1>0, <1>1, <2>1 DEF FilesOK
<1>6. SharedOK' /\ marker' \in {marker, "stale", "other"}
  <2>1. run.item.status \in Retry!Statuses /\ [run.item EXCEPT !.size = run.total] \in ItemType
    BY <1>2 DEF ItemType, RunType
  <2>2. KeepItem \/ \E item \in ItemType, s \in Retry!Statuses : Save(item, s)
    BY <1>2, <2>1
    DEF SaveStep, NoRemoteDir, Registered, Extract, ExtractFails, Mark, Retry!Statuses
  <2>3. CASE KeepItem
    BY <1>0, <2>3 DEF KeepItem, itemVars, SharedOK
  <2>4. QED
    BY <1>0, <2>2, <2>3, SaveType
<1>7. RunOK'
  <2>1. CASE NoRemoteDir \/ Mark
    BY <2>1 DEF NoRemoteDir, Mark, RunOK
  <2>2. CASE Registered
    <3>1. [run.item EXCEPT !.size = run.total] \in ItemType
      BY <1>2 DEF ItemType, RunType
    <3>2. QED
      BY <1>2, <2>2, <3>1 DEF Registered, RunOK, RunType, RunPC
  <2>3. CASE Extract
    BY <1>2, <2>3, RunGotoType DEF Extract, RunPC
  <2>4. CASE ExtractFails
    <3>1. [run.item EXCEPT !.status = "Failed"] \in ItemType
      BY <1>2 DEF ItemType, Retry!Statuses
    <3>2. QED
      BY <1>2, <2>4, <3>1 DEF ExtractFails, RunOK, RunType, RunPC
  <2>5. QED
    BY <2>1, <2>2, <2>3, <2>4 DEF SaveStep
<1>8. QED
  BY <1>1, <1>3, <1>4, <1>5, <1>6, <1>7, TypePartsNext DEF Interferes
-----------------------------------------------------------------------------
(* Every step keeps the types; towards the retry chains it is one of their   *)
(* steps, an interference that RetryChain allows, or nothing.                *)
LEMMA StepType ==
  ASSUME TypeOK, InRecords, [Next]_vars
  PROVE  TypeOK' /\ (Interferes \/ Retry!Next)
<1>1. CASE UNCHANGED vars
  BY <1>1 DEF vars, itemVars, fileVars, taskVars, TypeOK, Retry!TypeOK, Interferes
<1>2. CASE BeforeRun
  BY <1>2, BeforeRunStep
<1>3. CASE Enter \/ Dies
  BY <1>3, EnterStep, DiesStep
<1>4. CASE RunStep
  <2>1. TypeOK' /\ (Interferes \/ \E c \in Chains : Retry!Schedule(c))
    BY <1>4, RunStepCases, CopyStepType, WalkStepType, SaveStepType
  <2>2. QED
    BY <2>1 DEF Retry!Next
<1>5. CASE Tick \/ UserStep \/ CooldownElapses
  BY <1>5, TickStep, UserStepByOthers, CooldownByOthers
<1>6. CASE \E c \in Chains : RetryStep(c)
  BY <1>6, RetryStepByOthers
<1>7. QED
  BY <1>1, <1>2, <1>3, <1>4, <1>5, <1>6 DEF Next, BeforeRun

(* What is not a step of the run is one of the others', the start of a run   *)
(* or its death.                                                             *)
LEMMA StepCases ==
  ASSUME TypeOK, [Next]_vars
  PROVE  ByOthers \/ Enter \/ Dies \/ CopyStep \/ WalkStep \/ SaveStep
<1>1. CASE UNCHANGED vars
  BY <1>1 DEF vars, fileVars, ByOthers
<1>2. CASE BeforeRun \/ Tick \/ UserStep \/ CooldownElapses
  BY <1>2, BeforeRunStep, TickStep, UserStepByOthers, CooldownByOthers
<1>3. CASE \E c \in Chains : RetryStep(c)
  BY <1>3, RetryStepByOthers
<1>4. QED
  BY <1>1, <1>2, <1>3, RunStepCases DEF Next, BeforeRun
-----------------------------------------------------------------------------
(* Why the files are safe.  A row is completed only from a copy that was     *)
(* fetched whole, and the copy of a file is truncated only by the run that   *)
(* has marked its row as transferring; the run works on files that are still *)
(* on the seedbox, since nothing is deleted there before its own             *)
(* post-processing; and outside the copy phase it owes no file anything.     *)
RunIn(pcs) == Busy /\ run.pc \in pcs

RowsInv ==
  /\ CompletedRowIsLocal
  /\ RunIn({"open", "fetch"}) => rows[run.file] # "completed"
  /\ RunIn({"fetched"}) => disk[run.file] = "full"
RemoteInv ==
  /\ NothingLost
  /\ RunIn({"register", "copy", "open", "fetch", "fetched"}) =>
       run.todo \subseteq remote /\ run.records \subseteq remote
OwnerInv ==
  /\ InFlightHasOwner
  /\ RunIn({"list", "extract", "post", "mark"}) => run.records = {}
FileInv == InRecords /\ RowsInv /\ RemoteInv /\ OwnerInv

LEMMA ByOthersFiles ==
  ASSUME TypeOK, FileInv, ByOthers
  PROVE  FileInv'
<1> USE DEF FileInv, ByOthers
<1>0. RunIn({"open", "fetch"}) /\ run.file \in run.records => run.file \in Files
  BY TypeParts DEF RunOK, RunType, RunIn, Busy
<1>1. InRecords'
  BY DEF InRecords, Busy
<1>2. RowsInv'
  BY <1>0 DEF RowsInv, CompletedRowIsLocal, Completed, Local, RunIn, Busy, InRecords
<1>3. RemoteInv'
  BY DEF RemoteInv, NothingLost, Local, RunIn, Busy
<1>4. OwnerInv'
  BY DEF OwnerInv, InFlightHasOwner, RunIn, Busy
<1>5. QED
  BY <1>1, <1>2, <1>3, <1>4

LEMMA EnterFiles ==
  ASSUME TypeOK, FileInv, Enter
  PROVE  FileInv'
<1>1. UNCHANGED <<rows, disk, remote, spent>> /\ ~Busy
      /\ run'.pc = "list" /\ run'.records = {}
  BY DEF Enter, fileVars
<1>2. QED
  BY <1>1 DEF FileInv, InRecords, RowsInv, RemoteInv, OwnerInv, CompletedRowIsLocal, Completed,
              Local, NothingLost, InFlightHasOwner, RunIn, Busy

LEMMA DiesFiles ==
  ASSUME TypeOK, FileInv, Dies
  PROVE  FileInv'
<1>1. UNCHANGED <<rows, disk, remote>> /\ run' = Idle /\ spent'.deaths # 0
  BY DiesStep DEF Dies, fileVars
<1>2. QED
  BY <1>1 DEF FileInv, InRecords, RowsInv, RemoteInv, OwnerInv, CompletedRowIsLocal, Completed,
              Local, NothingLost, InFlightHasOwner, RunIn, Busy

(* Deleting on the seedbox comes after the copy phase, and only takes files  *)
(* whose row is completed.                                                   *)
LEMMA WalkStepFiles ==
  ASSUME TypeOK, FileInv, WalkStep
  PROVE  FileInv'
<1>0. run \in RunType /\ FilesOK /\ SpentOK
  <2>1. \E pc \in RunPC : RunAt(pc)
    BY DEF WalkStep, CopyEnds, NothingToExtract, NoPost, PostSucceeds, PostFails, RunPC
  <2>2. QED
    BY <2>1, TypeParts, RunAtType
<1>1. /\ UNCHANGED <<rows, disk>>
      /\ run.records = {} /\ run'.records = {} /\ run'.pc \in {"extract", "post", "mark"}
  BY <1>0 DEF WalkStep, CopyEnds, NothingToExtract, NoPost, PostSucceeds, PostFails, Posted,
              RunGoto, RunAt, RunIn, Busy, FileInv, OwnerInv, RunType, fileVars
<1>2. spent'.deaths = 0 => spent.deaths = 0
  <2>1. UNCHANGED spent \/ \E kind : Fault(kind)
    BY DEF WalkStep, CopyEnds, NothingToExtract, NoPost, PostSucceeds, PostFails
  <2>2. QED
    BY <1>0, <2>1, FaultType
<1>3. NothingLost'
  <2>1. UNCHANGED remote \/ \E f \in Completed : remote' = remote \ {f}
    BY DEF WalkStep, CopyEnds, NothingToExtract, NoPost, PostSucceeds, PostFails, fileVars
  <2>2. QED
    BY <1>1, <2>1 DEF FileInv, RowsInv, CompletedRowIsLocal, RemoteInv, NothingLost, Local
<1>4. QED
  BY <1>1, <1>2, <1>3
  DEF FileInv, InRecords, RowsInv, RemoteInv, OwnerInv, CompletedRowIsLocal, Completed, Local,
      InFlightHasOwner, RunIn, Busy

(* The saves of the item do not touch the files; unpacking keeps what is     *)
(* local local.                                                              *)
LEMMA SaveStepFiles ==
  ASSUME TypeOK, FileInv, SaveStep
  PROVE  FileInv'
<1>0. run \in RunType /\ FilesOK /\ SpentOK
  <2>1. \E pc \in RunPC : RunAt(pc)
    BY DEF SaveStep, NoRemoteDir, Registered, Extract, ExtractFails, Mark, RunPC
  <2>2. QED
    BY <2>1, TypeParts, RunAtType
<1>1. spent'.deaths = 0 => spent.deaths = 0
  <2>1. UNCHANGED spent \/ \E kind : Fault(kind)
    BY DEF SaveStep, NoRemoteDir, Registered, Extract, ExtractFails, Mark
  <2>2. QED
    BY <1>0, <2>1, FaultType
<1>2. UNCHANGED <<rows, remote>> /\ Local' = Local
  <2>1. UNCHANGED disk \/ disk' = [f \in Files |-> IF f \in OnDisk("full") THEN "unpacked"
                                                                          ELSE disk[f]]
    BY DEF SaveStep, NoRemoteDir, Registered, Extract, ExtractFails, Mark, fileVars
  <2>2. Local' = Local
    BY <1>0, <2>1 DEF Local, OnDisk, FilesOK
  <2>3. QED
    BY <2>2 DEF SaveStep, NoRemoteDir, Registered, Extract, ExtractFails, Mark, fileVars
<1>3. CASE NoRemoteDir \/ Mark
  <2>1. run' = Idle /\ run.records = {}
    BY <1>3 DEF NoRemoteDir, Mark, FileInv, OwnerInv, RunIn, RunAt
  <2>2. QED
    BY <1>1, <1>2, <2>1
    DEF FileInv, InRecords, RowsInv, RemoteInv, OwnerInv, CompletedRowIsLocal, Completed,
        NothingLost, InFlightHasOwner, RunIn, Busy
<1>4. CASE Registered
  <2>1. /\ run'.pc = "copy" /\ run'.records = run.records /\ run'.todo = run.todo
        /\ run # Idle /\ run.pc = "register" /\ run' # Idle
    BY <1>0, <1>4 DEF Registered, RunAt, Busy, RunType, Idle
  <2>2. QED
    BY <1>1, <1>2, <2>1
    DEF FileInv, InRecords, RowsInv, RemoteInv, OwnerInv, CompletedRowIsLocal, Completed,
        NothingLost, InFlightHasOwner, RunIn, Busy
<1>5. CASE Extract \/ ExtractFails
  <2>1. run.records = {} /\ run'.records = {} /\ run'.pc = "post"
    BY <1>0, <1>5 DEF Extract, ExtractFails, RunGoto, FileInv, OwnerInv, RunIn, RunAt, RunType
  <2>2. QED
    BY <1>1, <1>2, <2>1
    DEF FileInv, InRecords, RowsInv, RemoteInv, OwnerInv, CompletedRowIsLocal, Completed,
        NothingLost, InFlightHasOwner, RunIn, Busy
<1>6. QED
  BY <1>3, <1>4, <1>5 DEF SaveStep

(* The copy phase, file by file.  Every step of it writes one row and one    *)
(* copy at most, those of f.                                                 *)
LEMMA CopyStepFiles ==
  ASSUME TypeOK, FileInv, CopyStep
  PROVE  FileInv'
<1>0. run \in RunType /\ FilesOK /\ SpentOK
  <2>1. \E pc \in RunPC : RunAt(pc)
    BY DEF CopyStep, List, Register, Begin, Open, Progress, Fetched, Copied, CopyFails, RunPC
  <2>2. QED
    BY <2>1, TypeParts, RunAtType
<1>1. remote' = remote /\ (spent'.deaths = 0 => spent.deaths = 0)
  <2>1. remote' = remote /\ (UNCHANGED spent \/ \E kind : Fault(kind))
    BY DEF CopyStep, List, Register, Begin, Open, Progress, Fetched, Copied, CopyFails,
           OtherwiseKept, fileVars
  <2>2. QED
    BY <1>0, <2>1, FaultType
<1> USE DEF FileInv, InRecords, RowsInv, RemoteInv, OwnerInv, CompletedRowIsLocal, Completed,
        NothingLost, Local, InFlightHasOwner, RunIn, Busy
<1>2. CASE List
  BY <1>0, <1>1, <1>2 DEF List, RunAt, RunType, fileVars
<1>3. ASSUME NEW f \in Files, Register(f) PROVE FileInv'
  <2>1. run.pc = "register" /\ run # Idle /\ f \in run.todo
    BY <1>3 DEF Register, RunAt
  <2>2. CASE /\ rows[f] \in {"pending", "transferring"} /\ UNCHANGED <<rows, disk>>
             /\ run' = [run EXCEPT !.todo = @ \ {f}]
    <3>1. run'.pc = "register" /\ run'.records = run.records /\ run'.todo \subseteq run.todo
      BY <1>0, <2>1, <2>2 DEF RunType
    <3>2. run' # Idle
      BY <1>0, <2>2 DEF RunType, Idle
    <3>3. QED
      BY <1>1, <2>1, <2>2, <3>1, <3>2
  <2>3. CASE rows[f] \notin {"pending", "transferring"}
    <3>1. /\ \A g \in Files \ {f} : rows'[g] = rows[g] /\ disk'[g] = disk[g]
          /\ rows'[f] = "completed" => disk'[f] \in {"full", "unpacked"}
          /\ disk[f] \in {"full", "unpacked"} => disk'[f] = disk[f]
      BY <1>0, <1>3, <2>3 DEF Register, FilesOK
    <3>2. run' = [run EXCEPT !.todo = @ \ {f}, !.records = @ \union {f}]
      BY <1>3, <2>3 DEF Register
    <3>3. /\ run'.pc = "register" /\ run'.records = run.records \union {f}
          /\ run'.todo \subseteq run.todo
      BY <1>0, <2>1, <3>2 DEF RunType
    <3>4. run' # Idle
      BY <1>0, <3>2 DEF RunType, Idle
    <3>5. QED
      BY <1>1, <2>1, <3>1, <3>3, <3>4
  <2>4. QED
    BY <1>3, <2>2, <2>3 DEF Register
<1>4. ASSUME NEW f \in Files, Begin(f) PROVE FileInv'
  <2>1. /\ run.pc = "copy" /\ run'.pc = "open" /\ run'.file = f /\ f \in run.records
        /\ run'.todo = run.todo /\ run'.records = run.records /\ disk' = disk
    BY <1>0, <1>4 DEF Begin, RunAt, RunType
  <2>2. rows'[f] = "transferring" /\ \A g \in Files \ {f} : rows'[g] = rows[g]
    BY <1>0, <1>4 DEF Begin, SaveRow, FilesOK
  <2>3. run # Idle /\ run' # Idle
    BY <1>4, <2>1 DEF Begin, RunAt, Idle
  <2>4. QED
    BY <1>1, <2>1, <2>2, <2>3
<1>5. CASE Open \/ Progress \/ Fetched \/ Copied \/ CopyFails
  <2>1. /\ run # Idle /\ run.pc \in {"open", "fetch", "fetched"}
        /\ run.file \in run.records /\ run.file \in Files /\ run.file \in remote
    BY <1>0, <1>5 DEF Open, Progress, Fetched, Copied, CopyFails, RunAt, RunType
  <2>2. CASE Open
    <3>1. /\ rows' = rows /\ run'.pc = "fetch" /\ run'.file = run.file
          /\ run'.todo = run.todo /\ run'.records = run.records /\ run' # Idle
          /\ \A g \in Files \ {run.file} : disk'[g] = disk[g]
          /\ rows[run.file] # "completed"
      BY <1>0, <2>1, <2>2 DEF Open, RunAt, RunGoto, RunType, FilesOK, Idle
    <3>2. QED
      BY <1>1, <2>1, <3>1
  <2>3. CASE Progress
    <3>1. run' = run /\ disk' = disk /\ rows'[run.file] = "transferring"
          /\ \A g \in Files \ {run.file} : rows'[g] = rows[g]
      BY <1>0, <2>1, <2>3 DEF Progress, SaveRow, FilesOK
    <3>2. QED
      BY <1>1, <2>1, <3>1
  <2>4. CASE Fetched
    <3>1. /\ rows' = rows /\ run'.pc = "fetched" /\ run'.file = run.file
          /\ run'.todo = run.todo /\ run'.records = run.records /\ run' # Idle
          /\ disk'[run.file] = "full" /\ \A g \in Files \ {run.file} : disk'[g] = disk[g]
      BY <1>0, <2>1, <2>4 DEF Fetched, RunAt, RunGoto, RunType, FilesOK, Idle
    <3>2. QED
      BY <1>1, <2>1, <3>1
  <2>5. ASSUME Copied \/ CopyFails
        PROVE  /\ run'.pc = "copy" /\ run'.todo = run.todo
               /\ run'.records = run.records \ {run.file}
               /\ disk' = disk /\ rows'[run.file] \in {"completed", "failed"}
               /\ rows'[run.file] = "completed" => disk[run.file] = "full"
               /\ \A g \in Files \ {run.file} : rows'[g] = rows[g]
    <3>1. \E copied \in BOOLEAN : NextFile(copied)
      BY <2>5 DEF Copied, CopyFails
    <3>2. run'.pc = "copy" /\ run'.todo = run.todo /\ run'.records = run.records \ {run.file}
      BY <1>0, <3>1 DEF NextFile, RunType
    <3>3. QED
      BY <1>0, <2>1, <2>5, <3>2 DEF Copied, CopyFails, SaveRow, RunAt, FilesOK
  <2>6. CASE Copied \/ CopyFails
    BY <1>1, <2>1, <2>5, <2>6 DEF Idle
  <2>7. QED
    BY <1>5, <2>2, <2>3, <2>4, <2>6
<1>6. QED
  BY <1>2, <1>3, <1>4, <1>5 DEF CopyStep
-----------------------------------------------------------------------------
(* Where the recovery tick finds every item that is left behind.  Each       *)
(* exclusion has a way to strand an item.  A dispatch that is lost ("queue", *)
(* "locked") leaves nothing to find; a death outside the copy of a file may  *)
(* leave no row, and one during it leaves a row that a stall ("slow") or the *)
(* user may have given to a transfer that was refused.  An item that failed  *)
(* while a transfer had read it, or that Bindery refused, is not marked at   *)
(* the end of the run, and a postprocess_item that read it as Grabbed may    *)
(* have set it back to PostProcessing by then.                               *)
RecoverySees ==
  /\ Faults \subseteq {"list_partly", "copy", "slow", "post"}
  /\ DiesIn \subseteq {"open", "fetch", "fetched"}
  /\ Actions \subseteq {"complete", "requeue", "retransfer"}
  /\ DiesIn # {} => "slow" \notin Faults /\ Actions \subseteq {"complete"}
  /\ Archives = {} /\ Chains = {} /\ "Bindery" \notin Managers

(* A run that has the semaphore ends by Completed, or dies and leaves the    *)
(* row of the file it was at.                                                *)
RunsComplete ==
  /\ status # "Failed"
  /\ reader # Nobody => reader.status # "Failed"
  /\ Busy => run.item.status # "Failed" /\ run.post # "refused"
DeathLeavesRow ==
  DiesIn # {} /\ RunIn({"open", "fetch", "fetched"}) => rows[run.file] = "transferring"
StrandInv == RunsComplete /\ DeathLeavesRow /\ NeverStranded

(* What is queued for a task is there, and leaves the other kind alone.      *)
LEMMA QueueKind ==
  ASSUME TasksOK, NEW kind \in {"postprocess", "transfer"}
  PROVE  /\ Queue(kind) => tasks'[kind] # 0
         /\ Queue("postprocess") \/ Dequeue("postprocess") => tasks'.transfer = tasks.transfer
BY PipelineAssumption DEF TasksOK, Queue, Dequeue

LEMMA BeforeRunStrand ==
  ASSUME TypeOK, RecoverySees, StrandInv, BeforeRun
  PROVE  StrandInv'
<1> USE DEF StrandInv, RunsComplete, DeathLeavesRow, NeverStranded, Quiet, Unfinished, RunIn, Busy
<1>0. SharedOK /\ TasksOK
  BY TypeParts
<1>1. UNCHANGED <<rows, run>>
  BY DEF BeforeRun, CheckDownloaders, PostprocessStep, ReadGrabbed, StartPostProcessing,
         QueueingFails, VerificationFails, ReadItem, Refused, fileVars
<1>2. ASSUME CheckDownloaders \/ \E p \in Verifiers : ReadGrabbed(p) PROVE StrandInv'
  <2>1. UNCHANGED <<status, reader>> /\ tasks'.transfer = tasks.transfer
    BY <1>0, <1>2, QueueKind DEF CheckDownloaders, ReadGrabbed, itemVars
  <2>2. QED
    BY <1>1, <2>1
<1>3. ASSUME NEW p \in Verifiers, StartPostProcessing(p) PROVE StrandInv'
  <2>1. status' = "PostProcessing" /\ reader' = reader /\ tasks'.transfer # 0
    BY <1>0, <1>3, QueueKind DEF StartPostProcessing, Save
  <2>2. QED
    BY <1>1, <2>1
<1>4. ~ \E p \in Verifiers : QueueingFails(p) \/ VerificationFails(p)
  BY DEF RecoverySees, QueueingFails, VerificationFails, Fault
<1>5. CASE ReadItem
  <2>1. status' = status /\ reader' = Item /\ reader'.status = status /\ reader' # Nobody
    BY <1>0, <1>5 DEF ReadItem, itemVars, Item, Nobody, SharedOK, Retry!Statuses
  <2>2. QED
    BY <1>1, <2>1
<1>6. CASE Refused
  BY <1>1, <1>6 DEF Refused, itemVars
<1>7. QED
  BY <1>2, <1>3, <1>4, <1>5, <1>6 DEF BeforeRun, PostprocessStep

LEMMA EnterStrand ==
  ASSUME TypeOK, RecoverySees, StrandInv, Enter
  PROVE  StrandInv'
<1>1. /\ run'.pc = "list" /\ run'.item = reader /\ run'.post = "none" /\ run' # Idle
      /\ reader # Nobody /\ reader' = Nobody /\ status' = status
  BY DEF Enter, Idle, itemVars
<1>2. QED
  BY <1>1 DEF StrandInv, RunsComplete, DeathLeavesRow, NeverStranded, Quiet, RunIn, Busy

(* The one step that leaves nobody at work: the row of the file in flight is *)
(* what the recovery will find.                                              *)
LEMMA DiesStrand ==
  ASSUME TypeOK, InRecords, RecoverySees, StrandInv, Dies
  PROVE  StrandInv'
<1>1. UNCHANGED <<status, reader, rows>> /\ run' = Idle
  BY DEF Dies, itemVars, fileVars
<1>2. run.pc \in {"open", "fetch", "fetched"} /\ DiesIn # {} /\ Busy
  BY DEF Dies, RecoverySees
<1>3. run.file \in Files /\ rows[run.file] = "transferring"
  BY <1>2, TypeParts DEF StrandInv, DeathLeavesRow, RunIn, InRecords, RunOK, RunType, Busy
<1>4. Unfinished' # {}
  BY <1>1, <1>3 DEF Unfinished
<1>5. QED
  BY <1>1, <1>4 DEF StrandInv, RunsComplete, DeathLeavesRow, NeverStranded, RunIn, Busy

LEMMA TickStrand ==
  ASSUME TypeOK, InRecords, RecoverySees, StrandInv, Tick
  PROVE  StrandInv'
<1> USE DEF StrandInv, RunsComplete, DeathLeavesRow, NeverStranded, Quiet, Unfinished, RunIn, Busy
<1>0. FilesOK /\ TasksOK /\ UNCHANGED <<run, reader>>
  BY TypeParts DEF Tick, Reopen, Stall, Recover, DownloaderFails, taskVars
<1>1. CASE Reopen
  BY <1>0, <1>1 DEF Reopen, Save, fileVars
<1>2. ASSUME NEW f \in Files, Stall(f) PROVE StrandInv'
  <2>1. /\ status' = status /\ rows'[f] = "failed"
        /\ \A g \in Files \ {f} : rows'[g] = rows[g]
    BY <1>0, <1>2 DEF Stall, SaveRow, FilesOK, itemVars
  <2>2. DiesIn # {} /\ Busy => run.file # f
    BY <1>2 DEF Stall, Fault, RecoverySees
  <2>3. DeathLeavesRow'
    BY <1>0, <1>2, <2>2 DEF Stall, SaveRow, FilesOK
  <2>4. QED
    BY <1>0, <2>1, <2>3
<1>3. CASE Recover
  <2>1. status' = status /\ tasks'.transfer # 0
    BY <1>0, <1>3, QueueKind DEF Recover, Fault, RecoverySees
  <2>2. \A f \in DOMAIN rows : rows[f] = "transferring" => rows'[f] = "transferring"
    BY <1>0, <1>3 DEF Recover, FilesOK
  <2>3. DOMAIN rows = Files
    BY <1>0 DEF FilesOK
  <2>4. DeathLeavesRow'
    <3>1. CASE RunIn({"open", "fetch", "fetched"})
      BY <1>0, <2>2, <2>3, <3>1, TypeParts DEF InRecords, RunOK, RunType
    <3>2. QED
      BY <1>0, <3>1
  <2>5. QED
    BY <1>0, <2>1, <2>4
<1>4. ~DownloaderFails
  BY DEF DownloaderFails, Fault, RecoverySees
<1>5. QED
  BY <1>1, <1>2, <1>3, <1>4 DEF Tick

LEMMA UserStepStrand ==
  ASSUME TypeOK, RecoverySees, StrandInv, UserStep
  PROVE  StrandInv'
<1> USE DEF StrandInv, RunsComplete, DeathLeavesRow, NeverStranded, Quiet, Unfinished, RunIn, Busy
<1>0. TasksOK
  BY TypeParts
<1>1. CASE Decide
  BY <1>1 DEF Decide, User, RecoverySees, Save, fileVars, taskVars
<1>2. CASE Requeue
  BY <1>2 DEF Requeue, User, RecoverySees, taskVars
<1>3. CASE Retransfer
  <2>1. tasks'.transfer # 0
    BY <1>0, <1>3, QueueKind DEF Retransfer
  <2>2. QED
    BY <1>3, <2>1 DEF Retransfer, User, RecoverySees, itemVars
<1>4. QED
  BY <1>1, <1>2, <1>3
  DEF UserStep, CancelTransfer, RetryFailed, SetStatus, User, RecoverySees

LEMMA CopyStepStrand ==
  ASSUME TypeOK, InRecords, RecoverySees, StrandInv, CopyStep
  PROVE  StrandInv'
<1>0. run \in RunType /\ run # Idle /\ FilesOK
  <2>1. \E pc \in RunPC : RunAt(pc)
    BY DEF CopyStep, List, Register, Begin, Open, Progress, Fetched, Copied, CopyFails, RunPC
  <2>2. QED
    BY <2>1, TypeParts, RunAtType DEF RunAt, Busy
<1>1. UNCHANGED <<status, reader>>
  BY DEF CopyStep, List, Register, Begin, Open, Progress, Fetched, Copied, CopyFails,
         OtherwiseKept, itemVars, taskVars
<1>2. run' # Idle /\ run'.item = run.item /\ run'.post = run.post
  <2>1. CASE List \/ \E f \in Files : Register(f) \/ Begin(f)
    BY <1>0, <2>1 DEF List, Register, Begin, RunType, Idle
  <2>2. CASE Open \/ Fetched
    BY <1>0, <2>2 DEF Open, Fetched, RunGoto, RunType, Idle
  <2>3. CASE Progress
    BY <1>0, <2>3 DEF Progress
  <2>4. CASE Copied \/ CopyFails
    BY <1>0, <2>4 DEF Copied, CopyFails, NextFile, RunType, Idle
  <2>5. QED
    BY <2>1, <2>2, <2>3, <2>4 DEF CopyStep
<1>3. DeathLeavesRow'
  <2> USE DEF DeathLeavesRow, RunIn, Busy
  <2>1. CASE List \/ \E f \in Files : Register(f)
    <3>1. run'.pc = "register"
      BY <1>0, <2>1 DEF List, Register, RunAt, RunType
    <3>2. QED
      BY <3>1
  <2>2. ASSUME NEW f \in Files, Begin(f) PROVE DeathLeavesRow'
    <3>1. run'.file = f /\ rows'[f] = "transferring"
      BY <1>0, <2>2 DEF Begin, SaveRow, RunType, FilesOK
    <3>2. QED
      BY <3>1
  <2>3. CASE Open \/ Fetched
    <3>1. run'.file = run.file /\ rows' = rows /\ run.pc \in {"open", "fetch"}
      BY <1>0, <2>3 DEF Open, Fetched, RunAt, RunGoto, RunType
    <3>2. QED
      BY <1>0, <3>1 DEF StrandInv
  <2>4. CASE Progress
    <3>1. run.file \in Files
      BY <1>0, <2>4 DEF Progress, RunAt, InRecords, RunType
    <3>2. rows'[run.file] = "transferring" /\ run' = run
      BY <1>0, <2>4, <3>1 DEF Progress, SaveRow, FilesOK
    <3>3. QED
      BY <3>2
  <2>5. CASE Copied \/ CopyFails
    <3>1. run'.pc = "copy"
      BY <1>0, <2>5 DEF Copied, CopyFails, NextFile, RunType
    <3>2. QED
      BY <3>1
  <2>6. QED
    BY <2>1, <2>2, <2>3, <2>4, <2>5 DEF CopyStep
<1>4. QED
  BY <1>0, <1>1, <1>2, <1>3 DEF StrandInv, RunsComplete, NeverStranded, Quiet, Busy

LEMMA WalkStepStrand ==
  ASSUME TypeOK, RecoverySees, StrandInv, WalkStep
  PROVE  StrandInv'
<1>0. run \in RunType /\ run # Idle
  <2>1. \E pc \in RunPC : RunAt(pc)
    BY DEF WalkStep, CopyEnds, NothingToExtract, NoPost, PostSucceeds, PostFails, RunPC
  <2>2. QED
    BY <2>1, TypeParts, RunAtType DEF RunAt, Busy
<1>1. UNCHANGED <<status, reader>>
  BY DEF WalkStep, CopyEnds, NothingToExtract, NoPost, PostSucceeds, PostFails,
         Retry!Schedule, itemVars, taskVars
<1>2. \/ \E pc \in {"extract", "post", "mark"} : RunGoto(pc)
      \/ \E outcome \in {"ok", "failed"} : Posted(outcome)
  BY DEF WalkStep, CopyEnds, NothingToExtract, NoPost, PostSucceeds, PostFails, RecoverySees
<1>3. /\ run' # Idle /\ run'.item = run.item /\ run'.pc \in {"extract", "post", "mark"}
      /\ run'.post \in {run.post, "ok", "failed"}
  BY <1>0, <1>2 DEF RunGoto, Posted, RunType, Idle
<1>4. QED
  BY <1>0, <1>1, <1>3
  DEF StrandInv, RunsComplete, DeathLeavesRow, NeverStranded, Quiet, RunIn, Busy

LEMMA SaveStepStrand ==
  ASSUME TypeOK, RecoverySees, StrandInv, SaveStep
  PROVE  StrandInv'
<1> USE DEF StrandInv, RunsComplete, DeathLeavesRow, NeverStranded, Quiet, RunIn, Busy
<1>0. run \in RunType /\ run.item \in ItemType /\ run # Idle /\ reader' = reader
  <2>1. (\E pc \in RunPC : RunAt(pc)) /\ reader' = reader
    BY DEF SaveStep, NoRemoteDir, Registered, Extract, ExtractFails, Mark, taskVars, RunPC
  <2>2. QED
    BY <2>1, TypeParts, RunAtType DEF RunAt
<1>1. ~NoRemoteDir /\ ~ExtractFails
  BY DEF NoRemoteDir, ExtractFails, Extracts, OnDisk, Fault, RecoverySees
<1>2. CASE Registered
  <2>1. run'.pc = "copy" /\ run' # Idle /\ run'.item.status = run.item.status /\ run'.post = run.post
    <3>1. CASE run' = [run EXCEPT !.pc = "copy", !.item.size = run.total, !.total = {}]
      <4>1. [run.item EXCEPT !.size = run.total].status = run.item.status
        BY <1>0 DEF ItemType
      <4>2. run' # Idle
        BY <1>0, <3>1 DEF RunType, Idle
      <4>3. run'.pc = "copy" /\ run'.post = run.post
        BY <1>0, <3>1 DEF RunType
      <4>4. run'.item = [run.item EXCEPT !.size = run.total]
        BY <1>0, <3>1 DEF RunType
      <4>5. QED
        BY <4>1, <4>2, <4>3, <4>4
    <3>2. CASE run' = [run EXCEPT !.pc = "copy", !.total = {}]
      BY <1>0, <3>2 DEF RunType, Idle
    <3>3. QED
      BY <1>2, <3>1, <3>2 DEF Registered
  <2>2. status' \in {status, run.item.status}
    BY <1>2 DEF Registered, Save, KeepItem, itemVars
  <2>3. QED
    BY <1>0, <2>1, <2>2
<1>3. CASE Extract
  <2>1. run'.pc = "post" /\ run' # Idle /\ run'.item = run.item /\ run'.post = run.post
    BY <1>0, <1>3 DEF Extract, RunGoto, RunType, Idle
  <2>2. status' = run.item.status
    BY <1>3 DEF Extract, Save
  <2>3. QED
    BY <1>0, <2>1, <2>2
<1>4. CASE Mark
  BY <1>0, <1>4 DEF Mark, Save
<1>5. QED
  BY <1>1, <1>2, <1>3, <1>4 DEF SaveStep

LEMMA StepStrand ==
  ASSUME TypeOK, InRecords, RecoverySees, StrandInv, [Next]_vars
  PROVE  StrandInv'
<1>1. CASE UNCHANGED vars \/ CooldownElapses
  BY <1>1
  DEF vars, itemVars, fileVars, taskVars, CooldownElapses, Retry!CooldownElapses, StrandInv,
      RunsComplete, DeathLeavesRow, NeverStranded, Quiet, Unfinished, RunIn, Busy
<1>2. CASE \E c \in Chains : RetryStep(c)
  BY <1>2 DEF RecoverySees
<1>3. CASE RunStep
  BY <1>3, RunStepCases, CopyStepStrand, WalkStepStrand, SaveStepStrand
<1>4. QED
  BY <1>1, <1>2, <1>3, BeforeRunStrand, EnterStrand, DiesStrand, TickStrand, UserStepStrand
  DEF Next, BeforeRun

-----------------------------------------------------------------------------
LEMMA Start == Init => TypeOK /\ FileInv
<1> SUFFICES ASSUME Init PROVE TypeOK /\ FileInv
  OBVIOUS
<1>1. SharedOK /\ ChainOK
  BY PipelineAssumption DEF Init, Retry!Init, Retry!Statuses, SharedOK, ChainOK,
     Retry!ChainType, Retry!None
<1>2. FilesOK /\ TasksOK /\ RunOK /\ SpentOK
  BY PipelineAssumption DEF Init, FilesOK, TasksOK, RunOK, SpentOK
<1>3. FileInv
  BY DEF Init, FileInv, InRecords, RowsInv, RemoteInv, OwnerInv, CompletedRowIsLocal,
     Completed, NothingLost, Local, InFlightHasOwner, RunIn, Busy
<1>4. QED
  BY <1>1, <1>2, <1>3, TypeParts

LEMMA Step == TypeOK /\ FileInv /\ [Next]_vars => (TypeOK /\ FileInv)'
<1> SUFFICES ASSUME TypeOK, FileInv, [Next]_vars PROVE TypeOK' /\ FileInv'
  OBVIOUS
<1>1. InRecords
  BY DEF FileInv
<1>2. TypeOK'
  BY <1>1, StepType
<1>3. FileInv'
  BY StepCases, ByOthersFiles, EnterFiles, DiesFiles, CopyStepFiles, WalkStepFiles,
     SaveStepFiles
<1>4. QED
  BY <1>2, <1>3

LEMMA Invariant == Spec => [](TypeOK /\ FileInv)
BY Start, Step, PTL DEF Spec

(* Whatever stale row a task saves, the item, the files and the queue keep   *)
(* their types; the counter of attempts stays within the cap.                *)
THEOREM TypeCorrect == Spec => []TypeOK
BY Invariant, PTL

(* A completed row is never left over a file that is missing or truncated.   *)
THEOREM CompletedRowsAreLocal == Spec => []CompletedRowIsLocal
<1>1. FileInv => CompletedRowIsLocal
  BY DEF FileInv, RowsInv
<1>2. QED
  BY <1>1, Invariant, PTL

(* No file is gone from the seedbox and not here.                            *)
THEOREM NoFileIsLost == Spec => []NothingLost
<1>1. FileInv => NothingLost
  BY DEF FileInv, RemoteInv
<1>2. QED
  BY <1>1, Invariant, PTL

(* Without a death no row stays pending or transferring behind its run.      *)
THEOREM NoOrphanRows == Spec => []InFlightHasOwner
<1>1. FileInv => InFlightHasOwner
  BY DEF FileInv, OwnerInv
<1>2. QED
  BY <1>1, Invariant, PTL

(* With copies and post-processings that fail, lists that are incomplete and *)
(* workers that die while they copy, an item in PostProcessing always has a  *)
(* transfer that is queued or at work, or a row by which                     *)
(* check_stalled_transfers finds it; overlapping postprocess_item tasks and  *)
(* refused transfers never lose both.                                        *)
THEOREM RecoveryReachesItem == ASSUME RecoverySees PROVE Spec => []NeverStranded
<1>1. Init => StrandInv
  BY DEF Init, StrandInv, RunsComplete, DeathLeavesRow, NeverStranded, RunIn, Busy
<1>2. TypeOK /\ FileInv /\ StrandInv /\ [Next]_vars => StrandInv'
  BY StepStrand DEF FileInv
<1>3. StrandInv => NeverStranded
  BY DEF StrandInv
<1>4. QED
  BY <1>1, <1>2, <1>3, Invariant, PTL DEF Spec

(* Refinement: every step of the pipeline is for the retry chains one of     *)
(* RetryChain's steps, so what is proved of the chains holds in the pipeline. *)
THEOREM PipelineUsesRetries == Spec => RetriesAsSpecified
<1>1. Init => Retry!Init
  BY DEF Init
<1>2. TypeOK /\ FileInv /\ TypeOK' /\ [Next]_vars => [Retry!Next]_(Retry!vars)
  <2> SUFFICES ASSUME TypeOK, FileInv, TypeOK', [Next]_vars, Interferes PROVE Retry!Next
    BY StepType DEF FileInv
  <2>1. Retry!Interfere
    BY DEF Interferes, Retry!Interfere, TypeOK, Retry!TypeOK
  <2>2. QED
    BY <2>1 DEF Retry!Next
<1>3. QED
  BY <1>1, <1>2, Invariant, PTL DEF Spec, RetriesAsSpecified, Retry!Spec

(* ... for instance that the cooldown of a chain never swallows its own      *)
(* retry, with transfers, recovery ticks and users writing the marker too.   *)
THEOREM CooldownsDoNotBlock == Spec => []Retry!OwnMarkerFades
<1>1. Retry!Init => R!Init
  BY DEF Retry!Init, R!Init, Retry!None, R!None
<1>2. [Retry!Next]_(Retry!vars) => [R!Next]_(R!vars)
  BY DEF Retry!Next, R!Next, Retry!vars, R!vars, Retry!Schedule, R!Schedule, Retry!Starts,
     R!Starts, Retry!Returns, R!Returns, Retry!CountdownEnds, R!CountdownEnds, Retry!Capped,
     R!Capped, Retry!Skip, R!Skip, Retry!Call, R!Call, Retry!Permitted, R!Permitted,
     Retry!Succeeds, R!Succeeds, Retry!LastFails, R!LastFails, Retry!Fails, R!Fails,
     Retry!Errors, R!Errors, Retry!Redelivered, R!Redelivered, Retry!CooldownElapses,
     R!CooldownElapses, Retry!Interfere, R!Interfere, Retry!Statuses, R!Statuses,
     Retry!Active, R!Active, Retry!Move, R!Move, Retry!Drop, R!Drop, Retry!Await, R!Await,
     Retry!None, R!None
<1>3. R!OwnMarkerFades => Retry!OwnMarkerFades
  BY DEF R!OwnMarkerFades, Retry!OwnMarkerFades
<1>4. R!RetryAssumption
  BY PipelineAssumption DEF R!RetryAssumption, R!Interference
<1>5. R!Spec => []R!OwnMarkerFades
  BY <1>4, R!OwnMarkerNeverBlocks, PTL
<1>6. RetriesAsSpecified => R!Spec
  BY <1>1, <1>2, PTL DEF RetriesAsSpecified, Retry!Spec, R!Spec
<1>7. QED
  BY <1>3, <1>5, <1>6, PipelineUsesRetries, PTL
=============================================================================
