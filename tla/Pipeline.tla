------------------------------ MODULE Pipeline ------------------------------
(***************************************************************************)
(* The life of one item from the finished download to Completed            *)
(* (itemqueue/tasks.py, harpoon2/views.py): check_downloaders and          *)
(* postprocess_item put it in PostProcessing and queue a transfer;         *)
(* transfer_files_async lists the seedbox, registers a FileTransfer row    *)
(* per file, copies the files, extracts them, calls the manager and marks  *)
(* the item Completed; check_stalled_transfers repairs what was left       *)
(* behind; retry chains (RetryChain) repeat a failed post-processing; the  *)
(* user cancels and retries.  All of them write the same two tables, most  *)
(* of them by saving a whole row they read earlier.                        *)
(*                                                                         *)
(* One transfer task at a time works on the item: that is the promise of   *)
(* the semaphore, modelled and proved in TransferLock.                     *)
(***************************************************************************)
EXTENDS Integers, FiniteSets

CONSTANTS
  Files,      \* the files of the download
  Archives,   \* those of them that are archives to extract
  Managers,   \* the kinds of manager the item may have: "none", "Bindery", "other"
  Cleans,     \* whether a successful post-processing deletes on the seedbox
  Verifiers,  \* the workers that may run postprocess_item at the same time
  Chains, RetryCap,  \* see RetryChain
  Faults,     \* what may go wrong outside the database
  DiesIn,     \* where a transfer may end by an exception or a dead worker
  Actions,    \* what the user may do
  MaxFaults, MaxDeaths, MaxActions,  \* bounds: how often each may happen
  MaxEvents,  \* bound: how often all of them together may happen
  MaxTasks    \* bound: tasks of one kind in the Celery queue

FaultKinds == {"no_remote_dir", "list_partly", "copy", "slow", "extract", "post",
               "verify", "queue", "locked", "retry", "downloader"}
RunPC == {"list", "register", "copy", "open", "fetch", "fetched", "extract", "post", "mark"}
ActionKinds == {"cancel_transfer", "fail", "complete", "requeue", "retransfer", "retry_failed",
                "set_status"}

ASSUME PipelineAssumption ==
  /\ IsFiniteSet(Files) /\ Archives \subseteq Files
  /\ Managers \subseteq {"none", "Bindery", "other"}
  /\ Cleans \in BOOLEAN
  /\ RetryCap \in Nat \ {0}
  /\ Chains \cap {"stale", "other"} = {}
  /\ Faults \subseteq FaultKinds /\ DiesIn \subseteq RunPC /\ Actions \subseteq ActionKinds
  /\ {MaxFaults, MaxDeaths, MaxActions, MaxEvents, MaxTasks} \subseteq Nat

VARIABLES
  status, attempts, marker, chain,  \* see RetryChain
  size,    \* Item.size, as the set of the files it counts
  rows,    \* rows[f]: the status of f's FileTransfer, "none" without a row
  disk,    \* disk[f]: the local copy of f
  remote,  \* the files still on the seedbox
  tasks,   \* the tasks in the Celery queue, by kind
  verify,  \* verify[p]: the item as the postprocess_item of p read it
  reader,  \* the item as a transfer task read it, before the semaphore
  run,     \* the transfer task that has the semaphore
  spent    \* what was used of the bounds

itemVars == <<status, attempts, marker, size>>
fileVars == <<rows, disk, remote>>
taskVars == <<tasks, verify, reader>>
vars == <<itemVars, fileVars, taskVars, chain, run, spent>>

Retry == INSTANCE RetryChain WITH Outside <- {"status", "marker", "count", "errors", "redelivery"}

Item == [status |-> status, attempts |-> attempts, size |-> size]
Nobody == [status |-> "none"]
Idle == [pc |-> "idle"]
Busy == run # Idle
Unfinished == {f \in Files : rows[f] \in {"pending", "transferring", "failed"}}
Completed == {f \in Files : rows[f] = "completed"}

(* item.save() writes every column as it was read: a count, a size or a     *)
(* marker that was written since then is lost.                              *)
Save(item, newStatus) ==
  /\ status' = newStatus
  /\ attempts' = item.attempts
  /\ size' = item.size
  /\ marker' \in {marker, "stale"}

(* An update of one column leaves the others alone. *)
KeepItem == UNCHANGED itemVars

Queue(kind) ==
  /\ tasks[kind] < MaxTasks
  /\ tasks' = [tasks EXCEPT ![kind] = @ + 1]
Dequeue(kind) ==
  /\ tasks[kind] > 0
  /\ tasks' = [tasks EXCEPT ![kind] = @ - 1]

Spend(what, bound) ==
  /\ spent[what] < bound
  /\ spent.faults + spent.deaths + spent.actions < MaxEvents
  /\ spent' = [spent EXCEPT ![what] = @ + 1]
Fault(kind) == kind \in Faults /\ Spend("faults", MaxFaults)
-----------------------------------------------------------------------------
Init ==
  /\ Retry!Init /\ status = "Grabbed"
  /\ size = {}
  /\ rows = [f \in Files |-> "none"]
  /\ disk = [f \in Files |-> "none"]
  /\ remote = Files
  /\ tasks = [postprocess |-> 0, transfer |-> 0]
  /\ verify = [p \in Verifiers |-> Nobody]
  /\ reader = Nobody
  /\ run = Idle
  /\ spent = [faults |-> 0, deaths |-> 0, actions |-> 0]
-----------------------------------------------------------------------------
(* check_downloaders: the downloader reports the download complete, the item *)
(* is none of Completed, Failed and PostProcessing, and the drain gate is    *)
(* open.  The 20 s tick may queue several tasks before the first one runs.   *)
CheckDownloaders ==
  /\ status = "Grabbed"
  /\ Queue("postprocess")
  /\ UNCHANGED <<itemVars, fileVars, verify, reader, chain, run, spent>>

(* postprocess_item reads the item; only a Grabbed one is acted on. *)
ReadGrabbed(p) ==
  /\ verify[p] = Nobody
  /\ Dequeue("postprocess")
  /\ verify' = [verify EXCEPT ![p] = IF status = "Grabbed" THEN Item ELSE Nobody]
  /\ UNCHANGED <<itemVars, fileVars, reader, chain, run, spent>>

Verified(p) == verify[p] # Nobody /\ verify' = [verify EXCEPT ![p] = Nobody]

(* The downloader confirms: PostProcessing, and a transfer in 5 seconds. *)
StartPostProcessing(p) ==
  /\ Verified(p)
  /\ Save(verify[p], "PostProcessing")
  /\ Queue("transfer")
  /\ UNCHANGED <<fileVars, reader, chain, run, spent>>

(* The broker refuses the task, or the worker dies: only the row is saved. *)
QueueingFails(p) ==
  /\ Fault("queue")
  /\ Verified(p)
  /\ Save(verify[p], "PostProcessing")
  /\ UNCHANGED <<fileVars, tasks, reader, chain, run>>

(* No downloader, no seedbox, a failed verification or any exception. *)
VerificationFails(p) ==
  /\ Fault("verify")
  /\ Verified(p)
  /\ Save(verify[p], "Failed")
  /\ UNCHANGED <<fileVars, tasks, reader, chain, run>>
-----------------------------------------------------------------------------
(* A transfer task reads the item under a row lock it releases at once. *)
ReadItem ==
  /\ reader = Nobody
  /\ Dequeue("transfer")
  /\ reader' = Item
  /\ UNCHANGED <<itemVars, fileVars, verify, chain, run, spent>>

(* Another transfer has the semaphore: the task ends. *)
Refused ==
  /\ reader # Nobody /\ Busy
  /\ reader' = Nobody
  /\ UNCHANGED <<itemVars, fileVars, tasks, verify, chain, run, spent>>

(* The task has the semaphore, and the item as it was before. *)
Enter ==
  /\ reader # Nobody /\ ~Busy
  /\ run' = [pc |-> "list", item |-> reader, todo |-> {}, total |-> {},
             records |-> {}, file |-> "none", copied |-> FALSE, post |-> "none"]
  /\ reader' = Nobody
  /\ UNCHANGED <<itemVars, fileVars, tasks, verify, chain, spent>>

RunAt(pc) == Busy /\ run.pc = pc
RunGoto(pc) == run' = [run EXCEPT !.pc = pc]

(* The downloader knows no remote directory: the run fails the item. *)
NoRemoteDir ==
  /\ RunAt("list")
  /\ Fault("no_remote_dir")
  /\ Save(run.item, "Failed")
  /\ run' = Idle
  /\ UNCHANGED <<fileVars, taskVars, chain>>

(* The walk of the seedbox; a directory that cannot be read is left out. *)
List ==
  /\ RunAt("list")
  /\ \/ UNCHANGED spent /\ run' = [run EXCEPT !.pc = "register", !.todo = remote, !.total = remote]
     \/ /\ Fault("list_partly")
        /\ \E seen \in SUBSET remote :
             run' = [run EXCEPT !.pc = "register", !.todo = seen, !.total = seen]
  /\ UNCHANGED <<itemVars, fileVars, taskVars, chain>>

(* STEP 1 for one file.  A row in flight is left to whoever put it there; a *)
(* completed one is taken into this run's records; any other is replaced by *)
(* a completed one when the local file has the right size, and by a pending *)
(* one after a local file of the wrong size was removed.                    *)
Register(f) ==
  /\ RunAt("register") /\ f \in run.todo
  /\ \/ /\ rows[f] \in {"pending", "transferring"}
        /\ run' = [run EXCEPT !.todo = @ \ {f}]
        /\ UNCHANGED <<rows, disk>>
     \/ /\ rows[f] \notin {"pending", "transferring"}
        /\ rows' = [rows EXCEPT ![f] =
             IF @ = "completed" \/ disk[f] = "full" THEN "completed" ELSE "pending"]
        /\ disk' = [disk EXCEPT ![f] =
             IF @ = "part" /\ rows[f] # "completed" THEN "none" ELSE @]
        /\ run' = [run EXCEPT !.todo = @ \ {f}, !.records = @ \union {f}]
  /\ UNCHANGED <<itemVars, remote, taskVars, chain, spent>>

(* item.size is corrected by saving the row as the task first read it. *)
Registered ==
  /\ RunAt("register") /\ run.todo = {}
  /\ IF run.total # {} /\ run.total # run.item.size
       THEN /\ Save([run.item EXCEPT !.size = run.total], run.item.status)
            /\ run' = [run EXCEPT !.pc = "copy", !.item.size = run.total, !.total = {}]
       ELSE KeepItem /\ run' = [run EXCEPT !.pc = "copy", !.total = {}]
  /\ UNCHANGED <<fileVars, taskVars, chain, spent>>
-----------------------------------------------------------------------------
(* STEP 2.  Saving a FileTransfer writes the status the run believes in, and *)
(* inserts the row again when someone deleted it.                            *)
SaveRow(f, s) == rows' = [rows EXCEPT ![f] = s]
OtherwiseKept == UNCHANGED <<itemVars, remote, taskVars, chain>>

(* Mutant of Begin: the row is not saved before the copy starts. *)
BeginUnsaved(f) ==
  /\ RunAt("copy") /\ f \in run.records
  /\ run' = [run EXCEPT !.pc = "open", !.file = f]
  /\ OtherwiseKept /\ UNCHANGED <<rows, disk, spent>>

Begin(f) ==
  /\ RunAt("copy") /\ f \in run.records
  /\ SaveRow(f, "transferring")
  /\ run' = [run EXCEPT !.pc = "open", !.file = f]
  /\ OtherwiseKept /\ UNCHANGED <<disk, spent>>

(* sftp.get truncates the local file before it asks for the remote one. *)
Open ==
  /\ RunAt("open")
  /\ disk' = [disk EXCEPT ![run.file] = "part"]
  /\ RunGoto("fetch")
  /\ OtherwiseKept /\ UNCHANGED <<rows, spent>>

(* The progress callback saves the row as it was when the copy began. *)
Progress ==
  /\ RunAt("fetch") /\ run.file \in remote
  /\ rows[run.file] # "transferring"
  /\ SaveRow(run.file, "transferring")
  /\ OtherwiseKept /\ UNCHANGED <<disk, run, spent>>

Fetched ==
  /\ RunAt("fetch") /\ run.file \in remote
  /\ disk' = [disk EXCEPT ![run.file] = "full"]
  /\ RunGoto("fetched")
  /\ OtherwiseKept /\ UNCHANGED <<rows, spent>>

NextFile(copied) ==
  run' = [run EXCEPT !.pc = "copy", !.records = @ \ {run.file}, !.file = "none",
                     !.copied = @ \/ copied]

(* Mutant of Copied: a status the other queries do not know. *)
CopiedMisspelt ==
  /\ RunAt("fetched")
  /\ SaveRow(run.file, "complete")
  /\ NextFile(TRUE)
  /\ OtherwiseKept /\ UNCHANGED <<disk, spent>>

Copied ==
  /\ RunAt("fetched")
  /\ SaveRow(run.file, "completed")
  /\ NextFile(TRUE)
  /\ OtherwiseKept /\ UNCHANGED <<disk, spent>>

(* Mutant of CopyFails: the failure is logged but not saved. *)
CopyFailsUnsaved ==
  /\ RunAt("fetch")
  /\ \/ run.file \notin remote /\ UNCHANGED spent
     \/ Fault("copy")
  /\ NextFile(FALSE)
  /\ OtherwiseKept /\ UNCHANGED <<rows, disk>>

(* The third try of a file failed: the run goes on with the next one. *)
CopyFails ==
  /\ RunAt("fetch")
  /\ \/ run.file \notin remote /\ UNCHANGED spent
     \/ Fault("copy")
  /\ SaveRow(run.file, "failed")
  /\ NextFile(FALSE)
  /\ OtherwiseKept /\ UNCHANGED disk
-----------------------------------------------------------------------------
CopyEnds ==
  /\ RunAt("copy") /\ run.records = {}
  /\ RunGoto("extract")
  /\ UNCHANGED <<itemVars, fileVars, taskVars, chain, spent>>

OnDisk(state) == {f \in Archives : disk[f] = state}
Extracts == run.copied /\ Completed # {} /\ OnDisk("full") \union OnDisk("part") # {}

NothingToExtract ==
  /\ RunAt("extract") /\ ~Extracts
  /\ RunGoto("post")
  /\ UNCHANGED <<itemVars, fileVars, taskVars, chain, spent>>

(* The archives are deleted once they are extracted; the progress is saved  *)
(* with the whole row.                                                      *)
Extract ==
  /\ RunAt("extract") /\ Extracts /\ OnDisk("part") = {}
  /\ disk' = [f \in Files |-> IF f \in OnDisk("full") THEN "unpacked" ELSE disk[f]]
  /\ Save(run.item, run.item.status)
  /\ RunGoto("post")
  /\ UNCHANGED <<rows, remote, taskVars, chain, spent>>

(* A broken archive fails the item; the run goes on to the post-processing. *)
ExtractFails ==
  /\ RunAt("extract") /\ Extracts
  /\ \/ OnDisk("part") # {} /\ UNCHANGED spent
     \/ Fault("extract")
  /\ Save(run.item, "Failed")
  /\ run' = [run EXCEPT !.pc = "post", !.item.status = "Failed"]
  /\ UNCHANGED <<fileVars, taskVars, chain>>
-----------------------------------------------------------------------------
Posted(outcome) == run' = [run EXCEPT !.pc = "mark", !.post = outcome]

NoPost ==
  /\ RunAt("post") /\ "none" \in Managers
  /\ RunGoto("mark")
  /\ UNCHANGED <<itemVars, fileVars, taskVars, chain, spent>>

(* Mutant of PostSucceeds: the cleanup takes any transfer of the item. *)
PostCleansAny ==
  /\ RunAt("post") /\ Managers # {"none"}
  /\ \/ UNCHANGED remote
     \/ Cleans /\ \E f \in Files : remote' = remote \ {f}
  /\ Posted("ok")
  /\ UNCHANGED <<itemVars, rows, disk, taskVars, chain, spent>>

(* The manager took the files: the seedbox copy of the first completed      *)
(* transfer is deleted (a failure to delete is only logged).                *)
PostSucceeds ==
  /\ RunAt("post") /\ Managers # {"none"}
  /\ \/ UNCHANGED remote
     \/ Cleans /\ \E f \in Completed : remote' = remote \ {f}
  /\ Posted("ok")
  /\ UNCHANGED <<itemVars, rows, disk, taskVars, chain, spent>>

(* Mutant of PostFails: the chain starts with attempt 0. *)
PostFailsFromZero ==
  /\ RunAt("post")
  /\ Fault("post")
  /\ \E c \in Chains : ~Retry!Active(c) /\ Retry!Await(c, 0)
  /\ \E manager \in Managers \ {"none"} :
       Posted(IF manager = "Bindery" THEN "refused" ELSE "failed")
  /\ UNCHANGED <<itemVars, fileVars, taskVars>>

(* The manager refused: a retry in 300 s (none is modelled when all of      *)
(* Chains are in use), and no completion of an item of Bindery.             *)
PostFails ==
  /\ RunAt("post")
  /\ Fault("post")
  /\ IF \A c \in Chains : Retry!Active(c)
       THEN UNCHANGED <<itemVars, chain>>
       ELSE \E c \in Chains : Retry!Schedule(c) /\ UNCHANGED size
  /\ \E manager \in Managers \ {"none"} :
       Posted(IF manager = "Bindery" THEN "refused" ELSE "failed")
  /\ UNCHANGED <<fileVars, taskVars>>

(* Completed, unless the extraction failed or Bindery refused the files;    *)
(* what became of the item since the task read it is not looked at.         *)
Mark ==
  /\ RunAt("mark")
  /\ IF run.item.status # "Failed" /\ run.post # "refused"
       THEN Save(run.item, "Completed")
       ELSE KeepItem
  /\ run' = Idle
  /\ UNCHANGED <<fileVars, taskVars, chain, spent>>

(* An early return, an exception that reaches the outer handler, the time   *)
(* limit or the death of the worker.  A container that restarts finds the   *)
(* unacknowledged task again, a killed child does not.                      *)
Dies ==
  /\ Busy /\ run.pc \in DiesIn
  /\ Spend("deaths", MaxDeaths)
  /\ run' = Idle
  /\ UNCHANGED tasks \/ Queue("transfer")
  /\ UNCHANGED <<itemVars, fileVars, verify, reader, chain>>
-----------------------------------------------------------------------------
(* check_stalled_transfers, first part: Completed, but not really. *)
Reopen ==
  /\ status = "Completed" /\ Unfinished # {}
  /\ Save(Item, "PostProcessing")
  /\ UNCHANGED <<fileVars, taskVars, chain, run, spent>>

(* No progress for five minutes: of a row whose transfer is gone, or of one *)
(* that hangs.                                                              *)
Stall(f) ==
  /\ rows[f] = "transferring"
  /\ IF Busy /\ run.file = f THEN Fault("slow") ELSE UNCHANGED spent
  /\ SaveRow(f, "failed")
  /\ UNCHANGED <<itemVars, disk, remote, taskVars, chain, run>>

(* Mutants of Recover: it deletes the row of a file in flight, too; it does *)
(* not look for failed rows.                                                *)
RecoverInFlight ==
  /\ status = "PostProcessing" /\ marker = "stale"
  /\ \E f \in Files : rows[f] \in {"pending", "failed"}
  /\ marker' = "other"
  /\ rows' = [f \in Files |-> IF rows[f] = "completed" THEN "completed" ELSE "none"]
  /\ \/ Queue("transfer") /\ UNCHANGED spent
     \/ Fault("locked") /\ UNCHANGED tasks
  /\ UNCHANGED <<status, attempts, size, disk, remote, verify, reader, chain, run>>

RecoverPending ==
  /\ status = "PostProcessing" /\ marker = "stale"
  /\ \E f \in Files : rows[f] = "pending"
  /\ marker' = "other"
  /\ rows' = [f \in Files |-> IF rows[f] = "pending" THEN "none" ELSE rows[f]]
  /\ \/ Queue("transfer") /\ UNCHANGED spent
     \/ Fault("locked") /\ UNCHANGED tasks
  /\ UNCHANGED <<status, attempts, size, disk, remote, verify, reader, chain, run>>

(* Second part: marker, deletion of the rows and dispatch in one database   *)
(* transaction.  The dispatch is seen before the commit: a task that starts *)
(* at once finds the row locked and ends ("locked").                        *)
Recover ==
  /\ status = "PostProcessing" /\ marker = "stale"
  /\ \E f \in Files : rows[f] \in {"pending", "failed"}
  /\ marker' = "other"
  /\ rows' = [f \in Files |-> IF rows[f] \in {"pending", "failed"} THEN "none" ELSE rows[f]]
  /\ \/ Queue("transfer") /\ UNCHANGED spent
     \/ Fault("locked") /\ UNCHANGED tasks
  /\ UNCHANGED <<status, attempts, size, disk, remote, verify, reader, chain, run>>

(* check_downloader_failures: SABnzbd reports a failure under this name. *)
DownloaderFails ==
  /\ status \in {"Grabbed", "PostProcessing"} /\ Managers # {"none"}
  /\ Fault("downloader")
  /\ Save(Item, "Failed")
  /\ UNCHANGED <<fileVars, taskVars, chain, run>>
-----------------------------------------------------------------------------
(* The retry chains, and the two ways a call can be cut short. *)
RetryStep(c) ==
  /\ \/ /\ \/ Retry!CountdownEnds(c) \/ Retry!Capped(c) \/ Retry!Returns(c)
           \/ Retry!Skip(c, Completed # {}) \/ Retry!Call(c, Completed # {})
        /\ UNCHANGED spent
     \/ /\ Retry!Errors(c) \/ Retry!Redelivered(c)
        /\ "retry" \in Faults /\ Spend("deaths", MaxDeaths)
  /\ UNCHANGED <<size, fileVars, taskVars, run>>

CooldownElapses ==
  /\ Retry!CooldownElapses
  /\ UNCHANGED <<size, fileVars, taskVars, run, spent>>
-----------------------------------------------------------------------------
User(kind) == kind \in Actions /\ Spend("actions", MaxActions)
NoRows == rows' = [f \in Files |-> "none"]

(* cancel_transfer *)
CancelTransfer ==
  /\ User("cancel_transfer")
  /\ rows' = [f \in Files |-> IF rows[f] \in {"pending", "transferring"} THEN "failed" ELSE rows[f]]
  /\ Save(Item, "Failed")
  /\ UNCHANGED <<disk, remote, taskVars, chain, run>>

(* cancel_postprocessing: mark as Failed or as Completed. *)
Decide ==
  /\ status = "PostProcessing"
  /\ \/ User("fail") /\ Save(Item, "Failed")
     \/ User("complete") /\ Save(Item, "Completed")
  /\ UNCHANGED <<fileVars, taskVars, chain, run>>

(* cancel_postprocessing: back to Grabbed with a clean record. *)
Requeue ==
  /\ status = "PostProcessing"
  /\ User("requeue")
  /\ status' = "Grabbed" /\ attempts' = 0 /\ marker' = "stale"
  /\ NoRows
  /\ UNCHANGED <<size, disk, remote, taskVars, chain, run>>

(* retry_postprocessing_transfer *)
Retransfer ==
  /\ status = "PostProcessing"
  /\ User("retransfer")
  /\ NoRows
  /\ Queue("transfer")
  /\ UNCHANGED <<itemVars, disk, remote, verify, reader, chain, run>>

(* retry_failed_item: the count and the marker stay. *)
RetryFailed ==
  /\ status = "Failed"
  /\ User("retry_failed")
  /\ NoRows
  /\ Save(Item, "Grabbed")
  /\ UNCHANGED <<disk, remote, taskVars, chain, run>>

(* update_item_status: any status, whatever is under way. *)
SetStatus ==
  /\ User("set_status")
  /\ \E s \in Retry!Statuses : Save(Item, s)
  /\ UNCHANGED <<fileVars, taskVars, chain, run>>
-----------------------------------------------------------------------------
PostprocessStep(p) ==
  ReadGrabbed(p) \/ StartPostProcessing(p) \/ QueueingFails(p) \/ VerificationFails(p)

RunStep ==
  \/ NoRemoteDir \/ List \/ Registered
  \/ \E f \in Files : Register(f) \/ Begin(f)
  \/ Open \/ Progress \/ Fetched \/ Copied \/ CopyFails
  \/ CopyEnds \/ NothingToExtract \/ Extract \/ ExtractFails
  \/ NoPost \/ PostSucceeds \/ PostFails
  \/ Mark

Tick == Reopen \/ (\E f \in Files : Stall(f)) \/ Recover \/ DownloaderFails

UserStep == CancelTransfer \/ Decide \/ Requeue \/ Retransfer \/ RetryFailed \/ SetStatus

Next ==
  \/ CheckDownloaders
  \/ \E p \in Verifiers : PostprocessStep(p)
  \/ ReadItem \/ Refused \/ Enter \/ RunStep \/ Dies
  \/ Tick
  \/ \E c \in Chains : RetryStep(c)
  \/ CooldownElapses
  \/ UserStep

Spec == Init /\ [][Next]_vars

(* A worker goes on with its task, Celery delivers what is queued, beat     *)
(* ticks, time passes, and a transfer whose row does not move is noticed.   *)
(* Nothing is assumed of the user, of faults and of deaths.  The end of a   *)
(* retry's countdown is strongly fair for the reason RetryChain gives.      *)
FairSpec ==
  /\ Spec
  /\ WF_vars(CheckDownloaders)
  /\ \A p \in Verifiers : WF_vars(ReadGrabbed(p)) /\ WF_vars(StartPostProcessing(p))
  /\ WF_vars(ReadItem) /\ WF_vars(Refused) /\ WF_vars(Enter)
  /\ WF_vars(RunStep)
  /\ WF_vars(Reopen) /\ WF_vars(Recover)
  /\ \A f \in Files : WF_vars(Stall(f))
  /\ \A c \in Chains : SF_vars(RetryStep(c))
  /\ WF_vars(CooldownElapses)
-----------------------------------------------------------------------------
ItemType == [status : Retry!Statuses, attempts : 0..RetryCap, size : SUBSET Files]
RunType ==
  [pc : RunPC, item : ItemType, todo : SUBSET Files, total : SUBSET Files,
   records : SUBSET Files, file : Files \union {"none"}, copied : BOOLEAN,
   post : {"none", "ok", "failed", "refused"}]

TypeOK ==
  /\ Retry!TypeOK
  /\ size \subseteq Files
  /\ rows \in [Files -> {"none", "pending", "transferring", "completed", "failed"}]
  /\ disk \in [Files -> {"none", "part", "full", "unpacked"}]
  /\ remote \subseteq Files
  /\ tasks \in [{"postprocess", "transfer"} -> 0..MaxTasks]
  /\ verify \in [Verifiers -> ItemType \union {Nobody}]
  /\ reader \in ItemType \union {Nobody}
  /\ run \in RunType \union {Idle}
  /\ spent \in [{"faults", "deaths", "actions"} -> Nat]

Local == {f \in Files : disk[f] \in {"full", "unpacked"}}

(* A completed row means the whole file is here (or was extracted): no      *)
(* late save, retry, stall or recovery leaves one over a truncated file.    *)
CompletedRowIsLocal == Completed \subseteq Local

(* Whatever is deleted on the seedbox is here: the cleanup after a          *)
(* successful post-processing never takes the only copy, and no later run   *)
(* truncates the copy it cannot fetch again.                                *)
NothingLost == Files \ remote \subseteq Local

(* A row is pending or transferring only while the run that will finish it  *)
(* is alive; only a death leaves one behind for the stall check.            *)
InFlightHasOwner ==
  spent.deaths = 0 =>
    \A f \in Files : rows[f] \in {"pending", "transferring"} => Busy /\ f \in run.records

(* The pipeline uses the retry chains as RetryChain specifies them.         *)
RetriesAsSpecified == Retry!Spec

(* No transfer of the item is queued or under way. *)
Quiet == ~Busy /\ reader = Nobody /\ tasks.transfer = 0

(* An item in PostProcessing is being worked on, or has an unfinished row   *)
(* by which check_stalled_transfers finds it.                               *)
NeverStranded ==
  status = "PostProcessing" => ~Quiet \/ Unfinished # {}

(* An item does not stay in PostProcessing: the recovery "requeues          *)
(* transfers for PostProcessing items with none" (USER_GUIDE.md:394-400).   *)
LeavesPostProcessing == status = "PostProcessing" ~> status # "PostProcessing"

(* A Completed item that misses a file has a row that says so, by which     *)
(* check_stalled_transfers reopens it (tasks.py:1855-1859).                 *)
NothingSilentlyMissing ==
  status = "Completed" /\ Quiet => Files \ Local \subseteq Unfinished
=============================================================================
