--------------------------- MODULE BinderyImport ---------------------------
(***************************************************************************)
(* The recovery of a book whose automatic import by Bindery failed         *)
(* (entities/managers.py:1007-1632).  post_process, called by a transfer   *)
(* run or by retry_postprocessing, looks at the queue of Bindery, asks for *)
(* a manual import of the transferred files and deletes the row of the     *)
(* failed import.  Meanwhile the poll (check_queue) writes to the item     *)
(* what the row of the download says, and Bindery works on its rows.       *)
(*                                                                         *)
(* One item, one book.  The row "download" is the one that carries the     *)
(* item's hash; the rows of manual imports carry none.                     *)
(***************************************************************************)
EXTENDS Integers

CONSTANTS
  Manual,     \* the rows that manual imports may create
  MovesFiles, \* whether a folder of Bindery is configured, as a set of BOOLEAN
  RetryCap,   \* RETRY_CAP_ATTEMPTS
  Faults,     \* what may go wrong
  MaxFaults, MaxRuns  \* bounds: faults in all, transfer runs

FaultKinds == {"unreachable", "refused", "answer lost", "delete", "move", "dies",
               "resumed", "pruned"}

ASSUME BinderyAssumption ==
  /\ "download" \notin Manual
  /\ MovesFiles \subseteq BOOLEAN
  /\ RetryCap \in Nat \ {0}
  /\ Faults \subseteq FaultKinds
  /\ {MaxFaults, MaxRuns} \subseteq Nat

VARIABLES
  rows,     \* rows[r]: the status of r in Bindery's queue, "none" without a row
  files,    \* where the transferred files are
  moves,    \* whether a folder of Bindery is configured
  status,   \* Item.status
  count,    \* Item.attempt_count
  proc,     \* proc[p]: the post_process called by p
  retry,    \* the attempt of the retry_postprocessing in the Celery queue, or 0
  read,     \* the item as the transfer run read it
  poll,     \* the status a poll under way will save, or "none"
  runs, spent,  \* what was used of the bounds
  excused   \* history: what happened that may excuse a second import

vars == <<rows, files, moves, status, count, proc, retry, read, poll, runs, spent, excused>>

Rows == Manual \union {"download"}
Active == {"downloading", "importing", "imported"}
Recoverable == {"importfailed", "transient"}  \* importFailed or importBlocked
RowStatus == Active \union Recoverable \union {"none", "failed"}

Listed(r) == rows[r] # "none"
Imported == \E r \in Rows : rows[r] = "imported"
Statuses == {"Grabbed", "PostProcessing", "Completed", "Failed"}
NoItem == [failed |-> FALSE, count |-> 0]
Idle == [pc |-> "idle", found |-> FALSE, attempt |-> 0]
Callers == {"run", "retry"}
At(p, pc) == proc[p].pc = pc
Goto(p, pc) == proc' = [proc EXCEPT ![p].pc = pc]
SetRow(r, s) == rows' = [rows EXCEPT ![r] = s]

Fault(kind) ==
  /\ kind \in Faults /\ spent < MaxFaults
  /\ spent' = spent + 1
NoFault == UNCHANGED spent
Excuse(kind) == excused' = excused \union {kind}
-----------------------------------------------------------------------------
Init ==
  /\ rows = [r \in Rows |-> IF r = "download" THEN "downloading" ELSE "none"]
  /\ files = "none"
  /\ moves \in MovesFiles
  /\ status = "Grabbed"
  /\ count = 0
  /\ proc = [p \in Callers |-> Idle]
  /\ retry = 0
  /\ read = NoItem
  /\ poll = "none"
  /\ runs = 0 /\ spent = 0 /\ excused = {}
-----------------------------------------------------------------------------
(* Bindery.  Its own import takes the files; so does a manual one. *)
BinderyKeeps == UNCHANGED <<moves, status, count, proc, retry, read, poll, runs>>

Downloaded ==
  /\ rows["download"] = "downloading"
  /\ \E s \in {"importing", "failed"} : SetRow("download", s)
  /\ BinderyKeeps /\ UNCHANGED <<files, spent, excused>>

ImportEnds(r) ==
  /\ rows[r] = "importing"
  /\ \/ \E s \in Recoverable : SetRow(r, s) /\ UNCHANGED files
     \/ SetRow(r, "imported") /\ files' \in {files, "taken"}
  /\ BinderyKeeps /\ UNCHANGED <<spent, excused>>

(* Bindery tries a failed import again by itself. *)
Resumes(r) ==
  /\ rows[r] \in Recoverable
  /\ Fault("resumed")
  /\ SetRow(r, "importing")
  /\ Excuse("resumed")
  /\ BinderyKeeps /\ UNCHANGED files

(* The row falls out of the page of 100, or expires. *)
Pruned(r) ==
  /\ rows[r] \in Recoverable \union {"failed", "imported"}
  /\ Fault("pruned")
  /\ SetRow(r, "none")
  /\ Excuse("pruned")
  /\ BinderyKeeps /\ UNCHANGED files
-----------------------------------------------------------------------------
(* check_queue reads the queue once, then saves the item of each row.        *)
MappedStatus(s) ==
  CASE s = "downloading" -> "Grabbed"
    [] s \in {"importing", "transient"} -> "PostProcessing"
    [] s = "imported" -> "Completed"
    [] s \in {"failed", "importfailed"} -> "Failed"

PollKeeps == UNCHANGED <<rows, files, moves, count, proc, retry, read, runs, spent, excused>>

(* Mutant of PollReads: the row is believed though the book is imported. *)
PollReadsRow ==
  /\ poll = "none" /\ Listed("download")
  /\ poll' = MappedStatus(rows["download"])
  /\ PollKeeps /\ UNCHANGED status

(* A failed row of a book that another row has imported is stale. *)
PollReads ==
  /\ poll = "none" /\ Listed("download")
  /\ poll' = LET mapped == MappedStatus(rows["download"])
             IN IF mapped = "Failed" /\ Imported THEN "Completed" ELSE mapped
  /\ PollKeeps /\ UNCHANGED status

PollSaves ==
  /\ poll # "none"
  /\ status' = poll
  /\ poll' = "none"
  /\ PollKeeps
-----------------------------------------------------------------------------
(* postprocess_item queues a transfer run while the item is Grabbed, which   *)
(* the poll may make it again.                                               *)
RunStarts ==
  /\ status = "Grabbed" /\ At("run", "idle") /\ runs < MaxRuns
  /\ status' = "PostProcessing"
  /\ Goto("run", "queued")
  /\ runs' = runs + 1
  /\ excused' = IF At("retry", "idle") THEN excused ELSE excused \union {"overlap"}
  /\ UNCHANGED <<rows, files, moves, count, retry, read, poll, spent>>

ProcKeeps == UNCHANGED <<moves, poll, runs>>

(* The run reads the item, transfers the files and calls post_process. *)
RunTransfers ==
  /\ At("run", "queued")
  /\ read' = [failed |-> status = "Failed", count |-> count]
  /\ files' = "staged"
  /\ Goto("run", "locate")
  /\ ProcKeeps /\ UNCHANGED <<rows, status, count, retry, spent, excused>>

RetryKeeps == UNCHANGED <<rows, files, moves, count, read, poll, runs, spent>>

(* Mutant of RetryStarts: the count of the row is not looked at, nor the cap. *)
RetryStartsUncapped ==
  /\ retry > 0 /\ At("retry", "idle")
  /\ retry' = 0
  /\ proc' = [proc EXCEPT !["retry"] = [Idle EXCEPT !.pc = "locate", !.attempt = retry + 1]]
  /\ RetryKeeps /\ UNCHANGED <<status, excused>>

(* The cap; or the item is Grabbed again; or post_process is called. *)
RetryStarts ==
  /\ retry > 0 /\ At("retry", "idle")
  /\ retry' = 0
  /\ \/ /\ retry > RetryCap \/ count >= RetryCap
        /\ status' = "Failed"
        /\ UNCHANGED <<proc, excused>>
     \/ /\ retry <= RetryCap /\ count < RetryCap /\ status = "Grabbed"
        /\ UNCHANGED <<status, proc, excused>>
     \/ /\ retry <= RetryCap /\ count < RetryCap /\ status # "Grabbed"
        /\ proc' = [proc EXCEPT !["retry"] = [Idle EXCEPT !.pc = "locate", !.attempt = retry]]
        /\ excused' = IF At("run", "idle") THEN excused ELSE excused \union {"overlap"}
        /\ UNCHANGED status
  /\ RetryKeeps

(* A run that failed queues a first retry in 300 s (none is modelled while   *)
(* one is queued); a retry counts, and is followed by the next or fails the *)
(* item.                                                                    *)
Fails(p) ==
  /\ proc' = [proc EXCEPT ![p] = Idle]
  /\ LET next == proc[p].attempt + 1
     IN IF p = "retry" /\ next > RetryCap
          THEN status' = "Failed" /\ UNCHANGED <<count, retry>>
          ELSE /\ retry' = IF retry = 0 THEN next ELSE retry
               /\ count' = IF p = "retry" THEN next ELSE count
               /\ UNCHANGED status

(* A run has yet to mark the item Completed; a retry leaves that to the poll. *)
Succeeds(p) ==
  IF p = "run" THEN proc' = [proc EXCEPT ![p] = [Idle EXCEPT !.pc = "mark"]]
               ELSE proc' = [proc EXCEPT ![p] = Idle]

(* The staged files are looked for where the transfer put them, and moved to *)
(* the configured folder; they are not looked for there.                     *)
Locate(p) ==
  /\ At(p, "locate")
  /\ \/ /\ files # "staged"
        /\ Fails(p) /\ UNCHANGED <<files, spent>>
     \/ /\ files = "staged"
        /\ \/ NoFault /\ files' = IF moves THEN "moved" ELSE files
           \/ moves /\ Fault("move") /\ UNCHANGED files
        /\ Goto(p, "lookup") /\ UNCHANGED <<status, count, retry>>
  /\ ProcKeeps /\ UNCHANGED <<rows, read, excused>>

LookKeeps == UNCHANGED <<rows, files, status, count, retry, read>>

(* _queue_record_for_item: a failed request looks like a missing row. *)
Lookup(p) ==
  /\ At(p, "lookup")
  /\ \E record \in {rows["download"], "none"} :
       /\ \/ record = rows["download"] /\ NoFault
          \/ record = "none" /\ Fault("unreachable")
       /\ IF record \in Recoverable \union {"none"}
            THEN proc' = [proc EXCEPT ![p].pc = "inflight", ![p].found = record # "none"]
            ELSE Succeeds(p)
  /\ ProcKeeps /\ LookKeeps /\ UNCHANGED excused

BookInFlight == \E r \in Rows : rows[r] \in Active

(* Mutant of InFlight: only imports that are over count. *)
InFlightImported(p) ==
  /\ At(p, "inflight")
  /\ \/ /\ NoFault /\ UNCHANGED excused
        /\ IF ~Imported THEN Goto(p, "post")
           ELSE IF proc[p].found THEN Goto(p, "recheck") ELSE Succeeds(p)
     \/ Fault("unreachable") /\ Excuse("unreachable") /\ Goto(p, "post")
  /\ ProcKeeps /\ LookKeeps

(* _book_import_in_flight: a failed request looks like no import.  Any row of *)
(* the book counts, the item's own one included.                             *)
InFlight(p) ==
  /\ At(p, "inflight")
  /\ \/ /\ NoFault /\ UNCHANGED excused
        /\ IF ~BookInFlight THEN Goto(p, "post")
           ELSE IF proc[p].found THEN Goto(p, "recheck") ELSE Succeeds(p)
     \/ Fault("unreachable") /\ Excuse("unreachable") /\ Goto(p, "post")
  /\ ProcKeeps /\ LookKeeps

NewRow == \E r \in Manual : rows[r] = "none" /\ SetRow(r, "importing")
Posted(p) == IF proc[p].found THEN Goto(p, "recheck") ELSE Succeeds(p)

(* Mutant of ManualImport: the stale row is cleared whatever Bindery said. *)
ManualImportUnchecked(p) ==
  /\ At(p, "post")
  /\ \/ NoFault /\ NewRow /\ Posted(p) /\ UNCHANGED <<status, count, retry>>
     \/ Fault("refused") /\ UNCHANGED rows /\ Posted(p) /\ UNCHANGED <<status, count, retry>>
     \/ Fault("answer lost") /\ NewRow /\ Fails(p)
  /\ ProcKeeps /\ UNCHANGED <<files, read, excused>>

(* _manual_import_new: a row of its own; a timeout may have created it, too. *)
ManualImport(p) ==
  /\ At(p, "post")
  /\ \/ NoFault /\ NewRow /\ Posted(p) /\ UNCHANGED <<status, count, retry>>
     \/ Fault("refused") /\ UNCHANGED rows /\ Fails(p)
     \/ Fault("answer lost") /\ NewRow /\ Fails(p)
  /\ ProcKeeps /\ UNCHANGED <<files, read, excused>>

(* _delete_stale_original_row reads the queue once more; without an answer, or *)
(* without the row, it goes by the record it has.                             *)
Recheck(p) ==
  /\ At(p, "recheck")
  /\ \E fresh \in {rows["download"], "none"} :
       /\ \/ fresh = rows["download"] /\ NoFault
          \/ fresh = "none" /\ Fault("unreachable")
       /\ IF fresh \in Recoverable \union {"none"} THEN Goto(p, "delete") ELSE Succeeds(p)
  /\ ProcKeeps /\ LookKeeps /\ UNCHANGED excused

Delete(p) ==
  /\ At(p, "delete")
  /\ \/ NoFault /\ SetRow("download", "none")
     \/ Fault("delete") /\ UNCHANGED rows
  /\ Succeeds(p)
  /\ ProcKeeps /\ UNCHANGED <<files, status, count, retry, read, excused>>

(* transfer_files_async saves the item as it read it before the transfer. *)
MarkCompleted ==
  /\ At("run", "mark")
  /\ IF read.failed THEN UNCHANGED <<status, count>>
                    ELSE status' = "Completed" /\ count' = read.count
  /\ read' = NoItem
  /\ proc' = [proc EXCEPT !["run"] = Idle]
  /\ ProcKeeps /\ UNCHANGED <<rows, files, retry, spent, excused>>

(* The worker dies with its task, or the task is delivered again: a run then *)
(* transfers again.                                                          *)
Dies(p) ==
  /\ ~At(p, "idle")
  /\ Fault("dies")
  /\ proc' \in {[proc EXCEPT ![p] = Idle],
               [proc EXCEPT ![p] = [pc |-> IF p = "run" THEN "queued" ELSE "locate",
                                    found |-> FALSE, attempt |-> proc[p].attempt]]}
  /\ ProcKeeps /\ UNCHANGED <<rows, files, status, count, retry, read, excused>>
-----------------------------------------------------------------------------
ProcStep(p) ==
  Locate(p) \/ Lookup(p) \/ InFlight(p) \/ ManualImport(p) \/ Recheck(p) \/ Delete(p)

Next ==
  \/ Downloaded
  \/ \E r \in Rows : ImportEnds(r) \/ Resumes(r) \/ Pruned(r)
  \/ PollReads \/ PollSaves
  \/ RunStarts \/ RunTransfers \/ MarkCompleted \/ RetryStarts
  \/ \E p \in Callers : ProcStep(p) \/ Dies(p)

Spec == Init /\ [][Next]_vars

(* Beat starts the poll every 20 s, workers go on.  Bindery ends its imports. *)
FairSpec ==
  /\ Spec
  /\ WF_vars(PollReads) /\ WF_vars(PollSaves)
  /\ WF_vars(RunTransfers) /\ WF_vars(MarkCompleted) /\ WF_vars(RetryStarts)
  /\ \A p \in Callers : WF_vars(ProcStep(p))
  /\ \A r \in Rows : WF_vars(ImportEnds(r))
-----------------------------------------------------------------------------
TypeOK ==
  /\ rows \in [Rows -> RowStatus]
  /\ files \in {"none", "staged", "moved", "taken"} /\ moves \in BOOLEAN
  /\ status \in Statuses
  /\ count \in 0..RetryCap /\ retry \in 0..RetryCap
  /\ proc \in [Callers ->
       [pc : {"idle", "queued", "locate", "lookup", "inflight", "post", "recheck", "delete", "mark"},
        found : BOOLEAN, attempt : 0..RetryCap]]
  /\ proc["run"].attempt = 0
  /\ read \in [failed : BOOLEAN, count : 0..RetryCap]
  /\ poll \in Statuses \union {"none"}
  /\ runs \in 0..MaxRuns /\ spent \in 0..MaxFaults
  /\ excused \subseteq {"unreachable", "resumed", "pruned", "overlap"}

(* "Another manual-import would only create a duplicate" (managers.py:1480):  *)
(* two rows of the book are in flight or imported only if Bindery did not     *)
(* answer, resumed a row or dropped one, or two callers overlapped.           *)
NoDuplicateImport ==
  excused = {} => \A r, s \in Rows : rows[r] \in Active /\ rows[s] \in Active => r = s

(* The row of the download is deleted only when a manual import was accepted  *)
(* in its place; a row that resumed passes for another one (managers.py:1384).*)
Superseded ==
  \A p \in Callers : At(p, "delete") =>
    (\E r \in Manual : Listed(r)) \/ excused \intersect {"resumed", "pruned"} # {}

(* A failed row that is left behind does not keep an item whose book is       *)
(* imported from Completed, whatever polls, retries and runs write meanwhile  *)
(* (managers.py:1156-1159).  A transient failure does: it is PostProcessing   *)
(* before the other rows are looked at (managers.py:1211-1229).               *)
StaleRowHeals ==
  <>[](Imported /\ rows["download"] \in {"importfailed", "failed", "imported"})
    => <>[](status = "Completed")

(* "The Bindery poll owns their state (recoverable failure or Completed once  *)
(* imported)" (tasks.py:1342-1343).                                           *)
CompletedOnceImported == Imported ~> status = "Completed"
=============================================================================
