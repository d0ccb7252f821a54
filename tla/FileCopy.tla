------------------------------ MODULE FileCopy ------------------------------
(***************************************************************************)
(* The copy loop of a transfer run (STEP 2 of transfer_files_async,        *)
(* itemqueue/tasks.py:1071-1169) with its stall watchdog                   *)
(* (_sftp_get_with_timeout, 152-236).  Each try of a file downloads in a   *)
(* thread of its own.  A thread that makes no progress is given up: its    *)
(* stop event is set and the loop goes on, the thread may live on.  Both   *)
(* save the same FileTransfer objects, the thread from a callback that     *)
(* names the loop's variable and so means the file the loop is at.         *)
(***************************************************************************)
EXTENDS Integers

CONSTANTS
  Files,      \* the files to copy
  MaxTries,   \* max_retries
  Faults,     \* what may go wrong
  MaxFaults   \* bound: faults in all

FaultKinds == {"hangs", "breaks", "reconnect", "slow"}

ASSUME CopyAssumption ==
  /\ "none" \notin Files
  /\ MaxTries \in Nat \ {0}
  /\ Faults \subseteq FaultKinds
  /\ MaxFaults \in Nat

VARIABLES
  pc,      \* where the loop is
  todo,    \* the files it has not come to
  file,    \* the file it is at or was at last, the variable "transfer"
  try,     \* the tries of that file
  link,    \* whether the SFTP connection is usable
  object,  \* object[f]: the status in the FileTransfer object of f
  row,     \* row[f]: the status in its row
  disk,    \* disk[f]: its local copy
  thread,  \* thread[f, n]: the thread of the nth try of f
  spent    \* faults so far

vars == <<pc, todo, file, try, link, object, row, disk, thread, spent>>
loopVars == <<pc, todo, file, try, object>>

Threads == Files \X (1..MaxTries)
Statuses == {"pending", "transferring", "completed", "failed"}
NoThread == [pc |-> "none", stop |-> FALSE, stalled |-> FALSE,
             to |-> "none", as |-> "pending", late |-> 0]
Current == <<file, try>>
Alive(t) == thread[t].pc \in {"reads", "checked", "saves"}

Fault(kind) ==
  /\ kind \in Faults /\ spent < MaxFaults
  /\ spent' = spent + 1
NoFault == UNCHANGED spent
SaveAs(f, s) == object' = [object EXCEPT ![f] = s] /\ row' = [row EXCEPT ![f] = s]
-----------------------------------------------------------------------------
Init ==
  /\ pc = "next" /\ todo = Files /\ file = "none" /\ try = 0
  /\ link = TRUE
  /\ object = [f \in Files |-> "pending"]
  /\ row = [f \in Files |-> "pending"]
  /\ disk = [f \in Files |-> "none"]
  /\ thread = [t \in Threads |-> NoThread]
  /\ spent = 0
-----------------------------------------------------------------------------
NextFile ==
  /\ pc = "next"
  /\ \E f \in todo :
       /\ file' = f
       /\ todo' = todo \ {f}
       /\ SaveAs(f, "transferring")
  /\ try' = 0 /\ pc' = "try"
  /\ UNCHANGED <<link, disk, thread, spent>>

(* The thread opens the local file for writing; without a connection that is *)
(* all it does.                                                              *)
StartTry ==
  /\ pc = "try"
  /\ try' = try + 1 /\ pc' = "watch"
  /\ thread' = [thread EXCEPT ![<<file, try + 1>>].pc = IF link THEN "reads" ELSE "raised"]
  /\ disk' = [disk EXCEPT ![file] = "part"]
  /\ UNCHANGED <<todo, file, link, object, row, spent>>

(* Mutant of Copied: what the thread raised is not looked at. *)
CopiedUnraised ==
  /\ pc = "watch" /\ thread[Current].pc \in {"returned", "raised"}
  /\ SaveAs(file, "completed")
  /\ pc' = "next"
  /\ UNCHANGED <<todo, file, try, link, disk, thread, spent>>

Copied ==
  /\ pc = "watch" /\ thread[Current].pc = "returned"
  /\ SaveAs(file, "completed")
  /\ pc' = "next"
  /\ UNCHANGED <<todo, file, try, link, disk, thread, spent>>

(* Mutant of TryFails: one try too many. *)
TryFailsLate ==
  IF try <= MaxTries THEN pc' = "reconnect" /\ UNCHANGED <<object, row>>
                     ELSE pc' = "next" /\ SaveAs(file, "failed")

TryFails ==
  IF try < MaxTries THEN pc' = "reconnect" /\ UNCHANGED <<object, row>>
                    ELSE pc' = "next" /\ SaveAs(file, "failed")

Raised ==
  /\ pc = "watch" /\ thread[Current].pc = "raised"
  /\ TryFails
  /\ UNCHANGED <<todo, file, try, link, disk, thread, spent>>

(* Mutant of GivesUp: it waits for a thread that is still alive. *)
GivesUpDead ==
  /\ pc = "watch" /\ thread[Current].stalled /\ ~Alive(Current)
  /\ thread' = [thread EXCEPT ![Current].stop = TRUE, ![Current].stalled = FALSE]
  /\ link' = FALSE
  /\ TryFails
  /\ UNCHANGED <<todo, file, try, disk, spent>>

(* Mutant of GivesUp: the stop event is not set. *)
GivesUpUnstopped ==
  /\ pc = "watch" /\ thread[Current].stalled
  /\ thread' = [thread EXCEPT ![Current].stalled = FALSE]
  /\ link' = FALSE
  /\ TryFails
  /\ UNCHANGED <<todo, file, try, disk, spent>>

(* No progress, or max_total is over.  A thread that has just ended may pass *)
(* for alive: the loop sleeps between the two.                               *)
GivesUp ==
  /\ pc = "watch" /\ thread[Current].stalled
  /\ thread' = [thread EXCEPT ![Current].stop = TRUE, ![Current].stalled = FALSE]
  /\ link' = FALSE
  /\ TryFails
  /\ UNCHANGED <<todo, file, try, disk, spent>>

(* Only between two tries of one file: the next file inherits the connection *)
(* as the last try left it.                                                  *)
Reconnect ==
  /\ pc = "reconnect"
  /\ \/ NoFault /\ link' = TRUE
     \/ Fault("reconnect") /\ link' = FALSE
  /\ pc' = "try"
  /\ UNCHANGED <<todo, file, try, object, row, disk, thread>>

LoopEnds ==
  /\ pc = "next" /\ todo = {}
  /\ pc' = "done"
  /\ UNCHANGED <<todo, file, try, link, object, row, disk, thread, spent>>
-----------------------------------------------------------------------------
ThreadKeeps == UNCHANGED <<loopVars, spent>>

(* Mutant of Progress: the stop event is not looked at. *)
ProgressUnchecked(t) ==
  /\ thread[t].pc = "reads"
  /\ thread' = [thread EXCEPT ![t].pc = "checked", ![t].stalled = FALSE]
  /\ ThreadKeeps /\ UNCHANGED <<link, row, disk>>

(* Bytes arrived: the callback finds no stop event and notes the progress. *)
Progress(t) ==
  /\ thread[t].pc = "reads" /\ ~thread[t].stop
  /\ thread' = [thread EXCEPT ![t].pc = "checked", ![t].stalled = FALSE]
  /\ ThreadKeeps /\ UNCHANGED <<link, row, disk>>

(* Less than a megabyte since the last save. *)
Throttled(t) ==
  /\ thread[t].pc = "checked"
  /\ thread' = [thread EXCEPT ![t].pc = "reads"]
  /\ ThreadKeeps /\ UNCHANGED <<link, row, disk>>

(* transfer.save(): the statement is made from the object, then executed. *)
MakeSave(t) ==
  /\ thread[t].pc = "checked"
  /\ thread' = [thread EXCEPT ![t].pc = "saves", ![t].to = file, ![t].as = object[file]]
  /\ ThreadKeeps /\ UNCHANGED <<link, row, disk>>

ExecuteSave(t) ==
  /\ thread[t].pc = "saves"
  /\ row' = [row EXCEPT ![thread[t].to] = thread[t].as]
  /\ thread' = [thread EXCEPT ![t].pc = "reads", ![t].to = "none", ![t].as = "pending",
                              ![t].late = IF thread[t].stop THEN thread[t].late + 1 ELSE 0]
  /\ ThreadKeeps /\ UNCHANGED <<link, disk>>

(* paramiko: the whole file, with the size checked. *)
Returns(t) ==
  /\ thread[t].pc = "reads" /\ ~thread[t].stop
  /\ thread' = [thread EXCEPT ![t].pc = "returned"]
  /\ disk' = [disk EXCEPT ![t[1]] = "whole"]
  /\ ThreadKeeps /\ UNCHANGED <<link, row>>

(* The channel of a thread that was given up is closed. *)
Raises(t) ==
  /\ thread[t].pc = "reads"
  /\ \/ thread[t].stop /\ NoFault /\ UNCHANGED link
     \/ ~thread[t].stop /\ Fault("breaks") /\ link' \in {link, FALSE}
  /\ thread' = [thread EXCEPT ![t].pc = "raised"]
  /\ UNCHANGED <<loopVars, row, disk>>

Hangs(t) ==
  /\ Alive(t) /\ ~thread[t].stop /\ ~thread[t].stalled
  /\ Fault("hangs")
  /\ thread' = [thread EXCEPT ![t].stalled = TRUE]
  /\ UNCHANGED <<loopVars, link, row, disk>>
-----------------------------------------------------------------------------
InTry == pc \in {"try", "watch", "reconnect"}
Copying(f) == file = f /\ InTry

(* check_stalled_transfers: a row that was not saved for five minutes; one of *)
(* a file that is being copied only if that is slow.                          *)
StallCheck(f) ==
  /\ row[f] = "transferring"
  /\ IF Copying(f) THEN Fault("slow") ELSE NoFault
  /\ row' = [row EXCEPT ![f] = "failed"]
  /\ UNCHANGED <<loopVars, link, disk, thread>>
-----------------------------------------------------------------------------
LoopStep == NextFile \/ StartTry \/ Copied \/ Raised \/ GivesUp \/ Reconnect \/ LoopEnds
CallbackStep(t) == Throttled(t) \/ MakeSave(t) \/ ExecuteSave(t)

Next ==
  \/ LoopStep
  \/ \E t \in Threads : Progress(t) \/ CallbackStep(t) \/ Returns(t) \/ Raises(t) \/ Hangs(t)
  \/ \E f \in Files : StallCheck(f)

Spec == Init /\ [][Next]_vars
Runs(t) == ~thread[t].stalled /\ ~thread[t].stop

(* The loop goes on, beat ticks, and a thread that does not hang copies.  One *)
(* that hangs or was given up may go on or not.                               *)
FairSpec ==
  /\ Spec
  /\ WF_vars(LoopStep)
  /\ \A f \in Files : WF_vars(StallCheck(f))
  /\ \A t \in Threads : WF_vars(Runs(t) /\ CallbackStep(t)) /\ SF_vars(Runs(t) /\ Returns(t))
-----------------------------------------------------------------------------
TypeOK ==
  /\ pc \in {"next", "try", "watch", "reconnect", "done"}
  /\ todo \subseteq Files /\ file \in Files \union {"none"} /\ try \in 0..MaxTries
  /\ link \in BOOLEAN
  /\ object \in [Files -> Statuses] /\ row \in [Files -> Statuses]
  /\ disk \in [Files -> {"none", "part", "whole"}]
  /\ thread \in [Threads ->
       [pc : {"none", "reads", "checked", "saves", "returned", "raised"},
        stop : BOOLEAN, stalled : BOOLEAN,
        to : Files \union {"none"}, as : Statuses, late : 0..2]]
  /\ spent \in 0..MaxFaults

(* A row says completed only if the copy is whole, whichever threads of       *)
(* earlier tries or files still save objects that are not theirs              *)
(* (tasks.py:1085-1101, 1117-1121).                                           *)
CompletedIsWhole == \A f \in Files : row[f] = "completed" => disk[f] = "whole"

(* "The progress_callback's stop_event prevents the leaked thread from        *)
(* corrupting the FileTransfer row" (tasks.py:170-172), but for one save: the *)
(* callback that had passed the check.                                        *)
OneLateSave == \A t \in Threads : thread[t].late <= 1

(* Every try ends, whether the thread hangs or not, and a row that a late     *)
(* save puts in flight again does not stay so (tasks.py:188-236, 1881-1899).  *)
Settles == <>[](\A f \in Files : row[f] \in {"completed", "failed"})

(* Seen in the rows and on the disk the loop does what FileOutcome says:     *)
(* whatever hangs, a try that was given up writes no local file and saves    *)
(* one row at most (tasks.py:1071-1169, 152-236).                            *)
Left(t) ==
  IF ~thread[t].stop THEN "none"
  ELSE IF thread[t].pc \in {"checked", "saves"} THEN "saves" ELSE "gone"
At == IF InTry THEN file ELSE "none"
Stray == [t \in Threads |-> Left(t)]
Outcome == INSTANCE FileOutcome WITH Tries <- Threads, at <- At, stray <- Stray
ImplementsFileOutcome == Outcome!Spec
=============================================================================
