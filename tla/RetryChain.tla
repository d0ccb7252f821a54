----------------------------- MODULE RetryChain -----------------------------
(***************************************************************************)
(* The retry chains of one item (retry_postprocessing,                     *)
(* itemqueue/tasks.py:1952-2084).  A transfer whose manager post-processing *)
(* failed schedules a retry with attempt 1; a retry that fails schedules   *)
(* the next one and records its number in the item.  Nothing prevents      *)
(* several transfers of one item, hence several chains that share the      *)
(* item's status, attempt_count and last_recovery_at.                      *)
(***************************************************************************)
EXTENDS Integers

CONSTANTS
  Chains,    \* the retry chains that may be under way at the same time
  RetryCap,  \* RETRY_CAP_ATTEMPTS
  Outside    \* what the rest of the program may do to the item meanwhile

Interference == {"status", "marker", "count", "errors", "redelivery"}

ASSUME RetryAssumption ==
  /\ RetryCap \in Nat \ {0}
  /\ Outside \subseteq Interference
  /\ Chains \cap {"stale", "other"} = {}

Statuses == {"Grabbed", "PostProcessing", "Completed", "Failed"}
Stages == {"none", "waiting", "due", "calling"}

VARIABLES
  status,    \* Item.status
  attempts,  \* Item.attempt_count
  marker,    \* who wrote Item.last_recovery_at in the last 60 s, or "stale"
  chain      \* chain[c]: the stage of chain c's retry task and its attempt

vars == <<status, attempts, marker, chain>>

None == [stage |-> "none", attempt |-> 0]
Active(c) == chain[c].stage # "none"
Move(c, stage) == chain' = [chain EXCEPT ![c].stage = stage]
Drop(c) == chain' = [chain EXCEPT ![c] = None]
Await(c, n) == chain' = [chain EXCEPT ![c] = [stage |-> "waiting", attempt |-> n]]
-----------------------------------------------------------------------------
Init ==
  /\ status \in {"Grabbed", "PostProcessing"}
  /\ attempts = 0
  /\ marker = "stale"
  /\ chain = [c \in Chains |-> None]

(* transfer_files_async: post-processing failed, retry in 300 seconds. *)
Schedule(c) ==
  /\ ~Active(c)
  /\ Await(c, 1)
  /\ UNCHANGED <<status, attempts, marker>>

(* Mutant of CountdownEnds: a countdown shorter than the cooldown. *)
CountdownTooShort(c) ==
  /\ chain[c].stage = "waiting"
  /\ Move(c, "due")
  /\ UNCHANGED <<status, attempts, marker>>

(* The countdown of 300 s ends: the marker that was fresh when it began is   *)
(* stale by then, and one written while it ran can be taken to be written    *)
(* after it ended.                                                           *)
CountdownEnds(c) ==
  /\ chain[c].stage = "waiting"
  /\ marker = "stale"
  /\ Move(c, "due")
  /\ UNCHANGED <<status, attempts, marker>>

(* The cap, checked before the attempt is made. *)
Capped(c) ==
  /\ chain[c].stage = "due"
  /\ chain[c].attempt > RetryCap \/ attempts >= RetryCap
  /\ status' = "Failed"
  /\ Drop(c)
  /\ UNCHANGED <<attempts, marker>>

Permitted(c) ==
  /\ chain[c].stage = "due"
  /\ chain[c].attempt <= RetryCap /\ attempts < RetryCap

(* The cooldown, an item that went back to Grabbed, or no completed transfer *)
(* to process: the task returns and the chain ends.                          *)
Skip(c, hasFile) ==
  /\ Permitted(c)
  /\ marker # "stale" \/ status = "Grabbed" \/ ~hasFile
  /\ Drop(c)
  /\ UNCHANGED <<status, attempts, marker>>

(* manager.post_process is called; it may take minutes. *)
Call(c, hasFile) ==
  /\ Permitted(c)
  /\ marker = "stale" /\ status # "Grabbed" /\ hasFile
  /\ Move(c, "calling")
  /\ UNCHANGED <<status, attempts, marker>>

(* A retry that succeeds writes a history line and leaves the item alone. *)
Succeeds(c) ==
  /\ chain[c].stage = "calling"
  /\ Drop(c)
  /\ UNCHANGED <<status, attempts, marker>>

LastFails(c) ==
  /\ chain[c].stage = "calling"
  /\ chain[c].attempt + 1 > RetryCap
  /\ status' = "Failed"
  /\ Drop(c)
  /\ UNCHANGED <<attempts, marker>>

(* Mutants of Fails: no check before the next attempt; the same attempt is  *)
(* queued again.                                                            *)
FailsUnchecked(c) ==
  /\ chain[c].stage = "calling"
  /\ attempts' = chain[c].attempt + 1
  /\ marker' = c
  /\ Await(c, chain[c].attempt + 1)
  /\ UNCHANGED status

FailsWithSameAttempt(c) ==
  /\ chain[c].stage = "calling"
  /\ chain[c].attempt + 1 <= RetryCap
  /\ attempts' = chain[c].attempt + 1
  /\ marker' = c
  /\ Await(c, chain[c].attempt)
  /\ UNCHANGED status

(* The count and the marker are written before the next task is queued. *)
Fails(c) ==
  /\ chain[c].stage = "calling"
  /\ chain[c].attempt + 1 <= RetryCap
  /\ attempts' = chain[c].attempt + 1
  /\ marker' = c
  /\ Await(c, chain[c].attempt + 1)
  /\ UNCHANGED status

(* An exception from post_process, or the death of the worker: the chain    *)
(* ends without a trace in the item.                                        *)
Errors(c) ==
  /\ "errors" \in Outside
  /\ chain[c].stage = "calling"
  /\ Drop(c)
  /\ UNCHANGED <<status, attempts, marker>>

(* The worker restarts during the call: acks_late puts the task back.       *)
Redelivered(c) ==
  /\ "redelivery" \in Outside
  /\ chain[c].stage = "calling"
  /\ Move(c, "due")
  /\ UNCHANGED <<status, attempts, marker>>
-----------------------------------------------------------------------------
(* 60 seconds pass since the marker was written. *)
CooldownElapses ==
  /\ marker # "stale"
  /\ marker' = "stale"
  /\ UNCHANGED <<status, attempts, chain>>

(* What the transfer, the recovery tick, the manager polls and the user do  *)
(* to the columns the chains share: whole-row saves may write back any      *)
(* earlier count and marker.                                                *)
Interfere ==
  /\ status' \in IF "status" \in Outside THEN Statuses ELSE {status}
  /\ marker' \in {marker} \union (IF "marker" \in Outside THEN {"stale", "other"} ELSE {})
  /\ attempts' \in IF "count" \in Outside THEN 0..RetryCap ELSE {attempts}
  /\ UNCHANGED chain

Starts(c) == Capped(c) \/ \E hasFile \in BOOLEAN : Skip(c, hasFile) \/ Call(c, hasFile)
Returns(c) == Succeeds(c) \/ LastFails(c) \/ Fails(c)

Next ==
  \/ \E c \in Chains :
       \/ Schedule(c) \/ CountdownEnds(c) \/ Starts(c) \/ Returns(c)
       \/ Errors(c) \/ Redelivered(c)
  \/ CooldownElapses
  \/ Interfere

Spec == Init /\ [][Next]_vars

(* Time passes, a task that was delivered starts, and not every call is cut *)
(* short by a restart.  The end of a countdown needs strong fairness: it     *)
(* does not wait for the marker, which other tasks may write again and again, *)
(* it only is not modelled while the marker is fresh.                        *)
FairSpec ==
  /\ Spec
  /\ WF_vars(CooldownElapses)
  /\ \A c \in Chains :
       SF_vars(CountdownEnds(c)) /\ WF_vars(Starts(c)) /\ SF_vars(Returns(c))
-----------------------------------------------------------------------------
ChainType ==
  [stage : Stages \ {"none"}, attempt : 1..RetryCap] \union {None}

TypeOK ==
  /\ status \in Statuses
  /\ attempts \in 0..RetryCap
  /\ marker \in {"stale", "other"} \union Chains
  /\ chain \in [Chains -> ChainType]

(* The cooldown that a failing retry writes never swallows the retry that   *)
(* it schedules: only a marker that another chain or the recovery tick wrote *)
(* can make a due retry give up (tasks.py:1987-1993, 2067-2077).             *)
OwnMarkerFades == \A c \in Chains : chain[c].stage = "due" => marker # c

(* Every chain ends: "Hard cap = 3" (itemqueue/models.py:34-37), whatever    *)
(* else happens to the item.                                                 *)
ChainEnds == \A c \in Chains : Active(c) ~> ~Active(c)
=============================================================================
