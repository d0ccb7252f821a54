----------------------------- MODULE FileOutcome -----------------------------
(***************************************************************************)
(* What the copy of the files of one transfer looks like from outside, in  *)
(* the FileTransfer rows and the local files (itemqueue/tasks.py:1071-1169) *)
(* without the tries, connections and threads of FileCopy.  Each file is   *)
(* begun once, one at a time; only the copy under way truncates or writes  *)
(* a local file; completed is saved over a whole copy only.  What remains  *)
(* of a try that was given up is one save at most, of an outcome that a    *)
(* file begun so far has or had, never a wrong completed.                  *)
(***************************************************************************)
CONSTANTS
  Files,
  Tries   \* names for the tries

VARIABLES
  row, disk,  \* see FileCopy
  at,         \* the file that is being copied, or "none"
  stray       \* stray[t]: what try t may still do to the rows

Init ==
  /\ row = [f \in Files |-> "pending"]
  /\ disk = [f \in Files |-> "none"]
  /\ at = "none"
  /\ stray = [t \in Tries |-> "none"]

Save(f, s) == row' = [row EXCEPT ![f] = s]

Begin(f) ==
  /\ at = "none" /\ row[f] = "pending"
  /\ Save(f, "transferring") /\ at' = f
  /\ UNCHANGED <<disk, stray>>

(* A try starts from nothing, and brings the whole file or does not. *)
Write ==
  /\ at # "none"
  /\ \E d \in {"part", "whole"} : disk' = [disk EXCEPT ![at] = d]
  /\ UNCHANGED <<row, at, stray>>

Report ==
  /\ at # "none"
  /\ Save(at, "transferring")
  /\ UNCHANGED <<disk, at, stray>>

Complete ==
  /\ at # "none" /\ disk[at] = "whole"
  /\ Save(at, "completed") /\ at' = "none"
  /\ UNCHANGED <<disk, stray>>

(* The thread of a try is left alone, before the save of its last callback  *)
(* or outside of it; each try once.                                         *)
Abandon(t) ==
  /\ stray[t] = "none"
  /\ \E s \in {"saves", "gone"} : stray' = [stray EXCEPT ![t] = s]

GiveUp(t) ==
  /\ at # "none" /\ Abandon(t)
  /\ UNCHANGED <<row, disk, at>>

Fail ==
  /\ at # "none"
  /\ Save(at, "failed") /\ at' = "none"
  /\ UNCHANGED stray \/ \E t \in Tries : Abandon(t)
  /\ UNCHANGED disk

LateSave(t) ==
  /\ stray[t] = "saves"
  /\ \E f \in Files, s \in {"transferring", "completed", "failed"} :
       /\ row[f] # "pending"
       /\ f = at => s = "transferring"
       /\ s = "completed" => disk[f] = "whole"
       /\ Save(f, s)
  /\ stray' = [stray EXCEPT ![t] = "gone"]
  /\ UNCHANGED <<disk, at>>

Fade(t) ==
  /\ stray[t] = "saves"
  /\ stray' = [stray EXCEPT ![t] = "gone"]
  /\ UNCHANGED <<row, disk, at>>

(* check_stalled_transfers *)
Stall(f) ==
  /\ row[f] = "transferring"
  /\ Save(f, "failed")
  /\ UNCHANGED <<disk, at, stray>>

Next ==
  \/ \E f \in Files : Begin(f) \/ Stall(f)
  \/ Write \/ Report \/ Complete \/ Fail
  \/ \E t \in Tries : GiveUp(t) \/ LateSave(t) \/ Fade(t)

vars == <<row, disk, at, stray>>
Spec == Init /\ [][Next]_vars
=============================================================================
