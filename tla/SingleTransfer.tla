--------------------------- MODULE SingleTransfer ---------------------------
(***************************************************************************)
(* What the per-hash semaphore of transfer_files_async promises: of the    *)
(* tasks queued for one item, at most one at a time is past the gate and   *)
(* doing the transfer (itemqueue/tasks.py:547-552, "Closes the             *)
(* duplicate-work race").  A task leaves when it ends or when its worker   *)
(* dies.                                                                   *)
(***************************************************************************)
CONSTANT Workers

VARIABLE busy   \* the workers transferring the item

Init == busy = {}

Enter(w) == busy = {} /\ busy' = {w}

Leave(w) == w \in busy /\ busy' = busy \ {w}

Next == \E w \in Workers : Enter(w) \/ Leave(w)

Spec == Init /\ [][Next]_busy
=============================================================================
