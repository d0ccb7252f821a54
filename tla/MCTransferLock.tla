--------------------------- MODULE MCTransferLock ---------------------------
(* Instances of the semaphore for TLC; see the README for the bounds. *)
EXTENDS TransferLock

Nowhere == {}
WhileHolding == {"holding"}
Anywhere == {"entered", "refused", "holding", "unguarded"}
=============================================================================
