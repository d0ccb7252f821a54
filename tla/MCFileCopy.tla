----------------------------- MODULE MCFileCopy -----------------------------
(* Instances of the copy loop for TLC; see the README for the bounds. *)
EXTENDS FileCopy

AnyFault == FaultKinds
=============================================================================
