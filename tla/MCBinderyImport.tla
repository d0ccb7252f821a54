-------------------------- MODULE MCBinderyImport --------------------------
(* Instances of the import for TLC; see the README for the bounds. *)
EXTENDS BinderyImport

AnyFault == FaultKinds
============================================================================
