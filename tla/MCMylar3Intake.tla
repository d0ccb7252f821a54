--------------------------- MODULE MCMylar3Intake ---------------------------
(* Instances of the intake for TLC; see the README for the bounds. *)
EXTENDS Mylar3Intake

EverySecond == {1}
AnyFault == FaultKinds
=============================================================================
