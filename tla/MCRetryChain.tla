---------------------------- MODULE MCRetryChain ----------------------------
(* Instances of the retry chains for TLC; see the README for the bounds. *)
EXTENDS RetryChain

Everything == Interference
=============================================================================
