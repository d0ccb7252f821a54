----------------------------- MODULE MCPipeline -----------------------------
(* Instances of the pipeline for TLC; see the README for the bounds. *)
EXTENDS Pipeline

Nothing == {}
AnyFault == FaultKinds
CopyOnly == {"copy"}
CopyOrPost == {"copy", "post"}
Anywhere == RunPC
WhileListing == {"list"}
WhileCopying == {"open", "fetch", "fetched"}
AnyAction == ActionKinds
=============================================================================
