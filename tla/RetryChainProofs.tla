-------------------------- MODULE RetryChainProofs --------------------------
(***************************************************************************)
(* Proofs about the retry chains, for any set of chains, any cap and any   *)
(* interference of the rest of the program.                                *)
(***************************************************************************)
EXTENDS RetryChain, TLAPS

(* A step of the task of one chain. *)
ChainStep(c) ==
  \/ Schedule(c) \/ CountdownEnds(c) \/ Starts(c) \/ Returns(c)
  \/ Errors(c) \/ Redelivered(c)

(* What the task of a chain does to its own chain and to the shared columns; *)
(* the other chains it leaves alone.                                         *)
LEMMA ChainStepFrame ==
  ASSUME TypeOK, NEW c \in Chains, ChainStep(c)
  PROVE  /\ \E k \in ChainType : chain' = [chain EXCEPT ![c] = k]
         /\ status' \in {status, "Failed"}
         /\ attempts' \in 0..RetryCap
         /\ marker' \in {marker, c}
<1> USE RetryAssumption DEF TypeOK, ChainType, None, Move, Drop, Await, Stages
<1>0. chain[c] \in ChainType
  OBVIOUS
<1>1. CASE Schedule(c)
  <2>1. [stage |-> "waiting", attempt |-> 1] \in ChainType
    OBVIOUS
  <2>2. QED
    BY <1>1, <2>1 DEF Schedule
<1>2. ASSUME NEW s \in {"due", "calling"}, Move(c, s), Active(c) PROVE
        \E k \in ChainType : chain' = [chain EXCEPT ![c] = k]
  <2>1. [chain[c] EXCEPT !.stage = s] \in ChainType
    BY <1>0, <1>2 DEF Active
  <2>2. chain' = [chain EXCEPT ![c] = [chain[c] EXCEPT !.stage = s]]
    BY <1>2
  <2>3. QED
    BY <2>1, <2>2
<1>3. CASE CountdownEnds(c) \/ Redelivered(c)
  <2>1. Move(c, "due") /\ Active(c) /\ UNCHANGED <<status, attempts, marker>>
    BY <1>3 DEF CountdownEnds, Redelivered, Active
  <2>2. \E k \in ChainType : chain' = [chain EXCEPT ![c] = k]
    BY <1>2, <2>1
  <2>3. QED
    BY <2>1, <2>2
<1>4. CASE \E hasFile \in BOOLEAN : Call(c, hasFile)
  <2>1. Move(c, "calling") /\ Active(c) /\ UNCHANGED <<status, attempts, marker>>
    BY <1>4 DEF Call, Permitted, Active
  <2>2. \E k \in ChainType : chain' = [chain EXCEPT ![c] = k]
    BY <1>2, <2>1
  <2>3. QED
    BY <2>1, <2>2
<1>5. CASE \/ Capped(c) \/ \E hasFile \in BOOLEAN : Skip(c, hasFile)
           \/ Succeeds(c) \/ LastFails(c) \/ Errors(c)
  BY <1>5 DEF Capped, Skip, Succeeds, LastFails, Errors
<1>6. CASE Fails(c)
  <2>1. chain[c].attempt + 1 \in 1..RetryCap
    BY <1>0, <1>6 DEF Fails
  <2>2. [stage |-> "waiting", attempt |-> chain[c].attempt + 1] \in ChainType
    BY <2>1
  <2>3. \E k \in ChainType : chain' = [chain EXCEPT ![c] = k]
    BY <1>6, <2>2 DEF Fails
  <2>4. status' = status /\ attempts' \in 0..RetryCap /\ marker' = c
    BY <1>6, <2>1 DEF Fails
  <2>5. QED
    BY <2>3, <2>4
<1>7. QED
  BY <1>1, <1>3, <1>4, <1>5, <1>6 DEF ChainStep, Starts, Returns

LEMMA NextCases ==
  ASSUME Next
  PROVE  (\E c \in Chains : ChainStep(c)) \/ CooldownElapses \/ Interfere
BY DEF Next, ChainStep

(* No retry task carries an attempt beyond the cap, and the count in the    *)
(* item stays within it, whatever whole-row saves write back.               *)
THEOREM TypeCorrect == Spec => []TypeOK
<1>1. Init => TypeOK
  BY RetryAssumption DEF Init, TypeOK, Statuses, ChainType, None
<1>2. TypeOK /\ [Next]_vars => TypeOK'
  <2> SUFFICES ASSUME TypeOK, [Next]_vars PROVE TypeOK'
    OBVIOUS
  <2>1. CASE UNCHANGED vars
    BY <2>1 DEF vars, TypeOK
  <2>2. ASSUME NEW c \in Chains, ChainStep(c) PROVE TypeOK'
    BY <2>2, ChainStepFrame DEF TypeOK, Statuses
  <2>3. CASE CooldownElapses
    BY <2>3 DEF CooldownElapses, TypeOK
  <2>4. CASE Interfere
    <3>1. status' \in Statuses
      BY <2>4 DEF Interfere, TypeOK
    <3>2. attempts' \in 0..RetryCap
      BY <2>4 DEF Interfere, TypeOK
    <3>3. marker' \in {"stale", "other"} \union Chains
      BY <2>4 DEF Interfere, TypeOK
    <3>4. QED
      BY <2>4, <3>1, <3>2, <3>3 DEF Interfere, TypeOK
  <2>5. QED
    BY <2>1, <2>2, <2>3, <2>4, NextCases
<1>3. QED
  BY <1>1, <1>2, PTL DEF Spec
-----------------------------------------------------------------------------
(* Why the cooldown of a chain never meets its own retry: as long as the    *)
(* marker it wrote is fresh, the retry it scheduled is still counting down. *)
OwnMarkerMeansWaiting ==
  \A c \in Chains : marker = c => chain[c].stage = "waiting"

(* A due retry is never swallowed by the cooldown its own chain wrote.      *)
THEOREM OwnMarkerNeverBlocks == Spec => []OwnMarkerFades
<1> USE RetryAssumption
<1>1. Init => OwnMarkerMeansWaiting
  BY DEF Init, OwnMarkerMeansWaiting
<1>2. TypeOK /\ OwnMarkerMeansWaiting /\ [Next]_vars => OwnMarkerMeansWaiting'
  <2> SUFFICES ASSUME TypeOK, OwnMarkerMeansWaiting, [Next]_vars,
                      NEW d \in Chains, marker' = d
               PROVE  chain'[d].stage = "waiting"
    BY DEF OwnMarkerMeansWaiting
  <2>0. chain \in [Chains -> ChainType] /\ "stale" # d /\ "other" # d
    BY DEF TypeOK
  <2>1. CASE UNCHANGED vars
    BY <2>1 DEF vars, OwnMarkerMeansWaiting
  <2>2. ASSUME NEW c \in Chains, ChainStep(c) PROVE chain'[d].stage = "waiting"
    <3>1. CASE marker = d /\ c # d
      BY <2>0, <2>2, <3>1, ChainStepFrame DEF OwnMarkerMeansWaiting
    <3>2. CASE marker = d /\ c = d
      BY <2>0, <2>2, <3>2
      DEF OwnMarkerMeansWaiting, ChainStep, Schedule, CountdownEnds, Starts, Returns,
          Capped, Skip, Call, Permitted, Succeeds, LastFails, Fails, Errors, Redelivered,
          Active
    <3>3. CASE marker # d
      <4>1. Fails(c) /\ c = d
        BY <2>2, <3>3
        DEF ChainStep, Schedule, CountdownEnds, Starts, Returns, Capped, Skip, Call,
            Succeeds, LastFails, Fails, Errors, Redelivered
      <4>2. QED
        BY <2>0, <4>1 DEF Fails, Await
    <3>4. QED
      BY <3>1, <3>2, <3>3
  <2>3. CASE CooldownElapses
    BY <2>0, <2>3 DEF CooldownElapses
  <2>4. CASE Interfere
    <3>1. marker = d
      BY <2>0, <2>4 DEF Interfere
    <3>2. QED
      BY <2>4, <3>1 DEF Interfere, OwnMarkerMeansWaiting
  <2>5. QED
    BY <2>1, <2>2, <2>3, <2>4, NextCases
<1>3. OwnMarkerMeansWaiting => OwnMarkerFades
  BY DEF OwnMarkerMeansWaiting, OwnMarkerFades
<1>4. QED
  BY <1>1, <1>2, <1>3, TypeCorrect, PTL DEF Spec
=============================================================================
