------------------------- MODULE TransferLockProofs -------------------------
(***************************************************************************)
(* Proofs about the per-hash semaphore, for any finite set of workers.     *)
(* TypeOK and DriftIsBounded hold whatever the environment does.  As long  *)
(* as the key outlives every task that is counted at it, one task at most  *)
(* owns the slot and is counted, even if workers die and commands fail     *)
(* anywhere; mutual exclusion needs a Redis that answers besides.          *)
(***************************************************************************)
EXTENDS TransferLock, FiniteSetTheorems, TLAPS

(* The key neither lapses nor is flushed while a task is counted at it. *)
KeyOutlivesTasks == LapseDuring \intersect Inside = {} /\ Flushes = FALSE

(* No Redis command fails. *)
RedisAnswers == RedisFails = FALSE

(* Every step but those of the environment, by the worker that takes it. *)
WorkerStep(w) ==
  \/ Incr(w) \/ SetLease(w) \/ Refuse(w) \/ Finish(w) \/ FinishUnguarded(w)
  \/ GuardFails(w) \/ FinishFails(w) \/ Crash(w)
-----------------------------------------------------------------------------
(* A step is one worker's step, the expiry of the key or a flush: the shape *)
(* in which the proofs below split the next-state relation.                 *)
LEMMA NextCases ==
  ASSUME Next
  PROVE  (\E w \in Workers : WorkerStep(w)) \/ Lapse \/ Flush
BY DEF Next, WorkerStep, TaskStep

(* What any worker's step does to the key and to its own position.          *)
LEMMA WorkerStepFrame ==
  ASSUME TypeOK, NEW w \in Workers, WorkerStep(w)
  PROVE  /\ count' \in {count - 1, count, count + 1}
         /\ ttl' \in {"absent", "unset", "running"}
         /\ ttl' = "absent" => count' = 0
         /\ cut' \subseteq Workers
         /\ \E l \in PC : pc' = [pc EXCEPT ![w] = l]
<1> USE DEF TypeOK, AddToKey, PerhapsAddToKey, Goto, PC, Inside
<1>1. CASE Incr(w) BY <1>1 DEF Incr
<1>2. CASE SetLease(w) BY <1>2 DEF SetLease
<1>3. CASE Refuse(w) BY <1>3 DEF Refuse
<1>4. CASE Finish(w) BY <1>4 DEF Finish
<1>5. CASE FinishUnguarded(w) BY <1>5 DEF FinishUnguarded
<1>6. CASE GuardFails(w) BY <1>6 DEF GuardFails
<1>7. CASE FinishFails(w) BY <1>7 DEF FinishFails
<1>8. CASE Crash(w) BY <1>8 DEF Crash
<1>9. QED BY <1>1, <1>2, <1>3, <1>4, <1>5, <1>6, <1>7, <1>8 DEF WorkerStep

(* The count at the key, the key's time to live and every worker's position *)
(* keep their types, and a key that does not exist counts nobody.           *)
THEOREM TypeCorrect == Spec => []TypeOK
<1>1. Init => TypeOK
  BY DEF Init, TypeOK, PC
<1>2. TypeOK /\ [Next]_vars => TypeOK'
  <2> SUFFICES ASSUME TypeOK, [Next]_vars PROVE TypeOK'
    OBVIOUS
  <2>1. CASE UNCHANGED vars
    BY <2>1 DEF TypeOK, vars
  <2>2. ASSUME NEW w \in Workers, WorkerStep(w) PROVE TypeOK'
    BY <2>2, WorkerStepFrame DEF TypeOK
  <2>3. CASE Lapse \/ Flush
    BY <2>3 DEF Lapse, Flush, RemoveKey, TypeOK
  <2>4. QED
    BY <2>1, <2>2, <2>3, NextCases
<1>3. QED
  BY <1>1, <1>2, PTL DEF Spec
-----------------------------------------------------------------------------
(* Moving one worker moves at most that worker in or out of Counted.        *)
LEMMA CountedMoves ==
  ASSUME TypeOK, NEW w \in Workers, NEW l \in PC, pc' = [pc EXCEPT ![w] = l]
  PROVE  /\ IsFiniteSet(Counted)
         /\ Cardinality(Counted) \in Nat
         /\ IF l \in Inside THEN Counted' = Counted \union {w}
                            ELSE Counted' = Counted \ {w}
         /\ l \in Inside /\ pc[w] \notin Inside =>
              Cardinality(Counted') = Cardinality(Counted) + 1
         /\ l \notin Inside /\ pc[w] \in Inside =>
              Cardinality(Counted') = Cardinality(Counted) - 1
         /\ (l \in Inside <=> pc[w] \in Inside) =>
              Cardinality(Counted') = Cardinality(Counted)
<1>1. IsFiniteSet(Counted)
  BY EnvironmentAssumption, FS_Subset DEF Counted
<1>2. IF l \in Inside THEN Counted' = Counted \union {w}
                      ELSE Counted' = Counted \ {w}
  BY DEF Counted, TypeOK
<1>3. w \in Counted <=> pc[w] \in Inside
  BY DEF Counted
<1>4. Cardinality(Counted) \in Nat
  BY <1>1, FS_CardinalityType
<1>5. Cardinality(Counted \union {w}) =
        IF w \in Counted THEN Cardinality(Counted) ELSE Cardinality(Counted) + 1
  BY <1>1, FS_AddElement
<1>6. Cardinality(Counted \ {w}) =
        IF w \in Counted THEN Cardinality(Counted) - 1 ELSE Cardinality(Counted)
  BY <1>1, FS_RemoveElement
<1>7. QED
  BY <1>1, <1>2, <1>3, <1>4, <1>5, <1>6

(* The three ways a step moves Counted, in the form the proofs below use.    *)
LEMMA EntersCounted ==
  ASSUME TypeOK, NEW w \in Workers, pc[w] \notin Inside,
         \E l \in Inside : pc' = [pc EXCEPT ![w] = l]
  PROVE  Cardinality(Counted)' = Cardinality(Counted) + 1
<1>1. PICK l \in Inside : pc' = [pc EXCEPT ![w] = l]
  OBVIOUS
<1>2. l \in PC
  BY DEF PC
<1>3. QED
  BY <1>1, <1>2, CountedMoves

LEMMA LeavesCounted ==
  ASSUME TypeOK, NEW w \in Workers, pc[w] \in Inside,
         \E l \in PC \ Inside : pc' = [pc EXCEPT ![w] = l]
  PROVE  Cardinality(Counted)' = Cardinality(Counted) - 1
<1>1. PICK l \in PC \ Inside : pc' = [pc EXCEPT ![w] = l]
  OBVIOUS
<1>2. QED
  BY <1>1, CountedMoves

LEMMA StaysCounted ==
  ASSUME TypeOK, NEW w \in Workers,
         \E l \in PC : /\ pc' = [pc EXCEPT ![w] = l]
                       /\ l \in Inside <=> pc[w] \in Inside
  PROVE  Cardinality(Counted)' = Cardinality(Counted)
<1>1. PICK l \in PC : /\ pc' = [pc EXCEPT ![w] = l]
                      /\ l \in Inside <=> pc[w] \in Inside
  OBVIOUS
<1>2. QED
  BY <1>1, CountedMoves

LEMMA CountedFinite ==
  ASSUME TypeOK
  PROVE  /\ IsFiniteSet(Counted)
         /\ Cardinality(Counted) \in Nat
         /\ Cardinality(Counted) <= Cardinality(Workers)
         /\ Cardinality(Workers) \in Nat
BY EnvironmentAssumption, FS_Subset, FS_CardinalityType DEF Counted

(* Every worker's step moves the key and Counted together, or moves only one *)
(* of them, towards a count that is too high.                                *)
LEMMA WorkerStepCount ==
  ASSUME TypeOK, NEW w \in Workers, WorkerStep(w)
  PROVE  \/ count' = count + 1 /\ Cardinality(Counted)' = Cardinality(Counted) + 1
         \/ count' >= count - 1 /\ count' \in Int
            /\ Cardinality(Counted)' = Cardinality(Counted) - 1
         \/ count' >= count /\ count' \in Int
            /\ Cardinality(Counted)' = Cardinality(Counted)
<1>0. count \in Int
  BY DEF TypeOK
<1>1. CASE Incr(w)
  <2>1. count' = count + 1 /\ pc[w] \notin Inside
        /\ \E l \in Inside : pc' = [pc EXCEPT ![w] = l]
    BY <1>1 DEF Incr, Inside, PC, Goto, AddToKey, PerhapsAddToKey
  <2>2. Cardinality(Counted)' = Cardinality(Counted) + 1
    BY <2>1, EntersCounted
  <2>3. QED
    BY <2>1, <2>2
<1>2. CASE SetLease(w)
  <2>1. \E l \in PC : pc' = [pc EXCEPT ![w] = l] /\ (l \in Inside <=> pc[w] \in Inside)
    BY <1>2 DEF SetLease, Inside, PC, Goto, AddToKey, PerhapsAddToKey
  <2>2. Cardinality(Counted)' = Cardinality(Counted)
    BY <2>1, StaysCounted
  <2>3. count' = count
    BY <1>2 DEF SetLease
  <2>4. QED
    BY <2>2, <2>3, <1>0
<1>3. CASE Refuse(w) \/ Finish(w) \/ FinishFails(w)
  <2>1. /\ count' \in {count - 1, count} /\ pc[w] \in Inside
        /\ \E l \in PC \ Inside : pc' = [pc EXCEPT ![w] = l]
    BY <1>3 DEF Refuse, Finish, FinishFails, Inside, PC, Goto, AddToKey, PerhapsAddToKey
  <2>2. Cardinality(Counted)' = Cardinality(Counted) - 1
    BY <2>1, LeavesCounted
  <2>3. count' >= count - 1 /\ count' \in Int
    BY <2>1, <1>0
  <2>4. QED
    BY <2>2, <2>3
<1>4. CASE FinishUnguarded(w)
  <2>1. \E l \in PC : pc' = [pc EXCEPT ![w] = l] /\ (l \in Inside <=> pc[w] \in Inside)
    BY <1>4 DEF FinishUnguarded, Inside, PC, Goto, AddToKey, PerhapsAddToKey
  <2>2. Cardinality(Counted)' = Cardinality(Counted)
    BY <2>1, StaysCounted
  <2>3. count' = count
    BY <1>4 DEF FinishUnguarded
  <2>4. QED
    BY <2>2, <2>3, <1>0
<1>5. CASE GuardFails(w) /\ pc[w] = "idle"
  <2>1. /\ count' \in {count, count + 1}
        /\ \E l \in PC : pc' = [pc EXCEPT ![w] = l] /\ (l \in Inside <=> pc[w] \in Inside)
    BY <1>5 DEF GuardFails, Inside, PC, Goto, AddToKey, PerhapsAddToKey
  <2>2. Cardinality(Counted)' = Cardinality(Counted)
    BY <2>1, StaysCounted
  <2>3. count' >= count /\ count' \in Int
    BY <2>1, <1>0
  <2>4. QED
    BY <2>2, <2>3
<1>6. CASE GuardFails(w) /\ pc[w] # "idle"
  <2>1. /\ count' \in {count - 1, count} /\ pc[w] \in Inside
        /\ \E l \in PC \ Inside : pc' = [pc EXCEPT ![w] = l]
    BY <1>6 DEF GuardFails, Inside, PC, Goto, AddToKey, PerhapsAddToKey
  <2>2. Cardinality(Counted)' = Cardinality(Counted) - 1
    BY <2>1, LeavesCounted
  <2>3. count' >= count - 1 /\ count' \in Int
    BY <2>1, <1>0
  <2>4. QED
    BY <2>2, <2>3
<1>7. CASE Crash(w)
  <2>1. count' = count /\ pc' = [pc EXCEPT ![w] = "idle"]
    BY <1>7 DEF Crash, Goto
  <2>0. "idle" \in PC \ Inside
    BY DEF PC, Inside
  <2>2. CASE pc[w] \in Inside
    <3>1. Cardinality(Counted)' = Cardinality(Counted) - 1
      BY <2>0, <2>1, <2>2, LeavesCounted
    <3>2. count' >= count - 1 /\ count' \in Int
      BY <2>1, <1>0
    <3>3. QED
      BY <3>1, <3>2
  <2>3. CASE pc[w] \notin Inside
    <3>1. Cardinality(Counted)' = Cardinality(Counted)
      BY <2>0, <2>1, <2>3, StaysCounted
    <3>2. QED
      BY <3>1, <2>1, <1>0
  <2>4. QED
    BY <2>2, <2>3
<1>8. QED
  BY <1>1, <1>2, <1>3, <1>4, <1>5, <1>6, <1>7 DEF WorkerStep

(* Whatever lapses, flushes, errors and deaths do, the key never undercounts *)
(* the tasks in flight by more than the size of the worker pool.             *)
THEOREM DriftBounded == Spec => []DriftIsBounded
<1>1. Init => DriftIsBounded
  <2> SUFFICES ASSUME Init PROVE DriftIsBounded
    OBVIOUS
  <2>1. Counted = {}
    BY DEF Init, Counted, Inside
  <2>2. Cardinality(Workers) \in Nat
    BY EnvironmentAssumption, FS_CardinalityType
  <2>3. QED
    BY <2>1, <2>2, FS_EmptySet DEF Init, DriftIsBounded
<1>2. TypeOK /\ DriftIsBounded /\ [Next]_vars => DriftIsBounded'
  <2> SUFFICES ASSUME TypeOK, DriftIsBounded, [Next]_vars
               PROVE  DriftIsBounded'
    OBVIOUS
  <2>0. /\ count \in Int /\ Cardinality(Workers) \in Nat
        /\ Cardinality(Counted) \in Nat /\ Cardinality(Counted) <= Cardinality(Workers)
    BY CountedFinite DEF TypeOK
  <2>1. CASE UNCHANGED vars
    BY <2>1 DEF vars, Counted, DriftIsBounded
  <2>2. ASSUME NEW w \in Workers, WorkerStep(w) PROVE DriftIsBounded'
    <3>1. \/ count' = count + 1 /\ Cardinality(Counted)' = Cardinality(Counted) + 1
          \/ count' >= count - 1 /\ count' \in Int
             /\ Cardinality(Counted)' = Cardinality(Counted) - 1
          \/ count' >= count /\ count' \in Int
             /\ Cardinality(Counted)' = Cardinality(Counted)
      BY <2>2, <2>0, WorkerStepCount
    <3>2. QED
      BY <3>1, <2>0 DEF DriftIsBounded
  <2>3. CASE Lapse \/ Flush
    <3>1. count' = 0 /\ Counted' = Counted
      BY <2>3 DEF Lapse, Flush, RemoveKey, Counted
    <3>2. QED
      BY <3>1, <2>0 DEF DriftIsBounded
  <2>4. QED
    BY <2>1, <2>2, <2>3, NextCases
<1>3. QED
  BY <1>1, <1>2, TypeCorrect, PTL DEF Spec
-----------------------------------------------------------------------------
(* The inductive invariant behind mutual exclusion: the key counts at least *)
(* the tasks between their INCR and their DECR, and one of them at most     *)
(* owns the slot.  A failed command only ever leaves the count too high.    *)
OneOwner == \A v, w \in Owners : v = w
Safe == count >= Cardinality(Counted) /\ OneOwner

(* No task got past the gate without it. *)
Guarded == At("unguarded") = {}

LEMMA InitSafe == Init => Safe /\ Guarded
<1> SUFFICES ASSUME Init PROVE Safe /\ Guarded
  OBVIOUS
<1>1. Counted = {} /\ Owners = {} /\ At("unguarded") = {}
  BY DEF Init, Counted, Inside, Owners, At
<1>2. QED
  BY <1>1, FS_EmptySet DEF Init, Safe, OneOwner, Guarded

(* A worker's step keeps Safe, whether Redis answers or not.  Only INCR can *)
(* make an owner, and it does so only on a key that counted nobody.         *)
LEMMA WorkerStepSafe ==
  ASSUME TypeOK, Safe, NEW w \in Workers, WorkerStep(w)
  PROVE  Safe'
<1>0. /\ count \in Int /\ pc \in [Workers -> PC]
      /\ IsFiniteSet(Counted) /\ Cardinality(Counted) \in Nat
  BY CountedFinite DEF TypeOK
<1>1. count' >= Cardinality(Counted)'
  <2>1. \/ count' = count + 1 /\ Cardinality(Counted)' = Cardinality(Counted) + 1
        \/ count' >= count - 1 /\ count' \in Int
           /\ Cardinality(Counted)' = Cardinality(Counted) - 1
        \/ count' >= count /\ count' \in Int
           /\ Cardinality(Counted)' = Cardinality(Counted)
    BY WorkerStepCount
  <2>2. QED
    BY <2>1, <1>0 DEF Safe
<1> USE DEF PC, Inside, Owners, At
<1>2. OneOwner'
  <2>1. CASE Incr(w) /\ ~(count + 1 > 1)
    <3>1. pc' = [pc EXCEPT ![w] = "entered"]
      BY <2>1 DEF Incr, Goto
    <3>2. Counted = {}
      BY <2>1, <1>0, FS_EmptySet DEF Safe
    <3>3. QED
      BY <3>1, <3>2, <1>0 DEF Counted, OneOwner
  <2>2. CASE SetLease(w)
    <3>1. pc[w] = "entered" /\ pc' = [pc EXCEPT ![w] = "holding"]
      BY <2>2 DEF SetLease, Goto
    <3>2. QED
      BY <3>1, <1>0 DEF Safe, OneOwner
  <2>3. CASE ~SetLease(w) /\ ~(Incr(w) /\ ~(count + 1 > 1))
    <3>1. PICK l \in {"idle", "refused", "unguarded"} : pc' = [pc EXCEPT ![w] = l]
      BY <2>3 DEF WorkerStep, Incr, Refuse, Finish, FinishUnguarded, GuardFails,
         FinishFails, Crash, Goto
    <3>2. Owners' \subseteq Owners
      BY <3>1, <1>0
    <3>3. QED
      BY <3>2 DEF Safe, OneOwner
  <2>4. QED
    BY <2>1, <2>2, <2>3
<1>3. QED
  BY <1>1, <1>2 DEF Safe

LEMMA SafeInvariant ==
  ASSUME KeyOutlivesTasks
  PROVE  Spec => []Safe
<1>1. TypeOK /\ Safe /\ [Next]_vars => Safe'
  <2> SUFFICES ASSUME TypeOK, Safe, [Next]_vars PROVE Safe'
    OBVIOUS
  <2>1. CASE UNCHANGED vars
    BY <2>1 DEF vars, Safe, OneOwner, Counted, Owners, At
  <2>2. ASSUME NEW w \in Workers, WorkerStep(w) PROVE Safe'
    BY <2>2, WorkerStepSafe
  <2>3. CASE Lapse \/ Flush
    <3>1. Counted = {} /\ count' = 0 /\ UNCHANGED pc
      BY <2>3 DEF Lapse, Flush, RemoveKey, KeyOutlivesTasks, Counted, Inside
    <3>2. QED
      BY <3>1, FS_EmptySet DEF Safe, OneOwner, Counted, Owners, At
  <2>4. QED
    BY <2>1, <2>2, <2>3, NextCases
<1>2. QED
  BY <1>1, InitSafe, TypeCorrect, PTL DEF Spec

LEMMA GuardedInvariant ==
  ASSUME RedisAnswers
  PROVE  Spec => []Guarded
<1>1. TypeOK /\ Guarded /\ [Next]_vars => Guarded'
  <2> SUFFICES ASSUME TypeOK, Guarded, [Next]_vars PROVE Guarded'
    OBVIOUS
  <2>1. CASE UNCHANGED pc
    BY <2>1 DEF Guarded, At
  <2>2. ASSUME NEW w \in Workers, WorkerStep(w) PROVE Guarded'
    <3>1. PICK l \in {"idle", "refused", "entered", "holding"} : pc' = [pc EXCEPT ![w] = l]
      BY <2>2 DEF RedisAnswers, WorkerStep, Incr, SetLease, Refuse, Finish,
         FinishUnguarded, GuardFails, FinishFails, Crash, Goto
    <3>2. QED
      BY <3>1 DEF TypeOK, Guarded, At
  <2>3. QED
    BY <2>1, <2>2, NextCases DEF vars, Lapse, Flush
<1>2. QED
  BY <1>1, InitSafe, TypeCorrect, PTL DEF Spec

(* While the key outlives the tasks counted at it, the owner of the slot is *)
(* counted at the key, and there is one owner at most: whatever Redis       *)
(* answers, and wherever workers die.                                       *)
THEOREM OwnerStaysCounted ==
  ASSUME KeyOutlivesTasks
  PROVE  Spec => [](OwnerIsCounted /\ OneOwner)
<1>1. TypeOK /\ Safe => OwnerIsCounted /\ OneOwner
  <2> SUFFICES ASSUME TypeOK, Safe, NEW w \in Owners PROVE count >= 1
    BY DEF OwnerIsCounted, Safe
  <2>1. IsFiniteSet(Counted) /\ w \in Counted
    BY EnvironmentAssumption, FS_Subset DEF Counted, Owners, At, Inside
  <2>2. Cardinality(Counted) \in Nat /\ Cardinality(Counted) # 0
    BY <2>1, FS_CardinalityType, FS_EmptySet
  <2>3. QED
    BY <2>2 DEF Safe, TypeOK
<1>2. QED
  BY <1>1, SafeInvariant, TypeCorrect, PTL

(* If Redis answers besides, two workers never transfer the same item.      *)
THEOREM OneTransferAtATime ==
  ASSUME KeyOutlivesTasks, RedisAnswers
  PROVE  Spec => []MutualExclusion
<1>1. Safe /\ Guarded => MutualExclusion
  BY DEF MutualExclusion, Transferring, Safe, OneOwner, Guarded, Owners
<1>2. QED
  BY <1>1, SafeInvariant, GuardedInvariant, PTL
-----------------------------------------------------------------------------
(* In the same environment the semaphore implements SingleTransfer: the     *)
(* INCR that lets a task through enters, its DECR or its death leaves.      *)
THEOREM LockImplementsSingleTransfer ==
  ASSUME KeyOutlivesTasks, RedisAnswers
  PROVE  Spec => ImplementsSingleTransfer
<1> DEFINE busy == Owners \union At("unguarded")
<1>1. Init => Promise!Init
  BY DEF Init, Promise!Init, Owners, At
<1>2. TypeOK /\ Safe /\ Guarded /\ Guarded' /\ [Next]_vars => [Promise!Next]_busy
  <2> SUFFICES ASSUME TypeOK, Safe, Guarded, Guarded', [Next]_vars
               PROVE  [Promise!Next]_busy
    OBVIOUS
  <2> USE DEF Owners, At, PC, Inside
  <2>1. CASE UNCHANGED vars
    BY <2>1 DEF vars
  <2>2. ASSUME NEW w \in Workers, WorkerStep(w) PROVE [Promise!Next]_busy
    <3>0. pc \in [Workers -> PC] /\ At("unguarded") = {}
      BY DEF TypeOK, Guarded
    <3>1. PICK l \in PC : pc' = [pc EXCEPT ![w] = l]
      BY <2>2, WorkerStepFrame
    <3>2. CASE l = "entered" /\ w \notin Owners
      <4>1. count <= 0
        BY <2>2, <3>0, <3>1, <3>2
        DEF WorkerStep, Incr, SetLease, Refuse, Finish, FinishUnguarded,
            GuardFails, FinishFails, Crash, Goto, TypeOK
      <4>2. Counted = {}
        BY <4>1, EnvironmentAssumption, FS_Subset, FS_CardinalityType, FS_EmptySet
        DEF Safe, Counted, TypeOK
      <4>3. busy = {} /\ busy' = {w}
        BY <4>2, <3>0, <3>1, <3>2 DEF Counted
      <4>4. QED
        BY <4>3 DEF Promise!Next, Promise!Enter
    <3>3. CASE l \in {"entered", "holding"} /\ w \in Owners
      BY <3>0, <3>1, <3>3
    <3>4. CASE l \notin {"entered", "holding"}
      <4>1. l # "unguarded"
        BY <3>0, <3>1 DEF Guarded
      <4>2. busy' = busy \ {w}
        BY <3>0, <3>1, <3>4, <4>1
      <4>3. QED
        BY <4>2 DEF Promise!Next, Promise!Leave
    <3>5. l = "holding" => w \in Owners
      BY <2>2, <3>0, <3>1
      DEF WorkerStep, Incr, SetLease, Refuse, Finish, FinishUnguarded,
          GuardFails, FinishFails, Crash, Goto
    <3>6. QED
      BY <3>2, <3>3, <3>4, <3>5
  <2>3. CASE Lapse \/ Flush
    BY <2>3 DEF Lapse, Flush
  <2>4. QED
    BY <2>1, <2>2, <2>3, NextCases
<1>3. QED
  BY <1>1, <1>2, SafeInvariant, GuardedInvariant, TypeCorrect, PTL
  DEF Spec, ImplementsSingleTransfer, Promise!Spec
=============================================================================
