---------------------------- MODULE TransferLock ----------------------------
(***************************************************************************)
(* The per-hash Redis semaphore of transfer_files_async                    *)
(* (itemqueue/tasks.py:547-575 and the finally block 1378-1386).           *)
(*                                                                         *)
(* Several Celery workers run a task for the same item hash.  Each does    *)
(* INCR on transfer_lock:<hash>; a count above one is given back with DECR *)
(* and the task ends; otherwise the task sets a time to live on the key,   *)
(* transfers, and does DECR in the finally block.  Every Redis command is  *)
(* an action of its own, because other workers, the expiry of the key, a   *)
(* Redis error, the watchdog's FLUSHDB or the death of the worker can come *)
(* between any two of them.                                                *)
(***************************************************************************)
EXTENDS Integers, FiniteSets

CONSTANTS
  Workers,      \* the worker processes that may run a task for this hash
  LapseDuring,  \* where in the task a worker may be when the key expires
  CrashIn,      \* where in the task a worker process may die
  RedisFails,   \* whether a Redis command may raise redis.RedisError
  Flushes,      \* whether celery_watchdog may FLUSHDB the broker's database
  CountCap      \* bound: a step that leaks a count needs count < CountCap

Inside == {"entered", "refused", "holding"}   \* between its INCR and its DECR
PC == Inside \union {"idle", "unguarded"}

ASSUME EnvironmentAssumption ==
  /\ IsFiniteSet(Workers)
  /\ LapseDuring \subseteq PC
  /\ CrashIn \subseteq PC
  /\ RedisFails \in BOOLEAN
  /\ Flushes \in BOOLEAN
  /\ CountCap \in Nat

VARIABLES
  count,  \* the integer at the key, 0 when the key does not exist
  ttl,    \* "absent": no key; "unset": a key that never expires; "running"
  pc,     \* pc[w] is where worker w is
  cut     \* history: the workers whose task ended between its INCR and its
          \* EXPIRE since the key was last removed

vars == <<count, ttl, pc, cut>>

Goto(w, label) == pc' = [pc EXCEPT ![w] = label]

(* INCR and DECR create the key, without a time to live, when it is absent. *)
AddToKey(d) ==
  /\ count' = count + d
  /\ ttl' = IF ttl = "absent" THEN "unset" ELSE ttl

RemoveKey == count' = 0 /\ ttl' = "absent" /\ cut' = {}

(* A failed command may have been executed: only its reply is known to be lost. *)
PerhapsAddToKey(d) == AddToKey(d) \/ UNCHANGED <<count, ttl>>

At(label) == {w \in Workers : pc[w] = label}

(* The tasks that own the slot, and the tasks that will do or do the transfer. *)
Owners == At("entered") \union At("holding")
Transferring == At("holding") \union At("unguarded")
Counted == {w \in Workers : pc[w] \in Inside}
-----------------------------------------------------------------------------
Init ==
  /\ count = 0
  /\ ttl = "absent"
  /\ pc = [w \in Workers |-> "idle"]
  /\ cut = {}

(* Mutants of Incr: the gate admits two; a refused task waits for the slot. *)
IncrAdmitsTwo(w) ==
  /\ pc[w] = "idle"
  /\ AddToKey(1)
  /\ Goto(w, IF count + 1 > 2 THEN "refused" ELSE "entered")
  /\ UNCHANGED cut

IncrWaits(w) ==
  /\ pc[w] = "idle"
  /\ AddToKey(1)
  /\ Goto(w, IF count + 1 > 1 THEN "waiting" ELSE "entered")
  /\ UNCHANGED cut

(* count = INCR key; a count above one is refused. *)
Incr(w) ==
  /\ pc[w] = "idle"
  /\ AddToKey(1)
  /\ Goto(w, IF count + 1 > 1 THEN "refused" ELSE "entered")
  /\ UNCHANGED cut

(* Mutant of SetLease: the time to live is forgotten. *)
NoLease(w) ==
  /\ pc[w] = "entered"
  /\ Goto(w, "holding")
  /\ UNCHANGED <<count, ttl, cut>>

(* EXPIRE key 300 does nothing to a key that is not there. *)
SetLease(w) ==
  /\ pc[w] = "entered"
  /\ ttl' = IF ttl = "absent" THEN "absent" ELSE "running"
  /\ Goto(w, "holding")
  /\ UNCHANGED <<count, cut>>

(* Mutants of Refuse: DEL for DECR; the return is missing; the finally      *)
(* block gives the count back a second time.                                *)
RefuseDeletes(w) ==
  /\ pc[w] = "refused"
  /\ RemoveKey
  /\ Goto(w, "idle")

RefuseGoesOn(w) ==
  /\ pc[w] = "refused"
  /\ AddToKey(-1)
  /\ Goto(w, "unguarded")
  /\ UNCHANGED cut

RefuseTwice(w) ==
  /\ pc[w] = "refused"
  /\ AddToKey(-2)
  /\ Goto(w, "idle")
  /\ UNCHANGED cut

(* The refused task gives its count back and returns. *)
Refuse(w) ==
  /\ pc[w] = "refused"
  /\ AddToKey(-1)
  /\ Goto(w, "idle")
  /\ UNCHANGED cut

(* The finally block of a task that had the semaphore. *)
Finish(w) ==
  /\ pc[w] = "holding"
  /\ AddToKey(-1)
  /\ Goto(w, "idle")
  /\ UNCHANGED cut

(* The finally block with redis_client None: nothing to give back. *)
FinishUnguarded(w) ==
  /\ pc[w] = "unguarded"
  /\ Goto(w, "idle")
  /\ UNCHANGED <<count, ttl, cut>>

(* redis.RedisError from INCR, from the refusal's DECR or from EXPIRE: the  *)
(* one except clause sets redis_client to None and the transfer goes on.    *)
GuardFails(w) ==
  /\ RedisFails
  /\ count < CountCap
  /\ \/ pc[w] = "idle" /\ PerhapsAddToKey(1)
     \/ pc[w] = "refused" /\ PerhapsAddToKey(-1)
     \/ /\ pc[w] = "entered"
        /\ ttl' \in {ttl, IF ttl = "absent" THEN "absent" ELSE "running"}
        /\ UNCHANGED count
  /\ Goto(w, "unguarded")
  /\ cut' = IF pc[w] \in {"idle", "entered"} THEN cut \union {w} ELSE cut

(* redis.RedisError from the DECR of the finally block is only logged. *)
FinishFails(w) ==
  /\ RedisFails
  /\ count < CountCap
  /\ pc[w] = "holding"
  /\ PerhapsAddToKey(-1)
  /\ Goto(w, "idle")
  /\ UNCHANGED cut
-----------------------------------------------------------------------------
(* The worker process dies (hard time limit, out of memory, restart): no DECR. *)
Crash(w) ==
  /\ pc[w] \in CrashIn \ {"idle"}
  /\ count < CountCap
  /\ Goto(w, "idle")
  /\ UNCHANGED <<count, ttl>>
  /\ cut' = IF pc[w] = "entered" THEN cut \union {w} ELSE cut

(* The 300 seconds run out. *)
Lapse ==
  /\ ttl = "running"
  /\ \A w \in Workers : pc[w] \in LapseDuring \union {"idle"}
  /\ RemoveKey
  /\ UNCHANGED pc

(* celery_watchdog flushes the Redis database it shares with the semaphore. *)
Flush ==
  /\ Flushes
  /\ RemoveKey
  /\ UNCHANGED pc

TaskStep(w) == SetLease(w) \/ Refuse(w) \/ Finish(w) \/ FinishUnguarded(w)

Next ==
  \/ \E w \in Workers :
       \/ Incr(w) \/ TaskStep(w)
       \/ GuardFails(w) \/ FinishFails(w)
       \/ Crash(w)
  \/ Lapse
  \/ Flush

Spec == Init /\ [][Next]_vars

(* A task that runs gets to its next command, and the clock of Redis runs   *)
(* whatever the workers do.                                                 *)
FairSpec ==
  /\ Spec
  /\ \A w \in Workers : WF_vars(TaskStep(w))
  /\ WF_vars(Lapse)
-----------------------------------------------------------------------------
TypeOK ==
  /\ count \in Int
  /\ ttl \in {"absent", "unset", "running"}
  /\ pc \in [Workers -> PC]
  /\ cut \subseteq Workers
  /\ ttl = "absent" => count = 0

(* Never do two workers transfer the same item: the "duplicate-WORK race"   *)
(* tasks.py:547-552 says the semaphore closes.                              *)
MutualExclusion == \A v, w \in Transferring : v = w

(* A worker that owns the slot is counted at the key, so nobody's DECR or   *)
(* late EXPIRE can open the gate while it works.                            *)
OwnerIsCounted == Owners # {} => count >= 1

(* Expiry, flushes, errors and deaths never accumulate: however often the   *)
(* key vanishes under its users, the count is never more than one worker    *)
(* pool below the tasks it should be counting.                              *)
DriftIsBounded == count >= Cardinality(Counted) - Cardinality(Workers)

(* A slot whose owner died is taken again or freed: the time to live means  *)
(* a dead worker leaves "not a held-forever key" (tasks.py:565-566), whoever *)
(* else crashed, errored or flushed; only a task cut short between its INCR *)
(* and its EXPIRE can leave a key that never lapses.                        *)
DeadOwnerReleases ==
  (count > 0 /\ Owners = {} /\ cut = {}) ~> (count <= 0 \/ Owners # {} \/ cut # {})

(* The semaphore implements the promise of one transfer at a time; a task   *)
(* counts as transferring from the INCR that let it through.                *)
Promise == INSTANCE SingleTransfer WITH busy <- Owners \union At("unguarded")
ImplementsSingleTransfer == Promise!Spec
=============================================================================
