---------------------------- MODULE SharedStore -----------------------------
(***************************************************************************)
(* The ephemeral state replicas share (cluster/shared-store.ts): counters  *)
(* and single-use values in Redis, behind a circuit breaker, and in the    *)
(* memory of the replica whenever Redis does not answer.                   *)
(*                                                                         *)
(* A store holds fewer keys than its cap, and a behaviour is shorter than  *)
(* the window of a counter.                                                *)
(***************************************************************************)
EXTENDS Naturals, FiniteSets

CONSTANTS
  Replicas,
  Keys,            \* the keys of counters
  Values           \* the single-use values

VARIABLES
  shared,          \* what Redis holds
  local,           \* local[r]: what the memory of r holds
  open             \* open[r]: the breaker of r keeps it away from Redis

storeVars == <<shared, local, open>>

EmptyStore == [count |-> [k \in Keys |-> 0], kv |-> {}]

StoreTypeOK ==
  /\ shared \in [count : [Keys -> Nat], kv : SUBSET Values]
  /\ local \in [Replicas -> [count : [Keys -> Nat], kv : SUBSET Values]]
  /\ open \in [Replicas -> BOOLEAN]

StoreInit ==
  /\ shared = EmptyStore
  /\ local = [r \in Replicas |-> EmptyStore]
  /\ open = [r \in Replicas |-> FALSE]

-----------------------------------------------------------------------------
(* Commands, on the one store or the other: what is left and the answer.   *)

incr(s, k) == [store |-> [s EXCEPT !.count[k] = @ + 1], out |-> s.count[k] + 1]
peek(s, k) == [store |-> s, out |-> s.count[k]]
set(s, v) == [store |-> [s EXCEPT !.kv = @ \cup {v}], out |-> TRUE]

\* Mutant of take: the value is read and stays.
takeNothing(s, v) == [store |-> s, out |-> v \in s.kv]

take(s, v) == [store |-> [s EXCEPT !.kv = @ \ {v}], out |-> v \in s.kv]

\* RedisStore.run: what a command of r may come to.  A command that fails
\* may have been applied; it opens the breaker and is done again in memory.
run(r, viaRedis, viaMemory, mayFail) ==
  LET memory(s) == [shared |-> s, mine |-> viaMemory.store, open |-> TRUE,
                    out |-> viaMemory.out, via |-> "memory"]
      redis == [shared |-> viaRedis.store, mine |-> local[r], open |-> FALSE,
                out |-> viaRedis.out, via |-> "redis"]
  IN  IF open[r] THEN {memory(shared)}
      ELSE {redis} \cup
           IF mayFail THEN {memory(shared), memory(viaRedis.store)} ELSE {}

without(s, k) == [s EXCEPT !.count[k] = 0]

\* Deletes from both; a failure is swallowed.
del(r, k, mayFail) ==
  LET deleted(s, o, via) == [shared |-> s, mine |-> without(local[r], k), open |-> o,
                             out |-> TRUE, via |-> via]
  IN  IF open[r] THEN {deleted(shared, TRUE, "memory")}
      ELSE {deleted(without(shared, k), FALSE, "redis")} \cup
           IF mayFail
           THEN {deleted(shared, TRUE, "memory"), deleted(without(shared, k), TRUE, "memory")}
           ELSE {}

\* The stores after the answer a to a command of r.
Settle(r, a) ==
  /\ shared' = a.shared
  /\ local' = [local EXCEPT ![r] = a.mine]
  /\ open' = [open EXCEPT ![r] = a.open]

\* Whether the command failed on its way to Redis.
Failed(r, a) == ~open[r] /\ a.open

\* An 'error' event of the connection.
trip(r) ==
  /\ ~open[r]
  /\ open' = [open EXCEPT ![r] = TRUE]
  /\ UNCHANGED <<shared, local>>

\* The cooldown is over, or the connection is 'ready' again.
Recover(r) ==
  /\ open[r]
  /\ open' = [open EXCEPT ![r] = FALSE]
  /\ UNCHANGED <<shared, local>>
=============================================================================
