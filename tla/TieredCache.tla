----------------------------- MODULE TieredCache -----------------------------
(***************************************************************************)
(* services/cache.py: a cache in Redis with a copy in every process, and   *)
(* the lock built on it. A write or a delete goes to Redis first and then  *)
(* to the copy of the process it is called in, a read asks Redis and, where *)
(* that has nothing or cannot be reached, the copy. An error of Redis is   *)
(* swallowed. (Without Redis there are the copies only: as in a long       *)
(* outage.)                                                                *)
(***************************************************************************)
EXTENDS Integers, FiniteSets

CONSTANTS
  Procs, Keys,
  Locks,       \* keys of DistributedLockPlaceholder
  TTL,
  MaxSize,     \* CACHE_MAX_LOCAL_ENTRIES
  MaxClock, MaxWrites, MaxOutages   \* bounds

VARIABLES
  redis, local,   \* entries; local[p]: of process p
  up,             \* Redis can be reached
  now,
  rq,             \* what each process still has to do
  truth,          \* the value last written under each key and not deleted
  unseen,         \* until when a process may not have seen a change
  held,           \* until when a process may think it holds a lock
  crossed,        \* two calls for the lock overlapped, or Redis failed
  writes, outages
vars == <<redis, local, up, now, rq, truth, unseen, held, crossed, writes, outages>>

None  == [value |-> 0, expires |-> 0]
Idle  == [op |-> "idle", keys |-> {}, value |-> 0]

Init ==
  /\ redis = [k \in Keys |-> None] /\ local = [p \in Procs |-> [k \in Keys |-> None]]
  /\ up = TRUE /\ now = 0 /\ rq = [p \in Procs |-> Idle]
  /\ truth = [k \in Keys |-> 0] /\ unseen = [p \in Procs |-> [k \in Keys |-> 0]]
  /\ held = [p \in Procs |-> 0] /\ crossed = FALSE /\ writes = 0 /\ outages = 0

-----------------------------------------------------------------------------
Live(e) == IF e.expires > now THEN e.value ELSE 0

(* CacheService.get                                                          *)
Get(p, k) ==
  IF up /\ Live(redis[k]) # 0 THEN Live(redis[k]) ELSE Live(local[p][k])

(* TTLCache._prune: what may be left. Beyond MaxSize the entries that expire *)
(* first go; set prunes before it adds, so there is room for one more.       *)
Held(store) == {k \in Keys : store[k] # None}
Without(store, gone) == [k \in Keys |-> IF k \in gone THEN None ELSE store[k]]
Pruned(store) ==
  LET alive == {k \in Keys : Live(store[k]) # 0}
  IN  IF Cardinality(alive) =< MaxSize THEN {Without(store, Keys \ alive)}
      ELSE {Without(store, Keys \ kept) : kept \in
              {S \in SUBSET alive : /\ Cardinality(S) = MaxSize
                                    /\ \A k \in S, l \in alive \ S : store[k].expires >= store[l].expires}}

(* A change of keys by process p: the others may still have their copies,    *)
(* and if Redis cannot be reached it keeps what it has.                      *)
Unseen(p, keys) ==
  [q \in Procs |-> [k \in Keys |-> IF k \in keys /\ (q # p \/ ~up) THEN now + TTL ELSE unseen[q][k]]]

(* CacheService.set, _RedisCacheBackend.set then TTLCache.set                *)
SetBackend(p, k, v) ==
  /\ redis' = IF up THEN [redis EXCEPT ![k] = [value |-> v, expires |-> now + TTL]] ELSE redis
  /\ rq' = [rq EXCEPT ![p] = [op |-> "set", keys |-> {k}, value |-> v]]
  /\ truth' = [truth EXCEPT ![k] = v] /\ unseen' = Unseen(p, {k})
  /\ writes' = writes + 1

SetFallback(p) ==
  /\ rq[p].op = "set"
  /\ \E k \in rq[p].keys, store \in Pruned(local[p]) :
       local' = [local EXCEPT ![p] = [store EXCEPT ![k] = [value |-> rq[p].value, expires |-> now + TTL]]]
  /\ rq' = [rq EXCEPT ![p] = Idle]
  /\ UNCHANGED <<redis, up, now, truth, unseen, held, crossed, writes, outages>>

(* delete: keys go from Redis; that is part of the call op, which has taken  *)
(* before from the copy once all are gone.                                   *)
Before(p) == IF rq[p].op = "prefix" THEN rq[p].keys ELSE {}
DeleteBackend(p, keys, op) ==
  /\ redis' = IF up THEN Without(redis, keys) ELSE redis
  /\ rq' = [rq EXCEPT ![p] = [op |-> op, keys |-> Before(p) \cup keys, value |-> 0]]
  /\ truth' = [k \in Keys |-> IF k \in keys THEN 0 ELSE truth[k]] /\ unseen' = Unseen(p, keys)
  /\ UNCHANGED writes

DeleteFallback(p) ==
  /\ rq[p].op = "delete"
  /\ local' = [local EXCEPT ![p] = Without(@, rq[p].keys)]
  /\ rq' = [rq EXCEPT ![p] = Idle]
  /\ UNCHANGED <<redis, up, now, truth, unseen, held, crossed, writes, outages>>

Write(p) ==
  /\ rq[p] = Idle /\ writes < MaxWrites
  /\ \E k \in Keys \ Locks : SetBackend(p, k, writes + 1)
  /\ UNCHANGED <<local, up, now, held, crossed, outages>>

(* delete, invalidate                                                        *)
Delete(p) ==
  /\ rq[p] = Idle
  /\ \E k \in Keys \ Locks : DeleteBackend(p, {k}, "delete")
  /\ UNCHANGED <<local, up, now, held, crossed, outages>>

(* invalidate_prefix asks Redis for the keys it has, none if it cannot be    *)
(* reached ...                                                               *)
Prefixed == Keys \ Locks
Listed == IF up THEN {k \in Prefixed : Live(redis[k]) # 0} ELSE {}

InvalidatePrefix(p) ==
  /\ rq[p] = Idle /\ Prefixed # {}
  /\ DeleteBackend(p, Prefixed \ Listed, IF Listed = {} THEN "delete" ELSE "prefix")
  /\ UNCHANGED <<local, up, now, held, crossed, outages>>

(* ... and deletes one after the other, then all from the copy.              *)
NextKey(p) ==
  /\ rq[p].op = "prefix"
  /\ \E k \in Prefixed \ Before(p) :
       DeleteBackend(p, {k}, IF Prefixed \ Before(p) = {k} THEN "delete" ELSE "prefix")
  /\ UNCHANGED <<local, up, now, held, crossed, outages>>

-----------------------------------------------------------------------------
(* DistributedLockPlaceholder.acquire and release: first the key is read.    *)
Busy(p) == \E q \in Procs \ {p} : rq[q] # Idle

Look(p) ==
  /\ rq[p] = Idle /\ writes < MaxWrites
  /\ \E k \in Locks :
       \/ Get(p, k) = 0 /\ rq' = [rq EXCEPT ![p] = [op |-> "acquire", keys |-> {k}, value |-> p]]
       \/ Get(p, k) = p /\ rq' = [rq EXCEPT ![p] = [op |-> "release", keys |-> {k}, value |-> 0]]
  /\ crossed' = (crossed \/ Busy(p))
  /\ UNCHANGED <<redis, local, up, now, truth, unseen, held, writes, outages>>

Acquire(p) ==
  /\ rq[p].op = "acquire"
  /\ \E k \in rq[p].keys : SetBackend(p, k, p)
  /\ held' = [held EXCEPT ![p] = now + TTL]
  /\ UNCHANGED <<local, up, now, crossed, outages>>

Release(p) ==
  /\ rq[p].op = "release"
  /\ DeleteBackend(p, rq[p].keys, "delete")
  /\ held' = [held EXCEPT ![p] = 0]
  /\ UNCHANGED <<local, up, now, crossed, outages>>

-----------------------------------------------------------------------------
Fail ==
  /\ up /\ outages < MaxOutages /\ up' = FALSE /\ outages' = outages + 1 /\ crossed' = TRUE
  /\ UNCHANGED <<redis, local, now, rq, truth, unseen, held, writes>>

Recover ==
  /\ ~up /\ up' = TRUE
  /\ UNCHANGED <<redis, local, now, rq, truth, unseen, held, crossed, writes, outages>>

(* Calls are short: none lasts over a second.                                *)
Tick ==
  /\ now < MaxClock /\ now' = now + 1 /\ \A p \in Procs : rq[p] = Idle
  /\ UNCHANGED <<redis, local, up, rq, truth, unseen, held, crossed, writes, outages>>

Next ==
  \/ \E p \in Procs : Write(p) \/ SetFallback(p) \/ Delete(p) \/ InvalidatePrefix(p) \/ NextKey(p)
                      \/ DeleteFallback(p) \/ Look(p) \/ Acquire(p) \/ Release(p)
  \/ Fail \/ Recover \/ Tick

-----------------------------------------------------------------------------
(* What a read returns was last written under the key, unless the change was *)
(* made by another process or while Redis could not be reached: such a       *)
(* change may stay unseen for the time to live, and no longer.               *)
StaleOnlyIfUnseen ==
  \A p \in Procs : rq[p] = Idle => \A k \in Keys : Get(p, k) \in {0, truth[k]} \/ now < unseen[p][k]

(* A copy grows to one entry more than it should, and no further.            *)
SizeIsBounded == \A p \in Procs : Cardinality(Held(local[p])) =< MaxSize + 1

(* No two processes hold a lock as long as no two calls for it overlap and   *)
(* Redis can be reached: an owner whose lock expired does not release that   *)
(* of the next one.                                                          *)
OneHolder == crossed \/ Cardinality({p \in Procs : held[p] > now}) =< 1
=============================================================================
