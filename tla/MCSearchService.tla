-------------------------- MODULE MCSearchService ---------------------------
(***************************************************************************)
(* The service and the sharded cache its caches are made of.  The service  *)
(* knows a cache by what its operations do as a whole; the cache's own     *)
(* steps are another behaviour, chosen in the initial state.  Workers,     *)
(* queries and vacancies are interchangeable.                              *)
(***************************************************************************)
EXTENDS SearchService, TLC

Symmetry == Permutations(Workers) \cup Permutations(Queries) \cup Permutations(Vacancies)

CONSTANTS
  k1, k2, k3,  \* three keys, the first two of them in the same shard
  NumShards, TTLs, Adders, Deleters, CleanUpInterval, MaxTime, Absent, NoKey

VARIABLES
  now, items, adding, deleting, cleaner,
  subject  \* whose behaviour this is

cacheVars == <<now, items, adding, deleting, cleaner>>

Cache ==
  INSTANCE ShardedCache
    WITH Keys <- {k1, k2, k3}, Hash <- (k1 :> 4 @@ k2 :> 2 @@ k3 :> 7)

ASSUME Cache!CacheAssumption

MCInit ==
  /\ Init
  /\ Cache!Init
  /\ subject \in {"service", "cache"}

Service ==
  /\ subject = "service"
  /\ Next
  /\ UNCHANGED <<cacheVars, subject>>

CacheNext ==
  /\ subject = "cache"
  /\ Cache!Next
  /\ UNCHANGED <<vars, subject>>

MCNext == Service \/ CacheNext

MCSpec == MCInit /\ [][MCNext]_<<vars, cacheVars, subject>>

DeleteRemovesKey == Cache!DeleteRemovesKey
CleanUpRemovesExpired == Cache!CleanUpRemovesExpired
LiveEntriesStay == Cache!LiveEntriesStay
=============================================================================
