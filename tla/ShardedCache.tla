---------------------------- MODULE ShardedCache ----------------------------
(***************************************************************************)
(* InmemoryShardedCache: a map with an expiry time per entry, split into   *)
(* shards with a lock each.  An operation reads the clock before it waits  *)
(* for a lock; one that visits every shard holds one lock at a time, so    *)
(* the cache changes between its shards.  Values are left out: what a      *)
(* GetItem returns is decided by the entry's expiry time.                  *)
(***************************************************************************)
EXTENDS Integers

CONSTANTS
  Keys,
  Hash,             \* fnv.New32a of each key, converted to int
  NumShards,
  TTLs,             \* the times to live that callers ask for
  Adders,           \* goroutines that call AddItemWithTTL
  Deleters,         \* goroutines that call DeleteItem
  CleanUpInterval,
  MaxTime,          \* bound on the clock
  Absent,           \* no entry in the map
  NoKey             \* a goroutine outside the cache

\* What is known of the constants.
CacheAssumption ==
  /\ Hash \in [Keys -> Nat]
  /\ NumShards \in Nat \ {0}
  /\ TTLs \subseteq Nat
  /\ CleanUpInterval \in Nat \ {0}
  /\ MaxTime \in Nat
  /\ Absent \notin Nat
  /\ NoKey \notin Keys

VARIABLES
  now,       \* the clock
  items,     \* expTime of each key's entry
  adding,    \* the AddItemWithTTL each goroutine is in: key, expTime
  deleting,  \* the DeleteItem each goroutine is in: key, next shard,
             \* and, a history, the keys added since it began
  cleaner    \* the goroutine of cleanUp: where it is, its start, next shard,
             \* and, a history, the keys added since it began

vars == <<now, items, adding, deleting, cleaner>>

Shards == 0..(NumShards - 1)

getShard(k) == Hash[k] % NumShards

TypeOK ==
  /\ now \in 0..MaxTime
  /\ items \in [Keys -> Nat \cup {Absent}]
  /\ adding \in [Adders -> [key : Keys \cup {NoKey}, exp : Nat]]
  /\ deleting \in [Deleters -> [key : Keys \cup {NoKey}, shard : 0..NumShards,
                                added : SUBSET Keys]]
  /\ cleaner \in [at : {"waiting", "sweeping", "gone"}, start : 0..MaxTime,
                  shard : 0..NumShards, added : SUBSET Keys]
  /\ \A k \in Keys : getShard(k) \in Shards

Init ==
  /\ now = 0
  /\ items = [k \in Keys |-> Absent]
  /\ adding = [p \in Adders |-> [key |-> NoKey, exp |-> 0]]
  /\ deleting = [p \in Deleters |-> [key |-> NoKey, shard |-> 0, added |-> {}]]
  /\ cleaner = [at |-> "waiting", start |-> 0, shard |-> 0, added |-> {}]

Tick ==
  /\ now < MaxTime
  /\ now' = now + 1
  /\ UNCHANGED <<items, adding, deleting, cleaner>>

Expired(k, time) == items[k] # Absent /\ time > items[k]

\* What GetItem finds, for a call that read the clock at time.
GetItem(k, time) == items[k] # Absent /\ ~Expired(k, time)
-----------------------------------------------------------------------------
AddStart(p) ==
  /\ adding[p].key = NoKey
  /\ \E k \in Keys, ttl \in TTLs :
       adding' = [adding EXCEPT ![p] = [key |-> k, exp |-> now + ttl]]
  /\ UNCHANGED <<now, items, deleting, cleaner>>

\* Under the lock of the key's shard.
AddLocked(p) ==
  LET k == adding[p].key
  IN /\ k # NoKey
     /\ items' = [items EXCEPT ![k] = adding[p].exp]
     /\ adding' = [adding EXCEPT ![p].key = NoKey]
     /\ deleting' = [q \in Deleters |->
                       [deleting[q] EXCEPT !.added = @ \cup {k}]]
     /\ cleaner' = [cleaner EXCEPT !.added = @ \cup {k}]
     /\ UNCHANGED now

InShard(k, shard) == getShard(k) = shard

\* As if the loop over the shards began with the second.
DeleteStartFromOne(p, k) ==
  /\ deleting[p].key = NoKey
  /\ deleting' = [deleting EXCEPT ![p] = [key |-> k, shard |-> 1, added |-> {}]]
  /\ UNCHANGED <<now, items, adding, cleaner>>

DeleteStart(p, k) ==
  /\ deleting[p].key = NoKey
  /\ deleting' = [deleting EXCEPT ![p] = [key |-> k, shard |-> 0, added |-> {}]]
  /\ UNCHANGED <<now, items, adding, cleaner>>

\* One shard under its lock.  The loop variable hides the parameter, so the
\* test key == key holds for every entry of the shard.
DeleteShard(p) ==
  /\ deleting[p].key # NoKey
  /\ deleting[p].shard < NumShards
  /\ deleting' = [deleting EXCEPT ![p].shard = @ + 1]
  /\ items' = [k \in Keys |-> IF InShard(k, deleting[p].shard) THEN Absent ELSE items[k]]
  /\ UNCHANGED <<now, adding, cleaner>>

DeleteReturn(p) ==
  /\ deleting[p].key # NoKey
  /\ deleting[p].shard = NumShards
  /\ deleting' = [deleting EXCEPT ![p].key = NoKey]
  /\ UNCHANGED <<now, items, adding, cleaner>>
-----------------------------------------------------------------------------
\* The ticker's first tick.  stopChan is never written to.
CleanStart ==
  /\ cleaner.at = "waiting"
  /\ now >= CleanUpInterval
  /\ cleaner' = [at |-> "sweeping", start |-> now, shard |-> 0, added |-> {}]
  /\ UNCHANGED <<now, items, adding, deleting>>

\* As if every entry added before the clean-up began had expired.
CleanShardOld ==
  /\ cleaner.at = "sweeping"
  /\ cleaner.shard < NumShards
  /\ cleaner' = [cleaner EXCEPT !.shard = @ + 1]
  /\ items' = [k \in Keys |->
                 IF InShard(k, cleaner.shard) /\ k \notin cleaner.added
                   THEN Absent ELSE items[k]]
  /\ UNCHANGED <<now, adding, deleting>>

\* As if expiry times were compared with the time of the tick before.
CleanShardLate ==
  /\ cleaner.at = "sweeping"
  /\ cleaner.shard < NumShards
  /\ cleaner' = [cleaner EXCEPT !.shard = @ + 1]
  /\ items' = [k \in Keys |->
                 IF InShard(k, cleaner.shard) /\ Expired(k, cleaner.start - 1)
                   THEN Absent ELSE items[k]]
  /\ UNCHANGED <<now, adding, deleting>>

CleanShard ==
  /\ cleaner.at = "sweeping"
  /\ cleaner.shard < NumShards
  /\ cleaner' = [cleaner EXCEPT !.shard = @ + 1]
  /\ items' = [k \in Keys |->
                 IF InShard(k, cleaner.shard) /\ Expired(k, cleaner.start)
                   THEN Absent ELSE items[k]]
  /\ UNCHANGED <<now, adding, deleting>>

\* cleanUp has no loop: after one sweep its goroutine ends.
CleanReturn ==
  /\ cleaner.at = "sweeping"
  /\ cleaner.shard = NumShards
  /\ cleaner' = [cleaner EXCEPT !.at = "gone"]
  /\ UNCHANGED <<now, items, adding, deleting>>

Clean == CleanStart \/ CleanShard \/ CleanReturn

Next ==
  \/ Tick
  \/ \E p \in Adders : AddStart(p) \/ AddLocked(p)
  \/ \E p \in Deleters :
       (\E k \in Keys : DeleteStart(p, k)) \/ DeleteShard(p) \/ DeleteReturn(p)
  \/ Clean

Spec == Init /\ [][Next]_vars

FairSpec == Spec /\ WF_vars(Tick) /\ WF_vars(Clean)
-----------------------------------------------------------------------------
(* When DeleteItem has been through all the shards its key is gone, unless *)
(* it was added again meanwhile.                                           *)
DeleteRemovesKey ==
  \A p \in Deleters :
    deleting[p].key # NoKey /\ deleting[p].shard = NumShards =>
      items[deleting[p].key] = Absent \/ deleting[p].key \in deleting[p].added

(* When the clean-up has been through all the shards, every entry that had *)
(* expired when it began is gone, unless it was added again meanwhile.     *)
CleanUpRemovesExpired ==
  cleaner.at = "sweeping" /\ cleaner.shard = NumShards =>
    \A k \in Keys : Expired(k, cleaner.start) => k \in cleaner.added

(* An entry that can still be read stays readable, whatever the clean-up   *)
(* and older calls that waited for the lock do, as long as nobody deletes  *)
(* or adds.                                                                *)
LiveEntriesStay ==
  [][\A k \in Keys : GetItem(k, now) /\ ~GetItem(k, now)' /\ now' = now =>
       \/ \E p \in Adders : AddLocked(p)
       \/ \E p \in Deleters : deleting[p].key # NoKey]_vars

(* The comment on DeleteItem, "метод удаления элемента из кэша по ключу":  *)
(* it removes the entry of its key and no other.                           *)
DeletesOnlyItsKey ==
  [][\A p \in Deleters, k \in Keys :
       DeleteShard(p) /\ items[k] # Absent /\ items'[k] = Absent =>
         k = deleting[p].key]_vars

(* The comment on cleanUp, "метод для вызова интервальной очистки кэша":   *)
(* an expired entry is removed at one of the intervals.                    *)
ExpiredAreRemoved ==
  \A k \in Keys : Expired(k, now) ~> ~Expired(k, now)
=============================================================================
