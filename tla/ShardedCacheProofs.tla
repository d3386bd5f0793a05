------------------------- MODULE ShardedCacheProofs -------------------------
(***************************************************************************)
(* Theorems about ShardedCache for every hash function, number of shards,  *)
(* set of goroutines, time to live and length of time.                     *)
(***************************************************************************)
EXTENDS ShardedCache, TLAPS

(* A shard that a DeleteItem has left has the key only if it was added     *)
(* since the DeleteItem began.                                             *)
DeletedBehind ==
  \A p \in Deleters :
    LET d == deleting[p]
    IN d.key # NoKey /\ getShard(d.key) < d.shard =>
         items[d.key] = Absent \/ d.key \in d.added

(* A shard that the clean-up has left has entries that had expired when it *)
(* began only if they were added since.                                    *)
CleanedBehind ==
  cleaner.at = "sweeping" =>
    \A k \in Keys :
      getShard(k) < cleaner.shard /\ Expired(k, cleaner.start) => k \in cleaner.added

IInv ==
  /\ TypeOK
  /\ DeletedBehind
  /\ CleanedBehind
  /\ cleaner.start <= now

(* Every key belongs to one of the shards. *)
LEMMA ShardOfKey ==
  ASSUME CacheAssumption
  PROVE  \A k \in Keys : getShard(k) \in Shards
BY DEF CacheAssumption, getShard, Shards

(* An empty cache satisfies the invariant. *)
LEMMA InitIInv ==
  ASSUME CacheAssumption, Init
  PROVE  IInv
<1>1. TypeOK
  BY ShardOfKey DEF CacheAssumption, Init, TypeOK
<1>2. QED
  BY <1>1 DEF Init, IInv, DeletedBehind, CleanedBehind
-----------------------------------------------------------------------------
(* Every step keeps the variables in their ranges. *)
LEMMA NextTypeOK ==
  ASSUME CacheAssumption, TypeOK, Next
  PROVE  TypeOK'
<1> USE DEF CacheAssumption, TypeOK
<1>1. CASE Tick
  BY <1>1, ShardOfKey DEF Tick
<1>2. ASSUME NEW p \in Adders, AddStart(p)
      PROVE  TypeOK'
  BY <1>2, ShardOfKey DEF AddStart
<1>3. ASSUME NEW p \in Adders, AddLocked(p)
      PROVE  TypeOK'
  <2>1. adding[p].key \in Keys /\ adding[p].exp \in Nat
    BY <1>3 DEF AddLocked
  <2>2. items' \in [Keys -> Nat \cup {Absent}]
    BY <1>3, <2>1 DEF AddLocked
  <2>3. adding' \in [Adders -> [key : Keys \cup {NoKey}, exp : Nat]]
    BY <1>3 DEF AddLocked
  <2>4. deleting' \in [Deleters -> [key : Keys \cup {NoKey}, shard : 0..NumShards,
                                    added : SUBSET Keys]]
    <3>1. deleting' = [q \in Deleters |->
                         [deleting[q] EXCEPT !.added =
                            deleting[q].added \cup {adding[p].key}]]
      BY <1>3 DEF AddLocked
    <3>2. ASSUME NEW q \in Deleters
          PROVE  [deleting[q] EXCEPT !.added = deleting[q].added \cup {adding[p].key}]
                   \in [key : Keys \cup {NoKey}, shard : 0..NumShards, added : SUBSET Keys]
      <4>1. deleting[q] \in [key : Keys \cup {NoKey}, shard : 0..NumShards,
                             added : SUBSET Keys]
        OBVIOUS
      <4>2. deleting[q].added \cup {adding[p].key} \in SUBSET Keys
        BY <2>1, <4>1
      <4>3. QED
        BY <4>1, <4>2
    <3>3. QED
      BY <3>1, <3>2
  <2>5. cleaner' \in [at : {"waiting", "sweeping", "gone"}, start : 0..MaxTime,
                      shard : 0..NumShards, added : SUBSET Keys]
    <3>1. cleaner' = [cleaner EXCEPT !.added = cleaner.added \cup {adding[p].key}]
      BY <1>3 DEF AddLocked
    <3>2. cleaner.added \cup {adding[p].key} \in SUBSET Keys
      BY <2>1
    <3>3. QED
      BY <3>1, <3>2
  <2>6. QED
    BY <1>3, <2>2, <2>3, <2>4, <2>5, ShardOfKey DEF AddLocked
<1>4. ASSUME NEW p \in Deleters,
             (\E k \in Keys : DeleteStart(p, k)) \/ DeleteShard(p) \/ DeleteReturn(p)
      PROVE  TypeOK'
  <2>1. items' \in [Keys -> Nat \cup {Absent}]
    BY <1>4 DEF DeleteStart, DeleteShard, DeleteReturn
  <2> DEFINE Call == [key : Keys \cup {NoKey}, shard : 0..NumShards, added : SUBSET Keys]
  <2>2. deleting' \in [Deleters -> Call]
    <3>1. ASSUME NEW k \in Keys, DeleteStart(p, k)
          PROVE  deleting' \in [Deleters -> Call]
      BY <3>1 DEF DeleteStart
    <3>2. CASE DeleteShard(p)
      <4>1. deleting[p].shard + 1 \in 0..NumShards
        BY <3>2 DEF DeleteShard
      <4>2. QED
        BY <3>2, <4>1 DEF DeleteShard
    <3>3. CASE DeleteReturn(p)
      BY <3>3 DEF DeleteReturn
    <3>4. QED
      BY <1>4, <3>1, <3>2, <3>3
  <2>3. QED
    BY <1>4, <2>1, <2>2, ShardOfKey DEF DeleteStart, DeleteShard, DeleteReturn
<1>5. CASE Clean
  <2>1. items' \in [Keys -> Nat \cup {Absent}]
    BY <1>5 DEF Clean, CleanStart, CleanShard, CleanReturn
  <2>2. cleaner' \in [at : {"waiting", "sweeping", "gone"}, start : 0..MaxTime,
                      shard : 0..NumShards, added : SUBSET Keys]
    BY <1>5 DEF Clean, CleanStart, CleanShard, CleanReturn
  <2>3. QED
    BY <1>5, <2>1, <2>2, ShardOfKey DEF Clean, CleanStart, CleanShard, CleanReturn
<1>6. QED
  BY <1>1, <1>2, <1>3, <1>4, <1>5 DEF Next

(* No step brings a key back behind a DeleteItem but its addition. *)
LEMMA NextDeletedBehind ==
  ASSUME CacheAssumption, IInv, Next
  PROVE  DeletedBehind'
<1> USE DEF CacheAssumption, IInv, TypeOK, DeletedBehind
<1>1. CASE Tick \/ \E p \in Adders : AddStart(p)
  BY <1>1 DEF Tick, AddStart
<1>2. ASSUME NEW p \in Adders, AddLocked(p)
      PROVE  DeletedBehind'
  <2> SUFFICES ASSUME NEW q \in Deleters, (deleting[q].key # NoKey)',
                      (getShard(deleting[q].key) < deleting[q].shard)'
               PROVE  (items[deleting[q].key] = Absent \/ deleting[q].key \in deleting[q].added)'
    OBVIOUS
  <2> DEFINE d == deleting[q]
             k == adding[p].key
  <2>1. deleting'[q] = [d EXCEPT !.added = @ \cup {k}]
    BY <1>2 DEF AddLocked
  <2>2. d \in [key : Keys \cup {NoKey}, shard : 0..NumShards, added : SUBSET Keys]
    OBVIOUS
  <2>3. /\ deleting'[q].key = d.key /\ deleting'[q].shard = d.shard
        /\ deleting'[q].added = d.added \cup {k}
    BY <2>1, <2>2
  <2>4. items[d.key] = Absent \/ d.key \in d.added
    BY <2>3 DEF getShard
  <2>5. CASE d.key = k
    BY <2>3, <2>5
  <2>6. CASE d.key # k
    <3>1. items'[d.key] = items[d.key]
      BY <1>2, <2>6 DEF AddLocked
    <3>2. QED
      BY <2>3, <2>4, <3>1
  <2>7. QED
    BY <2>5, <2>6
<1>3. ASSUME NEW p \in Deleters, NEW k \in Keys, DeleteStart(p, k)
      PROVE  DeletedBehind'
  BY <1>3, ShardOfKey DEF DeleteStart, Shards
<1>4. ASSUME NEW p \in Deleters, DeleteShard(p)
      PROVE  DeletedBehind'
  BY <1>4, ShardOfKey DEF DeleteShard, InShard, Shards
<1>5. ASSUME NEW p \in Deleters, DeleteReturn(p)
      PROVE  DeletedBehind'
  BY <1>5 DEF DeleteReturn
<1>6. CASE Clean
  BY <1>6 DEF Clean, CleanStart, CleanShard, CleanReturn
<1>7. QED
  BY <1>1, <1>2, <1>3, <1>4, <1>5, <1>6 DEF Next

(* No step leaves or brings an expired entry behind the clean-up. *)
LEMMA NextCleanedBehind ==
  ASSUME CacheAssumption, IInv, Next
  PROVE  CleanedBehind'
<1> USE DEF CacheAssumption, IInv, TypeOK, CleanedBehind, Expired
<1>1. CASE Tick \/ \E p \in Adders : AddStart(p)
  BY <1>1 DEF Tick, AddStart
<1>2. ASSUME NEW p \in Adders, AddLocked(p)
      PROVE  CleanedBehind'
  BY <1>2 DEF AddLocked
<1>3. ASSUME NEW p \in Deleters,
             (\E k \in Keys : DeleteStart(p, k)) \/ DeleteShard(p) \/ DeleteReturn(p)
      PROVE  CleanedBehind'
  BY <1>3 DEF DeleteStart, DeleteShard, DeleteReturn
<1>4. CASE CleanStart
  BY <1>4, ShardOfKey DEF CleanStart, Shards
<1>5. CASE CleanShard
  <2>1. /\ cleaner'.start = cleaner.start /\ cleaner'.added = cleaner.added
        /\ cleaner'.shard = cleaner.shard + 1 /\ cleaner'.at = "sweeping"
        /\ cleaner.shard \in Nat /\ cleaner.at = "sweeping"
    BY <1>5 DEF CleanShard
  <2>2. ASSUME NEW k \in Keys, getShard(k) < cleaner.shard + 1, Expired(k, cleaner.start)'
        PROVE  k \in cleaner.added
    <3>1. items'[k] = items[k] /\ Expired(k, cleaner.start)
      BY <1>5, <2>1, <2>2 DEF CleanShard
    <3>2. getShard(k) # cleaner.shard
      BY <1>5, <2>1, <2>2, <3>1 DEF CleanShard, InShard
    <3>3. getShard(k) \in Nat
      BY ShardOfKey DEF Shards
    <3>4. getShard(k) < cleaner.shard
      <4> HIDE DEF IInv, TypeOK, CleanedBehind, Expired
      <4>1. QED
        BY <2>1, <2>2, <3>2, <3>3
    <3>5. QED
      BY <2>1, <3>1, <3>4
  <2>3. QED
    BY <2>1, <2>2
<1>6. CASE CleanReturn
  BY <1>6 DEF CleanReturn
<1>7. QED
  BY <1>1, <1>2, <1>3, <1>4, <1>5, <1>6 DEF Next, Clean

(* The clean-up began no later than now. *)
LEMMA NextStartedBefore ==
  ASSUME CacheAssumption, IInv, Next
  PROVE  cleaner'.start <= now'
<1>1. cleaner.start \in Nat /\ now \in Nat /\ cleaner.start <= now
  BY DEF IInv, TypeOK
<1>2. now' \in {now, now + 1} /\ now <= now'
  BY <1>1 DEF Next, Tick, AddStart, AddLocked, DeleteStart, DeleteShard, DeleteReturn,
              Clean, CleanStart, CleanShard, CleanReturn
<1>3. cleaner'.start = cleaner.start \/ (cleaner'.start = now /\ now' = now)
  BY DEF IInv, TypeOK, Next, Tick, AddStart, AddLocked, DeleteStart, DeleteShard,
         DeleteReturn, Clean, CleanStart, CleanShard, CleanReturn
<1>4. QED
  BY <1>1, <1>2, <1>3

(* IInv is inductive: it holds in every reachable state.                   *)
THEOREM Inductive ==
  ASSUME CacheAssumption
  PROVE  Spec => []IInv
<1>1. IInv /\ [Next]_vars => IInv'
  <2> SUFFICES ASSUME IInv, [Next]_vars PROVE IInv'
    OBVIOUS
  <2>1. CASE Next
    BY <2>1, NextTypeOK, NextDeletedBehind, NextCleanedBehind, NextStartedBefore
       DEF IInv
  <2>2. CASE UNCHANGED vars
    BY <2>2 DEF vars, IInv, TypeOK, DeletedBehind, CleanedBehind, Expired
  <2>3. QED
    BY <2>1, <2>2
<1>2. QED
  <2>1. Init => IInv
    BY InitIInv
  <2>2. QED
    BY <1>1, <2>1, PTL DEF Spec

(* Every key has a shard, and every call that visits the shards is at one  *)
(* of them or past the last.                                               *)
THEOREM TypeCorrect ==
  ASSUME CacheAssumption
  PROVE  Spec => []TypeOK
<1>1. IInv => TypeOK
  BY DEF IInv
<1>2. QED
  BY <1>1, Inductive, PTL

(* DeleteItem removes its key: when it has been through the shards, the    *)
(* key is there only if it was added meanwhile, however many other calls   *)
(* ran between its locks.                                                  *)
THEOREM DeleteRemovesKeyHolds ==
  ASSUME CacheAssumption
  PROVE  Spec => []DeleteRemovesKey
<1>1. IInv => DeleteRemovesKey
  BY ShardOfKey DEF CacheAssumption, IInv, TypeOK, DeletedBehind, DeleteRemovesKey, Shards
<1>2. QED
  BY <1>1, Inductive, PTL

(* The clean-up removes what had expired when it began.                    *)
THEOREM CleanUpRemovesExpiredHolds ==
  ASSUME CacheAssumption
  PROVE  Spec => []CleanUpRemovesExpired
<1>1. IInv => CleanUpRemovesExpired
  BY ShardOfKey
     DEF CacheAssumption, IInv, TypeOK, CleanedBehind, CleanUpRemovesExpired, Shards
<1>2. QED
  BY <1>1, Inductive, PTL

(* The clean-up, which compares with the time it began, never removes an   *)
(* entry that can still be read.                                           *)
THEOREM LiveEntriesStayHolds ==
  ASSUME CacheAssumption
  PROVE  Spec => LiveEntriesStay
<1>1. IInv /\ [Next]_vars =>
        \A k \in Keys : GetItem(k, now) /\ ~GetItem(k, now)' /\ now' = now =>
          \/ \E p \in Adders : AddLocked(p)
          \/ \E p \in Deleters : deleting[p].key # NoKey
  <2> SUFFICES ASSUME IInv, [Next]_vars, NEW k \in Keys,
                      GetItem(k, now), ~GetItem(k, now)', now' = now,
                      \A p \in Adders : ~AddLocked(p),
                      \A p \in Deleters : deleting[p].key = NoKey
               PROVE  FALSE
    OBVIOUS
  <2>1. items'[k] # items[k]
    BY DEF GetItem, Expired
  <2>2. CleanShard
    BY <2>1 DEF Next, Tick, AddStart, DeleteStart, DeleteShard, DeleteReturn, Clean,
                CleanStart, CleanReturn, vars
  <2>3. Expired(k, cleaner.start)
    BY <2>1, <2>2 DEF CleanShard, IInv, TypeOK
  <2>4. Expired(k, now)
    BY <2>3 DEF Expired, IInv, TypeOK
  <2>5. QED
    BY <2>4 DEF GetItem
<1>2. QED
  BY <1>1, Inductive, PTL DEF Spec, LiveEntriesStay
-----------------------------------------------------------------------------
(* A shard that a DeleteItem has left has no entry but those added since   *)
(* the DeleteItem began, whatever their keys.                              *)
EmptiedBehind ==
  \A p \in Deleters, k \in Keys :
    deleting[p].key # NoKey /\ getShard(k) < deleting[p].shard =>
      items[k] = Absent \/ k \in deleting[p].added

LEMMA NextEmptiedBehind ==
  ASSUME CacheAssumption, TypeOK, EmptiedBehind, [Next]_vars
  PROVE  EmptiedBehind'
<1> USE DEF CacheAssumption, TypeOK, EmptiedBehind
<1>1. CASE UNCHANGED vars \/ Tick \/ \E p \in Adders : AddStart(p)
  BY <1>1 DEF vars, Tick, AddStart, getShard
<1>2. ASSUME NEW p \in Adders, AddLocked(p)
      PROVE  EmptiedBehind'
  <2> DEFINE added == adding[p].key
  <2>1. \A k \in Keys : k # added => items'[k] = items[k]
    BY <1>2 DEF AddLocked
  <2>2. ASSUME NEW q \in Deleters
        PROVE  /\ deleting'[q].key = deleting[q].key /\ deleting'[q].shard = deleting[q].shard
               /\ deleting'[q].added = deleting[q].added \cup {added}
    <3>1. deleting'[q] = [deleting[q] EXCEPT !.added = @ \cup {added}]
      BY <1>2 DEF AddLocked
    <3>2. deleting[q] \in [key : Keys \cup {NoKey}, shard : 0..NumShards, added : SUBSET Keys]
      OBVIOUS
    <3>3. QED
      BY <3>1, <3>2
  <2>3. QED
    BY <2>1, <2>2 DEF getShard
<1>3. ASSUME NEW p \in Deleters, NEW k \in Keys, DeleteStart(p, k)
      PROVE  EmptiedBehind'
  BY <1>3, ShardOfKey DEF DeleteStart, Shards, getShard
<1>4. ASSUME NEW p \in Deleters, DeleteShard(p)
      PROVE  EmptiedBehind'
  <2> SUFFICES ASSUME NEW q \in Deleters, NEW k \in Keys, deleting'[q].key # NoKey,
                      getShard(k) < deleting'[q].shard
               PROVE  items'[k] = Absent \/ k \in deleting'[q].added
    BY DEF getShard
  <2>1. items'[k] \in {items[k], Absent}
    BY <1>4 DEF DeleteShard
  <2>2. deleting'[q].key = deleting[q].key /\ deleting'[q].added = deleting[q].added
    BY <1>4 DEF DeleteShard
  <2>3. CASE q # p \/ getShard(k) # deleting[p].shard
    <3>1. /\ q # p => deleting'[q].shard = deleting[q].shard
          /\ q = p => deleting'[q].shard = deleting[q].shard + 1
      <4>1. deleting' = [deleting EXCEPT ![p].shard = deleting[p].shard + 1]
        BY <1>4 DEF DeleteShard
      <4>2. q # p => deleting'[q] = deleting[q]
        BY <4>1
      <4>3. deleting'[p] = [deleting[p] EXCEPT !.shard = deleting[p].shard + 1]
        BY <4>1
      <4>4. QED
        BY <4>2, <4>3
    <3>2. getShard(k) \in Nat /\ deleting[q].shard \in Nat
      BY ShardOfKey DEF Shards
    <3>3. getShard(k) < deleting[q].shard
      <4> HIDE DEF TypeOK, EmptiedBehind
      <4>1. QED
        BY <2>3, <3>1, <3>2
    <3>4. QED
      BY <2>1, <2>2, <3>3
  <2>4. CASE getShard(k) = deleting[p].shard
    BY <1>4, <2>4 DEF DeleteShard, InShard
  <2>5. QED
    BY <2>3, <2>4
<1>5. ASSUME NEW p \in Deleters, DeleteReturn(p)
      PROVE  EmptiedBehind'
  BY <1>5 DEF DeleteReturn, getShard
<1>6. CASE Clean
  BY <1>6 DEF Clean, CleanStart, CleanShard, CleanReturn, getShard
<1>7. QED
  BY <1>1, <1>2, <1>3, <1>4, <1>5, <1>6 DEF Next

(* What the run cache_delete finds, for every cache: a DeleteItem that has *)
(* been through the shards leaves no entry of any key behind, unless it    *)
(* was added while the call ran.  SearchService's DeleteStale, which       *)
(* empties the index, rests on this.                                       *)
Emptied ==
  \A p \in Deleters :
    deleting[p].key # NoKey /\ deleting[p].shard = NumShards =>
      \A k \in Keys : items[k] = Absent \/ k \in deleting[p].added

THEOREM DeleteEmptiesCache ==
  ASSUME CacheAssumption
  PROVE  Spec => []Emptied
<1>1. Init => EmptiedBehind
  BY DEF Init, EmptiedBehind
<1>2. TypeOK /\ EmptiedBehind /\ [Next]_vars => EmptiedBehind'
  BY NextEmptiedBehind
<1>3. ASSUME TypeOK, EmptiedBehind
      PROVE  Emptied
  <2> SUFFICES ASSUME NEW p \in Deleters, NEW k \in Keys,
                      deleting[p].key # NoKey, deleting[p].shard = NumShards
               PROVE  items[k] = Absent \/ k \in deleting[p].added
    BY DEF Emptied
  <2>1. getShard(k) < NumShards
    BY ShardOfKey DEF CacheAssumption, Shards
  <2>2. getShard(k) < deleting[p].shard
    BY <2>1
  <2>3. QED
    BY <1>3, <2>2 DEF EmptiedBehind
<1>4. QED
  BY <1>1, <1>2, <1>3, TypeCorrect, PTL DEF Spec
-----------------------------------------------------------------------------
(* The clean-up has ended and the key has an expired entry.                *)
Forgotten(k) == cleaner.at = "gone" /\ Expired(k, now)

(* The steps that take or replace an entry of key k when nobody sweeps.    *)
Touch(k) ==
  \/ \E p \in Adders : AddLocked(p) /\ adding[p].key = k
  \/ \E p \in Deleters : DeleteShard(p)

LEMMA ForgottenStep ==
  ASSUME CacheAssumption, NEW k \in Keys, IInv, Forgotten(k), [Next]_vars, ~Touch(k)
  PROVE  Forgotten(k)'
<1> USE DEF CacheAssumption, IInv, TypeOK, Forgotten, Expired
<1>1. CASE Tick
  BY <1>1 DEF Tick
<1>2. CASE UNCHANGED vars \/ \E p \in Adders : AddStart(p)
  BY <1>2 DEF vars, AddStart
<1>3. ASSUME NEW p \in Adders, AddLocked(p)
      PROVE  Forgotten(k)'
  <2>1. items'[k] = items[k]
    BY <1>3 DEF AddLocked, Touch
  <2>2. QED
    BY <1>3, <2>1 DEF AddLocked
<1>4. ASSUME NEW p \in Deleters,
             (\E j \in Keys : DeleteStart(p, j)) \/ DeleteShard(p) \/ DeleteReturn(p)
      PROVE  Forgotten(k)'
  BY <1>4 DEF DeleteStart, DeleteReturn, Touch
<1>5. CASE Clean
  BY <1>5 DEF Clean, CleanStart, CleanShard, CleanReturn
<1>6. QED
  BY <1>1, <1>2, <1>3, <1>4, <1>5 DEF Next

(* What the run cache_cleanup finds, for every cache: cleanUp sweeps once, *)
(* and after that an entry that has expired stays in the map for ever, if  *)
(* nobody adds its key again or calls DeleteItem.                          *)
THEOREM ExpiredAreKept ==
  ASSUME CacheAssumption, NEW k \in Keys
  PROVE  Spec /\ [][~Touch(k)]_vars => [](Forgotten(k) => []Forgotten(k))
<1>1. IInv /\ Forgotten(k) /\ [Next]_vars /\ [~Touch(k)]_vars => Forgotten(k)'
  <2>1. Forgotten(k) /\ UNCHANGED vars => Forgotten(k)'
    BY DEF Forgotten, Expired, vars
  <2>2. QED
    BY <2>1, ForgottenStep
<1>2. QED
  BY <1>1, Inductive, PTL DEF Spec
=============================================================================
