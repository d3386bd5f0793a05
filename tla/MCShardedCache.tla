--------------------------- MODULE MCShardedCache ---------------------------
(* Three keys, the first two of them in the same shard. *)
EXTENDS ShardedCache, TLC

CONSTANTS k1, k2, k3

MCHash == k1 :> 4 @@ k2 :> 2 @@ k3 :> 7
=============================================================================
