-------------------------- MODULE MCCacheAmbassador --------------------------
(* An instance of CacheAmbassador for TLC: two keys on two shards, one       *)
(* client that sends whatever there is and one that sends a keyed command.   *)
EXTENDS CacheAmbassador, TLC

CONSTANTS c1, c2, k1, k2, s1, s2

MCShardOf == k1 :> s1 @@ k2 :> s2
MCSends == c1 :> Keys \cup {"local", "quit", "blank", "garbled", "eof"} @@ c2 :> {k1}
MCMaxItems == c1 :> 2 @@ c2 :> 1
=============================================================================
