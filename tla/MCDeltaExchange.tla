-------------------------- MODULE MCDeltaExchange --------------------------
(* Two workers with one shard each.  Node a links to remote nodes and to    *)
(* itself, b and c link across the shards, so that local, remote and mixed  *)
(* outputs all happen, and one output can overflow the buffer.              *)
EXTENDS DeltaExchange, TLC

CONSTANTS w1, w2, a, b, c

MCWorker == {w1, w2}
MCShard == {0, 1}
MCKey == {a, b, c}
MCShardOf == (a :> 0) @@ (b :> 1) @@ (c :> 1)
MCOwner == (0 :> w1) @@ (1 :> w2)
MCLinks == (a :> {a, b, c}) @@ (b :> {a}) @@ (c :> {b})
MCOneEach == (w1 :> 1) @@ (w2 :> 1)
============================================================================
