----------------------------- MODULE DeltaTable -----------------------------
(***************************************************************************)
(* DeltaTable: the partition of a shard that is not local, in which the     *)
(* deltas for its owner are combined until SendUpdates takes them.          *)
(***************************************************************************)
EXTENDS HashTable

(* kLoadFactor is 0.8.                                                      *)
Full(t) == 10 * t.entries > 8 * t.size

put(t, k, v) ==
  IF contains(t, k) THEN update(t, k, v)
  ELSE IF Full(t) THEN Store(resize(t, 1 + 2 * t.size), k, v)
  ELSE Store(t, k, v)

Init == table = Empty(1) /\ map = <<>>

Put(k, v) == table' = put(table, k, v) /\ map' = (k :> v) @@ map

Update(k, v) ==
  contains(table, k) /\ table' = update(table, k, v) /\ map' = (k :> v) @@ map

accumulate(k, v) ==
  IF contains(table, k)
  THEN /\ table' = update(table, k, Plus(get(table, k), v))
       /\ map' = [map EXCEPT ![k] = Plus(@, v)]
  ELSE Put(k, v)

clear == table' = Empty(table.size) /\ map' = <<>>

(* reset: back to one bucket.                                               *)
reset == table' = Empty(1) /\ map' = <<>>

Next ==
  \/ \E k \in Key, v \in Value : Put(k, v) \/ Update(k, v) \/ accumulate(k, v)
  \/ clear \/ reset

Spec == Init /\ [][Next]_vars
=============================================================================
