----------------------------- MODULE StateTable -----------------------------
(***************************************************************************)
(* StateTable: the partition of a local shard.  MaiterKernel1 resizes it to *)
(* the number of nodes of a shard before the keys are put; put itself grows *)
(* it only when it counts more entries than buckets.  One value stands for  *)
(* the fields of a row.                                                     *)
(***************************************************************************)
EXTENDS HashTable

CONSTANTS
  NumNodes,         \* MaiterKernel::num_nodes
  NumShards         \* partitions_.size()

ASSUME StateTableAssumption ==
  NumNodes \in Nat /\ NumShards \in Nat \ {0}

(* put: a new key grows the table when entries_ > size_, and counts twice   *)
(* then.  Otherwise it takes the bucket where the search stopped.           *)
put(t, k, v) ==
  IF contains(t, k) THEN update(t, k, v)
  ELSE IF t.entries > t.size
       THEN LET grown == Store(resize(t, 1 + 2 * t.size), k, v)
            IN [grown EXCEPT !.entries = @ + 1]
  ELSE Store(t, k, v)

(* Mutant of InitialSize: the remainder of the division is forgotten.       *)
InitialSizeRounded == NumNodes \div NumShards

(* MutableGlobalTableBase::resize.                                          *)
InitialSize == NumNodes \div NumShards + 1

(* InitStateTable, then resize(num_nodes).                                  *)
Init == table = Empty(InitialSize) /\ map = <<>>

Put(k, v) == table' = put(table, k, v) /\ map' = (k :> v) @@ map

(* updateF1, updateF2 and updateF3 abort when the key is missing.           *)
Update(k, v) ==
  contains(table, k) /\ table' = update(table, k, v) /\ map' = (k :> v) @@ map

(* So do accumulateF1 and accumulateF2.                                     *)
accumulate(k, v) ==
  /\ contains(table, k)
  /\ table' = update(table, k, Plus(get(table, k), v))
  /\ map' = (k :> Plus(map[k], v)) @@ map

clear == table' = Empty(table.size) /\ map' = <<>>

Next ==
  \/ \E k \in Key, v \in Value : Put(k, v) \/ Update(k, v) \/ accumulate(k, v)
  \/ clear

Spec == Init /\ [][Next]_vars

-----------------------------------------------------------------------------
(* A key that was put stays in the table, which "will be expanded as        *)
(* necessary" (statetable.h:283).                                           *)
KeysKept == \A k \in DOMAIN map : contains(table, k)
=============================================================================
