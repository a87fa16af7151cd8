------------------------------ MODULE HashTable ------------------------------
(***************************************************************************)
(* The open addressing that StateTable and DeltaTable share.  A table is    *)
(*   size    : size_                                                        *)
(*   buckets : 0 .. size - 1 -> the bucket's key and value, or Free         *)
(*   entries : entries_                                                     *)
(***************************************************************************)
EXTENDS Integers, FiniteSets, FiniteSetsExt, Sequences, SequencesExt, TLC

CONSTANTS
  Key,              \* the keys
  Value,            \* the values
  Plus(_, _),       \* IterateKernel::accumulate
  Hash(_),          \* hashobj_
  Free              \* a bucket with in_use = 0

VARIABLES
  table,            \* buckets_, size_ and entries_
  map               \* what the calls promise, as a function of keys

vars == <<table, map>>

ASSUME HashTableAssumption ==
  /\ \A k \in Key : Hash(k) \in Nat
  /\ \A v, w \in Value : Plus(v, w) \in Value
  /\ \A k \in Key, v \in Value : [k |-> k, v |-> v] # Free

Used(t) == {b \in DOMAIN t.buckets : t.buckets[b] # Free}

(* clear: no bucket is in use.                                              *)
Empty(size) ==
  [size |-> size, buckets |-> [b \in 0 .. size - 1 |-> Free], entries |-> 0]

bucket_idx(t, k) == Hash(k) % t.size

(* The bucket where the search for k stops: the first one from bucket_idx   *)
(* on that is free or holds k, or bucket_idx itself after a whole round.    *)
Stop(t, k) ==
  LET at(i) == (bucket_idx(t, k) + i) % t.size
      ends  == {i \in 0 .. t.size - 1 :
                  t.buckets[at(i)] = Free \/ t.buckets[at(i)].k = k}
  IN IF ends = {} THEN bucket_idx(t, k) ELSE at(Min(ends))

(* bucket_for_key, -1 if there is none.                                     *)
bucket_for_key(t, k) ==
  LET b == Stop(t, k)
  IN IF t.buckets[b] # Free /\ t.buckets[b].k = k THEN b ELSE -1

contains(t, k) == bucket_for_key(t, k) # -1

get(t, k) == t.buckets[bucket_for_key(t, k)].v

update(t, k, v) == [t EXCEPT !.buckets[bucket_for_key(t, k)].v = v]

(* The end of put: k is written to the bucket where the search stopped.     *)
Store(t, k, v) ==
  [t EXCEPT !.buckets[Stop(t, k)] = [k |-> k, v |-> v], !.entries = @ + 1]

(* resize: the used buckets are put into the new ones in their order.  The  *)
(* new table is larger than what it takes, so none of these puts grows it.  *)
resize(t, size) ==
  IF size = t.size
  THEN t
  ELSE LET old == [i \in 1 .. t.size |-> t.buckets[i - 1]]
           put(u, e) == IF contains(u, e.k) THEN update(u, e.k, e.v) ELSE Store(u, e.k, e.v)
       IN FoldLeft(put, Empty(size), SelectSeq(old, LAMBDA e : e # Free))

IsTable(t) ==
  /\ t.size \in Nat \ {0}
  /\ t.buckets \in [0 .. t.size - 1 -> {Free} \cup [k : Key, v : Value]]
  /\ t.entries \in Nat

(* The map a client sees through contains and get.                          *)
Contents(t) == [k \in {j \in Key : contains(t, j)} |-> get(t, k)]

-----------------------------------------------------------------------------
(* Through contains and get the table is the map its calls promise: growth, *)
(* rehashing and collisions lose, duplicate or mix up no key, up to the     *)
(* last free bucket of a state table, which resize(num_nodes) has made      *)
(* large enough for the nodes of any shard.  And entries_ counts the used   *)
(* buckets: CHECK_EQ(old_entries, entries_) at the end of resize compares   *)
(* it (deltatable.h:254), empty() tells SendUpdates by it whether there is  *)
(* something to send, and the worker reports it as the size of a shard.     *)
IsMap ==
  /\ IsTable(table) /\ Contents(table) = map
  /\ table.entries = Cardinality(Used(table))
=============================================================================
