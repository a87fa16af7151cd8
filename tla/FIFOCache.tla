------------------------------ MODULE FIFOCache ------------------------------
(***************************************************************************)
(* FIFOCache (store/fifocache.h) over a KVMap (store/kvmap.h): a map and a  *)
(* queue of its keys in the order in which they came.                       *)
(***************************************************************************)
EXTENDS Naturals, Sequences, SequencesExt, FiniteSets, TLC

CONSTANTS
  Key, Value,
  CacheSize,    \* CACHE_SIZE
  MaxShows      \* bound: the calls of show

VARIABLES
  elements,     \* _elements: a function from the cached keys to their values
  keys,         \* keys: the queue
  shows         \* history: how often show was called

vars == <<elements, keys, shows>>

Init == elements = <<>> /\ keys = <<>> /\ shows = 0

containsKey(k) == k \in DOMAIN elements

(* KVMap::remove.                                                           *)
Dropped(map, k) == [j \in DOMAIN map \ {k} |-> map[j]]

(* KVMap::add: an old value is replaced.                                    *)
Added(map, k, v) == (k :> v) @@ map

(* Mutant of addCache: the queue is compared with one key too many.         *)
addCacheLate(k, v) ==
  /\ ~containsKey(k)
  /\ IF Len(keys) > CacheSize
     THEN /\ elements' = Added(Dropped(elements, Head(keys)), k, v)
          /\ keys' = Append(Tail(keys), k)
     ELSE /\ elements' = Added(elements, k, v)
          /\ keys' = Append(keys, k)
  /\ UNCHANGED shows

(* addCache, for a key that is not there (nothing happens for one that is). *)
addCache(k, v) ==
  /\ ~containsKey(k)
  /\ IF Len(keys) > CacheSize - 1
     THEN /\ elements' = Added(Dropped(elements, Head(keys)), k, v)
          /\ keys' = Append(Tail(keys), k)
     ELSE /\ elements' = Added(elements, k, v)
          /\ keys' = Append(keys, k)
  /\ UNCHANGED shows

(* show prints the queue, and empties it.                                   *)
show ==
  /\ shows < MaxShows
  /\ keys' = <<>>
  /\ shows' = shows + 1
  /\ UNCHANGED elements

Next == show \/ \E k \in Key, v \in Value : addCache(k, v)

Spec == Init /\ [][Next]_vars

-----------------------------------------------------------------------------
(* The queue holds cached keys only, none of them twice, so that the front  *)
(* that addCache evicts is always there; every call of show makes the keys  *)
(* it prints permanent, so that the cache holds as many generations of      *)
(* CACHE_SIZE keys as show was called, and one more.                        *)
FIFOBounded ==
  /\ ToSet(keys) \subseteq DOMAIN elements
  /\ IsInjective(keys)
  /\ shows = 0 => ToSet(keys) = DOMAIN elements
  /\ Cardinality(DOMAIN elements) <= CacheSize * (shows + 1)
=============================================================================
