------------------------------ MODULE LRUCache ------------------------------
(***************************************************************************)
(* LRUCache (store/lrucache.h): a map from keys to the nodes of a doubly    *)
(* linked list that holds them in the order of their last use.  The map has *)
(* at most one node for a key, so that a node is named by its key; what is  *)
(* stored in the nodes does not matter here.                                *)
(***************************************************************************)
EXTENDS Naturals, Sequences, SequencesExt, FiniteSets

CONSTANTS
  Key,          \* the keys
  MaxSize,      \* m_maxSize
  Elasticity,   \* m_elasticity
  Null          \* the null pointer

VARIABLES
  cached,       \* the keys of m_cache
  keys,         \* m_keys: head, tail, size, and the links of the nodes
  uses          \* history: the keys, in the order of their last uses

vars == <<cached, keys, uses>>

NoLinks == [k \in Key |-> Null]

EmptyList ==
  [head |-> Null, tail |-> Null, size |-> 0, next |-> NoLinks, prev |-> NoLinks]

Init == cached = {} /\ keys = EmptyList /\ uses = <<>>

-----------------------------------------------------------------------------
(* The list                                                                 *)

(* Node::unlink of node n of list l.                                        *)
unlink(l, n) ==
  LET after == l.next[n]
      before == l.prev[n]
  IN [l EXCEPT
        !.prev = [k \in Key |-> IF k = n THEN Null
                                ELSE IF k = after THEN before ELSE @[k]],
        !.next = [k \in Key |-> IF k = n THEN Null
                                ELSE IF k = before THEN after ELSE @[k]]]

(* List::pop, as the list it leaves.                                        *)
pop(l) ==
  [unlink(l, l.head) EXCEPT !.head = l.next[l.head],
                            !.size = @ - 1,
                            !.tail = IF l.size = 1 THEN Null ELSE @]

(* Mutant of remove: the tail is not moved.                                 *)
removeKeepsTail(l, n) ==
  [unlink(l, n) EXCEPT !.head = IF n = @ THEN l.next[n] ELSE @,
                       !.size = @ - 1]

(* List::remove.                                                            *)
remove(l, n) ==
  [unlink(l, n) EXCEPT !.head = IF n = @ THEN l.next[n] ELSE @,
                       !.tail = IF n = @ THEN l.prev[n] ELSE @,
                       !.size = @ - 1]

(* List::push: to the end.                                                  *)
push(l, n) ==
  LET u == unlink(l, n)
  IN IF l.head = Null
     THEN [u EXCEPT !.head = n, !.tail = n, !.size = @ + 1]
     ELSE [u EXCEPT !.next[l.tail] = n, !.prev[n] = l.tail, !.tail = n,
                    !.size = @ + 1]

-----------------------------------------------------------------------------
(* The cache                                                                *)

Full(map) == MaxSize > 0 /\ Cardinality(map) >= MaxSize + Elasticity

(* prune: once the map is full, nodes are popped until MaxSize are left.    *)
prune(map, l) ==
  LET drop(c, i) == [map |-> c.map \ {c.list.head}, list |-> pop(c.list)]
      excess == IF Full(map) THEN Cardinality(map) - MaxSize ELSE 0
  IN FoldLeft(drop, [map |-> map, list |-> l], [i \in 1 .. excess |-> i])

Without(k) == SelectSeq(uses, LAMBDA j : j # k)

(* insert: a key that is there is moved to the end of the list.             *)
insert(k) ==
  /\ IF k \in cached
     THEN keys' = push(remove(keys, k), k) /\ UNCHANGED cached
     ELSE LET pruned == prune(cached \cup {k}, push(keys, k))
          IN keys' = pruned.list /\ cached' = pruned.map
  /\ uses' = Append(Without(k), k)

(* get, when it does not throw KeyNotFound.                                 *)
get(k) ==
  /\ k \in cached
  /\ keys' = push(remove(keys, k), k)
  /\ uses' = Append(Without(k), k)
  /\ UNCHANGED cached

(* LRUCache::remove.                                                        *)
removeKey(k) ==
  /\ k \in cached
  /\ keys' = remove(keys, k)
  /\ cached' = cached \ {k}
  /\ uses' = Without(k)

clear == cached' = {} /\ keys' = EmptyList /\ uses' = <<>>

Next ==
  \/ \E k \in Key : insert(k) \/ get(k) \/ removeKey(k)
  \/ clear

Spec == Init /\ [][Next]_vars

-----------------------------------------------------------------------------
(* The map and the list describe the same keys, and the list holds them in  *)
(* the order of their last uses, linked both ways from head to tail: what   *)
(* prune pops is what was used the longest ago, and remove and push, which  *)
(* rewrite up to six pointers, leave no node behind and none pointing to    *)
(* one that is gone.  The cache may exceed MaxSize, but only by less than   *)
(* its elasticity.                                                          *)
KeepsRecent ==
  LET n == Cardinality(cached)
      recent == SubSeq(uses, Len(uses) - n + 1, Len(uses))
      at(i) == IF i \in 1 .. n THEN recent[i] ELSE Null
  IN /\ ToSet(recent) = cached
     /\ keys.size = n /\ keys.head = at(1) /\ keys.tail = at(n)
     /\ \A i \in 1 .. n : /\ keys.next[at(i)] = at(i + 1)
                          /\ keys.prev[at(i)] = at(i - 1)
     /\ \A k \in Key \ cached : keys.next[k] = Null /\ keys.prev[k] = Null
     /\ MaxSize > 0 => n < MaxSize + Elasticity \/ n <= MaxSize
=============================================================================
