-------------------------- MODULE AccumulatorTable --------------------------
(***************************************************************************)
(* What the distributed table promises the kernels that use it.  A worker  *)
(* that iterates over a key moves the key's accumulated delta (field F1)    *)
(* into its value (field F2) and issues updates for other keys.  An issued  *)
(* update is accumulated in the F1 field of its key once, later, in any     *)
(* order; nothing else ever changes F1 or F2.  Sharding, buffering,         *)
(* messages and threads are invisible here.                                 *)
(***************************************************************************)
CONSTANTS Key,        \* node identifiers
          Update      \* the updates that can be issued; u.key is the target

VARIABLES table,      \* the keys that have been loaded
          F1,         \* F1[k]: the updates accumulated in k's delta
          F2,         \* F2[k]: the updates already folded into k's value
          inFlight    \* issued and not yet accumulated

vars == <<table, F1, F2, inFlight>>

Init ==
  /\ table = {}
  /\ F1 = [k \in Key |-> {}]
  /\ F2 = [k \in Key |-> {}]
  /\ inFlight = {}

(* Keys enter the table; a key enters once, with its initial delta.         *)
Load(k) ==
  /\ k \notin table
  /\ table' = table \cup {k}
  /\ F1'[k] \subseteq {u \in Update : u.key = k}
  /\ F1' = [F1 EXCEPT ![k] = F1'[k]]
  /\ UNCHANGED <<F2, inFlight>>

(* One iteration over k: its delta becomes part of its value, and updates   *)
(* that were never seen before are issued.                                  *)
Iterate(k) ==
  /\ k \in table
  /\ inFlight \subseteq inFlight'
  /\ \A u \in inFlight' \ inFlight :
        u \in Update /\ u \notin F1[u.key] \cup F2[u.key]
  /\ F2' = [F2 EXCEPT ![k] = @ \cup F1[k]]
  /\ F1' = [F1 EXCEPT ![k] = {}]
  /\ UNCHANGED table

(* Some of the updates in flight reach the deltas of their keys.            *)
Apply ==
  /\ inFlight' \subseteq inFlight
  /\ F1' = [k \in Key |-> F1[k] \cup {u \in inFlight \ inFlight' : u.key = k}]
  /\ UNCHANGED <<table, F2>>

Next ==
  \/ \E k \in Key : Load(k) \/ Iterate(k)
  \/ Apply

Spec == Init /\ [][Next]_vars
=============================================================================
