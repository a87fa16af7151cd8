------------------------------ MODULE MCTables ------------------------------
(***************************************************************************)
(* Instances for TLC of the tables of a worker: a state table, a delta      *)
(* table, or a delta table whose content is sent to the owner of its shard  *)
(* (UpdateMessages).                                                        *)
(***************************************************************************)
EXTENDS StateTable

CONSTANT Kinds      \* the kinds of instances looked at

VARIABLES
  kind,             \* the kind of this one
  x1, x2, x3, x4, x5, x6, x7, x8
                    \* the variables of UpdateMessages

updateVars == <<x1, x2, x3, x4, x5, x6, x7, x8>>

Delta == INSTANCE DeltaTable

(* Four keys that collide in tables of all sizes; four updates, enough for  *)
(* the table to grow to 3 and to 7 buckets and for a second message.        *)
Updates ==
  INSTANCE UpdateMessages WITH
    Key <- {0, 14, 28, 42}, MaxUpdates <- 4,
    table <- x1, map <- x2, pos <- x3, put_ <- x4, wire <- x5, decoded <- x6,
    intit <- x7, owned <- x8

(* The nodes 0 .. 70 in 14 shards by their number (Sharding::Mod): those of *)
(* shard 0.  They fill the six buckets that resize(71) gives a state table, *)
(* and make a delta table grow to 3 and to 7 buckets; they collide in       *)
(* tables of all these sizes.                                               *)
MCKey == {k \in 0 .. 70 : k % 14 = 0}
MCValue == 0 .. 1
MCPlus(v, w) == (v + w) % 2
MCHash(k) == k

MCInit ==
  /\ kind \in Kinds
  /\ IF kind = "delta" THEN Delta!Init ELSE Init
  /\ Updates!UpdateInit

MCNext ==
  /\ UNCHANGED kind
  /\ \/ kind = "state" /\ Next /\ UNCHANGED updateVars
     \/ kind = "delta" /\ Delta!Next /\ UNCHANGED updateVars
     \/ kind = "update" /\ Updates!UpdateNext /\ UNCHANGED vars

MCSpec == MCInit /\ [][MCNext]_<<vars, updateVars, kind>>

-----------------------------------------------------------------------------
(* No delta is lost, doubled or given to another key on its way from a      *)
(* delta table over serializeToNet and deserializeFromNet to the owner.     *)
UpdatesConserved == kind = "update" => Updates!UpdatesConserved
=============================================================================
