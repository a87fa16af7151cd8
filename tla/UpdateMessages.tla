--------------------------- MODULE UpdateMessages ---------------------------
(***************************************************************************)
(* From a delta table to the owner of its shard: SendUpdates walks over the *)
(* buckets and puts their entries into a KVPairData, which ApplyUpdates     *)
(* decodes into a list and accumulates from there.  One sender, one shard.  *)
(***************************************************************************)
EXTENDS DeltaTable

CONSTANT MaxUpdates     \* bound: the updates that are accumulated

VARIABLES
  pos,          \* pos of the DeltaTable's Iterator, -1 when there is none
  put_,         \* put: the entries written to the message so far
  wire,         \* the messages on their way, first one first
  decoded,      \* decodedeque of the receiver's NetDecodeIterator ...
  intit,        \* ... and its place in it, from 1
  owned         \* the owner's values

updateVars == <<table, map, pos, put_, wire, decoded, intit, owned>>

(* map, the history, has what was accumulated for each key.                 *)
UpdateInit ==
  /\ Init
  /\ pos = -1 /\ put_ = <<>>
  /\ wire = <<>> /\ decoded = <<>> /\ intit = 1
  /\ owned = [k \in Key |-> 0]

Updates == FoldFunction(+, 0, map)

(* accumulateF1 of a key of the shard, at the sender.                       *)
accumulateF1(k) ==
  /\ pos = -1 /\ Updates < MaxUpdates
  /\ table' = IF contains(table, k) THEN update(table, k, get(table, k) + 1)
              ELSE put(table, k, 1)
  /\ map' = IF k \in DOMAIN map THEN [map EXCEPT ![k] = @ + 1] ELSE (k :> 1) @@ map
  /\ UNCHANGED <<pos, put_, wire, decoded, intit, owned>>

(* Mutant of NextUsed: the walk starts behind the first bucket.             *)
NextUsedAfter(p) ==
  Min({b \in Used(table) : b > p + 1} \cup {table.size})

(* Next: the first bucket in use behind p, or the end.                      *)
NextUsed(p) == Min({b \in Used(table) : b > p} \cup {table.size})

(* SendUpdates, a partition that is not empty (Scheduler has the empty ones *)
(* that are dirty): the message is cleared and the iterator made, which     *)
(* goes to the first entry.                                                 *)
SendUpdates ==
  /\ pos = -1 /\ table.entries > 0
  /\ put_' = <<>>
  /\ pos' = NextUsed(-1)
  /\ UNCHANGED <<table, map, wire, decoded, intit, owned>>

WriteEntryToNet(e) == put_' = Append(put_, e)

(* serializeToNet, an entry.                                                *)
serializeToNet ==
  /\ pos # -1 /\ pos # table.size
  /\ WriteEntryToNet(table.buckets[pos])
  /\ pos' = NextUsed(pos)
  /\ UNCHANGED <<table, map, wire, decoded, intit, owned>>

(* The iterator is done: the table is reset and the message sent.           *)
Send ==
  /\ pos = table.size
  /\ table' = Empty(1)
  /\ wire' = Append(wire, put_)
  /\ pos' = -1
  /\ UNCHANGED <<map, put_, decoded, intit, owned>>

(* ApplyUpdates of the next message: deserializeFromNet, rewind at its end. *)
deserializeFromNet ==
  /\ intit > Len(decoded) /\ wire # <<>>
  /\ decoded' = Head(wire)
  /\ intit' = 1
  /\ wire' = Tail(wire)
  /\ UNCHANGED <<table, map, pos, put_, owned>>

(* The loop of ApplyUpdates: an entry is accumulated.                       *)
ApplyUpdates ==
  /\ intit <= Len(decoded)
  /\ owned' = [owned EXCEPT ![decoded[intit].k] = @ + decoded[intit].v]
  /\ intit' = intit + 1
  /\ UNCHANGED <<table, map, pos, put_, wire, decoded>>

UpdateNext ==
  \/ \E k \in Key : accumulateF1(k)
  \/ SendUpdates \/ serializeToNet \/ Send \/ deserializeFromNet \/ ApplyUpdates

UpdateSpec == UpdateInit /\ [][UpdateNext]_updateVars

-----------------------------------------------------------------------------
InMessage(m, k) == FoldLeft(LAMBDA sum, e : IF e.k = k THEN sum + e.v ELSE sum, 0, m)

(* No delta is lost, doubled or given to another key on the way: what was   *)
(* accumulated for a key is in the delta table, on the wire, in the decoded *)
(* message behind the iterator, or in the owner's table; growth and reset   *)
(* of the table and the walk over its buckets keep the sum.                 *)
UpdatesConserved ==
  \A k \in Key :
    (IF k \in DOMAIN map THEN map[k] ELSE 0) =
      (IF contains(table, k) THEN get(table, k) ELSE 0)
      + FoldLeft(LAMBDA sum, m : sum + InMessage(m, k), 0, wire)
      + InMessage(SubSeq(decoded, intit, Len(decoded)), k)
      + owned[k]
=============================================================================
