------------------------------- MODULE Restore -------------------------------
(***************************************************************************)
(* The messages of Master::restore: SyncBroadcast of the shard assignment,  *)
(* then of MTYPE_RESTORE.  SyncBroadcast waits until every worker has       *)
(* replied.  The network thread of a worker replies to a message when a     *)
(* callback is registered for its type; any other message it queues for the *)
(* main thread, which handles RESTORE in CheckForMasterUpdates.             *)
(***************************************************************************)
CONSTANTS Worker,       \* the workers
          Epoch,        \* the epoch of the last checkpoint.finished
          Fresh         \* the epoch of a worker that was started

VARIABLES
  master,               \* "ready", "assign", "restore" or "restored"
  wire,                 \* messages to the workers under way: {<<w, method>>}
  requests,             \* requests[method][source] of the workers
  replies,              \* replies of the workers that the master has
  epoch_,               \* epoch_[w]
  restoreDone           \* workers whose MTYPE_RESTORE_DONE is under way or queued

vars == <<master, wire, requests, replies, epoch_, restoreDone>>

(* The types with a callback, of the two.                                   *)
callbacks_ == {"SHARD_ASSIGNMENT"}

Init ==
  /\ master = "ready" /\ wire = {} /\ requests = {} /\ replies = {}
  /\ epoch_ = [w \in Worker |-> Fresh] /\ restoreDone = {}

(* SyncBroadcast, up to WaitForSync.                                        *)
Broadcast(method) == wire' = wire \cup (Worker \X {method})

(* WaitForSync: a reply of each worker to this method.                      *)
Synced(method) == Worker \X {method} \subseteq replies

restore ==
  /\ master = "ready"
  /\ master' = "assign" /\ Broadcast("SHARD_ASSIGNMENT")
  /\ UNCHANGED <<requests, replies, epoch_, restoreDone>>

TablesAssigned ==
  /\ master = "assign" /\ Synced("SHARD_ASSIGNMENT")
  /\ master' = "restore" /\ Broadcast("RESTORE")
  /\ UNCHANGED <<requests, replies, epoch_, restoreDone>>

Restored ==
  /\ master = "restore" /\ Synced("RESTORE")
  /\ master' = "restored"
  /\ UNCHANGED <<wire, requests, replies, epoch_, restoreDone>>

(* NetworkThread::Run of a worker.                                          *)
Receive(w, method) ==
  /\ <<w, method>> \in wire
  /\ wire' = wire \ {<<w, method>>}
  /\ IF method \in callbacks_
     THEN replies' = replies \cup {<<w, method>>} /\ UNCHANGED requests
     ELSE requests' = requests \cup {<<w, method>>} /\ UNCHANGED replies
  /\ UNCHANGED <<master, epoch_, restoreDone>>

(* Worker::Restore, from CheckForMasterUpdates.                             *)
WorkerRestore(w) ==
  /\ <<w, "RESTORE">> \in requests
  /\ requests' = requests \ {<<w, "RESTORE">>}
  /\ epoch_' = [epoch_ EXCEPT ![w] = Epoch]
  /\ restoreDone' = restoreDone \cup {w}
  /\ UNCHANGED <<master, wire, replies>>

Master == restore \/ TablesAssigned \/ Restored

OfWorker(w) ==
  WorkerRestore(w) \/ \E method \in {"SHARD_ASSIGNMENT", "RESTORE"} : Receive(w, method)

Next == Master \/ \E w \in Worker : OfWorker(w)

(* All threads run.                                                         *)
FairSpec ==
  Init /\ [][Next]_vars /\ WF_vars(Master) /\ \A w \in Worker : WF_vars(OfWorker(w))

(* restore returns after the workers have been told to restore (the call is *)
(* an attempt that ends in true or false: master.h:142-143).                *)
RestoreReturns == master = "restore" ~> master = "restored"
=============================================================================
