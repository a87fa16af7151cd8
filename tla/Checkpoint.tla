----------------------------- MODULE Checkpoint -----------------------------
(***************************************************************************)
(* Master::checkpoint() (start_checkpoint, finish_checkpoint) and the       *)
(* workers' side of it (CheckForMasterUpdates, StartCheckpoint,             *)
(* FinishCheckpoint, UpdateEpoch, HandlePutRequest).                        *)
(*                                                                          *)
(* There are two kinds.  For CP_MASTER_CONTROLLED the master sends START    *)
(* and FINISH to a worker and waits for DONE.  For CP_ROLLING it only sends *)
(* START; the workers tell each other with markers among the put requests   *)
(* that they have saved their tables, and a worker is done when it has the  *)
(* markers of all.  Until then it also logs the put requests its peers sent *)
(* before they saved theirs.                                                *)
(*                                                                          *)
(* A saved table is the set of put requests that were applied to it.        *)
(* The tables are such that serializeToFile works (a StateTable's does not: *)
(* it calls get_iterator without a helper).                                 *)
(***************************************************************************)
EXTENDS Naturals, FiniteSets, Sequences, SequencesExt

CONSTANTS
  NumWorkers,       \* config_.num_workers()
  Jobs              \* what may happen, a set of records:
                    \*   types   checkpoint_type of the checkpoints, in turn
                    \*   puts    bound: the put requests sent
                    \*   inOrder FALSE: pending_sends_ is a stack, as in rpc.cc

Worker == 0 .. NumWorkers - 1

ASSUME CheckpointAssumption ==
  /\ NumWorkers \in Nat \ {0}
  /\ \A j \in Jobs : /\ j.types \in Seq({"MASTER_CONTROLLED", "ROLLING"})
                     /\ j.puts \in Nat /\ j.inOrder \in BOOLEAN

VARIABLES
  job,              \* the member of Jobs that happens
  (* the master *)
  master,           \* "ready", "finish" or "wait": where checkpoint() is
  turn,             \* the worker finish_checkpoint is at
  checkpoint_epoch_,
  checkpointing,    \* workers with WorkerState::checkpointing
  (* the workers *)
  pc,               \* pc[w]: the loop of CheckForMasterUpdates it is in
  epoch_,           \* epoch_[w]
  active_checkpoint_,
  peers_,           \* peers_[w][v]: the epoch w knows v to be in
  applied,          \* applied[w]: put requests applied to the tables of w
  saved,            \* saved[w]: what the checkpoint of epoch_[w] holds
  committed,        \* committed[w]: last epoch saved whose delta log is closed
  (* messages *)
  toWorker,         \* toWorker[w]: from the master, under way
  starts,           \* starts[w]: MTYPE_START_CHECKPOINT received
  finishes,         \* finishes[w]: number of MTYPE_FINISH_CHECKPOINT received
  dones,            \* dones[w]: number of MTYPE_CHECKPOINT_DONE of w not read
  chan,             \* chan[v][w]: MTYPE_PUT_REQUEST from v to w
  sent              \* the put requests with data that were sent

masterVars == <<job, master, turn, checkpoint_epoch_, checkpointing>>
workerVars == <<pc, epoch_, active_checkpoint_, peers_, applied, saved, committed>>
netVars    == <<toWorker, starts, finishes, dones, chan, sent>>
vars == <<masterVars, workerVars, netVars>>

Epoch == 0 .. Len(job.types)
Start(e) == [tag |-> "START", epoch |-> e, type |-> job.types[e]]
Finish == [tag |-> "FINISH"]
Marker(e) == [marker |-> e]
Put == [number : 1 .. job.puts, to : Worker, epoch : Epoch]
IsMarker(m) == "marker" \in DOMAIN m

TypeOK ==
  /\ job \in Jobs
  /\ master \in {"ready", "finish", "wait"}
  /\ turn \in 0 .. NumWorkers
  /\ checkpoint_epoch_ \in Epoch
  /\ checkpointing \subseteq Worker
  /\ pc \in [Worker -> {"starts", "finishes"}]
  /\ epoch_ \in [Worker -> Epoch]
  /\ active_checkpoint_ \in [Worker -> {"NONE", "MASTER_CONTROLLED", "ROLLING"}]
  /\ peers_ \in [Worker -> [Worker -> Epoch]]
  /\ applied \in [Worker -> SUBSET Put]
  /\ saved \in [Worker -> SUBSET Put]
  /\ committed \in [Worker -> Epoch]
  /\ \A w \in Worker :
       /\ ToSet(toWorker[w]) \subseteq {Finish} \cup {Start(e) : e \in Epoch \ {0}}
       /\ ToSet(starts[w]) \subseteq {Start(e) : e \in Epoch \ {0}}
       /\ \A v \in Worker : ToSet(chan[v][w]) \subseteq Put \cup {Marker(e) : e \in Epoch}
  /\ finishes \in [Worker -> Nat]
  /\ dones \in [Worker -> Nat]
  /\ sent \subseteq Put

Init ==
  /\ job \in Jobs
  /\ master = "ready" /\ turn = 0 /\ checkpoint_epoch_ = 0 /\ checkpointing = {}
  /\ pc = [w \in Worker |-> "starts"]
  /\ epoch_ = [w \in Worker |-> 0]
  /\ active_checkpoint_ = [w \in Worker |-> "NONE"]
  /\ peers_ = [w \in Worker |-> [v \in Worker |-> 0]]
  /\ applied = [w \in Worker |-> {}]
  /\ saved = [w \in Worker |-> {}]
  /\ committed = [w \in Worker |-> 0]
  /\ toWorker = [w \in Worker |-> <<>>]
  /\ starts = [w \in Worker |-> <<>>]
  /\ finishes = [w \in Worker |-> 0]
  /\ dones = [w \in Worker |-> 0]
  /\ chan = [v \in Worker |-> [w \in Worker |-> <<>>]]
  /\ sent = {}

type == job.types[checkpoint_epoch_]

(* Which messages of a channel may come next.  The sender's network thread  *)
(* takes pending_sends_ from the back, so that of the messages that are     *)
(* pending together the last one is sent first; any order includes this.    *)
NextOf(q) == {i \in 1 .. Len(q) : job.inOrder => i = 1}

-----------------------------------------------------------------------------
(* The master                                                               *)

(* checkpoint(): start_checkpoint and start_worker_checkpoint for all.      *)
start_checkpoint ==
  /\ master = "ready" /\ checkpoint_epoch_ < Len(job.types)
  /\ master' = "finish" /\ turn' = 0
  /\ checkpoint_epoch_' = checkpoint_epoch_ + 1
  /\ checkpointing' = Worker
  /\ toWorker' = [w \in Worker |-> Append(toWorker[w], Start(checkpoint_epoch_ + 1))]
  /\ UNCHANGED <<job, workerVars, starts, finishes, dones, chan, sent>>

(* Mutant of finish_worker_checkpoint: FINISH is sent for any type.         *)
finish_worker_checkpointAny ==
  /\ master = "finish" /\ turn < NumWorkers
  /\ master' = "wait"
  /\ toWorker' = [toWorker EXCEPT ![turn] = Append(@, Finish)]
  /\ UNCHANGED <<job, turn, checkpoint_epoch_, checkpointing, workerVars, starts,
                 finishes, dones, chan, sent>>

(* finish_worker_checkpoint, up to Read.                                    *)
finish_worker_checkpoint ==
  /\ master = "finish" /\ turn < NumWorkers
  /\ master' = "wait"
  /\ toWorker' = IF type = "MASTER_CONTROLLED"
                 THEN [toWorker EXCEPT ![turn] = Append(@, Finish)]
                 ELSE toWorker
  /\ UNCHANGED <<job, turn, checkpoint_epoch_, checkpointing, workerVars, starts,
                 finishes, dones, chan, sent>>

(* MTYPE_CHECKPOINT_DONE is read.                                           *)
ReadDone ==
  /\ master = "wait" /\ dones[turn] > 0
  /\ master' = "finish"
  /\ dones' = [dones EXCEPT ![turn] = @ - 1]
  /\ checkpointing' = checkpointing \ {turn}
  /\ turn' = turn + 1
  /\ UNCHANGED <<job, checkpoint_epoch_, workerVars, toWorker, starts, finishes,
                 chan, sent>>

(* finish_checkpoint writes checkpoint.finished, and checkpoint() returns.  *)
finish_checkpoint ==
  /\ master = "finish" /\ turn = NumWorkers
  /\ master' = "ready"
  /\ UNCHANGED <<job, turn, checkpoint_epoch_, checkpointing, workerVars, netVars>>

-----------------------------------------------------------------------------
(* The workers                                                              *)

(* Mutant of Receive: one queue for all types.                              *)
ReceiveOneQueue(w) ==
  /\ \E i \in NextOf(toWorker[w]) :
       /\ toWorker' = [toWorker EXCEPT ![w] = RemoveAt(@, i)]
       /\ starts' = [starts EXCEPT ![w] = Append(@, toWorker[w][i])]
  /\ UNCHANGED <<masterVars, workerVars, finishes, dones, chan, sent>>

(* The network thread of w queues a message of the master by its type.      *)
Receive(w) ==
  /\ \E i \in NextOf(toWorker[w]) :
       LET m == toWorker[w][i] IN
       /\ toWorker' = [toWorker EXCEPT ![w] = RemoveAt(@, i)]
       /\ IF m.tag = "START"
          THEN starts' = [starts EXCEPT ![w] = Append(@, m)] /\ UNCHANGED finishes
          ELSE finishes' = [finishes EXCEPT ![w] = @ + 1] /\ UNCHANGED starts
  /\ UNCHANGED <<masterVars, workerVars, dones, chan, sent>>

(* StartCheckpoint for a new epoch: every table is saved, a delta log opened.*)
Save(w, e) ==
  /\ epoch_' = [epoch_ EXCEPT ![w] = e]
  /\ saved' = [saved EXCEPT ![w] = applied[w]]

(* Mutant of SendMarkers: a worker leaves out itself.                       *)
SendMarkersToPeers(w, e, c) ==
  [c EXCEPT ![w] = [v \in Worker |-> IF v = w THEN @[v] ELSE Append(@[v], Marker(e))]]

(* The markers of a rolling checkpoint, to all workers, the sender included.*)
SendMarkers(w, e, c) ==
  [c EXCEPT ![w] = [v \in Worker |-> Append(@[v], Marker(e))]]

(* FinishCheckpoint closes the logs that are open and sends DONE.           *)
FinishCheckpoint(w, e) ==
  /\ committed' = [committed EXCEPT ![w] = e]
  /\ dones' = [dones EXCEPT ![w] = @ + 1]

(* The first loop of CheckForMasterUpdates: a START is read.  A worker that *)
(* is in the epoch already, because of a peer's marker, skips it.           *)
ReadStart(w) ==
  /\ pc[w] = "starts" /\ starts[w] # <<>>
  /\ LET m == Head(starts[w]) IN
     IF epoch_[w] >= m.epoch
     THEN UNCHANGED <<epoch_, saved, active_checkpoint_, chan>>
     ELSE /\ Save(w, m.epoch)
          /\ active_checkpoint_' = [active_checkpoint_ EXCEPT ![w] = m.type]
          /\ chan' = IF m.type = "ROLLING" THEN SendMarkers(w, m.epoch, chan) ELSE chan
  /\ starts' = [starts EXCEPT ![w] = Tail(@)]
  /\ UNCHANGED <<masterVars, pc, peers_, applied, committed, toWorker, finishes,
                 dones, sent>>

(* ... and finds no more.                                                   *)
NoMoreStarts(w) ==
  /\ pc[w] = "starts" /\ starts[w] = <<>>
  /\ pc' = [pc EXCEPT ![w] = "finishes"]
  /\ UNCHANGED <<masterVars, epoch_, active_checkpoint_, peers_, applied, saved,
                 committed, netVars>>

(* The second loop: a FINISH is read.                                       *)
ReadFinish(w) ==
  /\ pc[w] = "finishes" /\ finishes[w] > 0
  /\ finishes' = [finishes EXCEPT ![w] = @ - 1]
  /\ active_checkpoint_' = [active_checkpoint_ EXCEPT ![w] = "NONE"]
  /\ peers_' = [peers_ EXCEPT ![w] = [v \in Worker |-> epoch_[w]]]
  /\ FinishCheckpoint(w, epoch_[w])
  /\ UNCHANGED <<masterVars, pc, epoch_, applied, saved, toWorker, starts, chan, sent>>

NoMoreFinishes(w) ==
  /\ pc[w] = "finishes" /\ finishes[w] = 0
  /\ pc' = [pc EXCEPT ![w] = "starts"]
  /\ UNCHANGED <<masterVars, epoch_, active_checkpoint_, peers_, applied, saved,
                 committed, netVars>>

(* SendUpdates: a put request carries the epoch of its sender.              *)
SendUpdates(w, v) ==
  /\ pc[w] = "starts" /\ w # v /\ Cardinality(sent) < job.puts
  /\ LET p == [number |-> Cardinality(sent) + 1, to |-> v, epoch |-> epoch_[w]] IN
     /\ sent' = sent \cup {p}
     /\ chan' = [chan EXCEPT ![w][v] = Append(@, p)]
  /\ UNCHANGED <<masterVars, workerVars, toWorker, starts, finishes, dones>>

(* No channel is out of date.                                               *)
UpToDate(known, e) == \A v \in Worker : known[v] = e

(* UpdateEpoch: a marker of peer v.  The worker starts the checkpoint if it *)
(* has not, and finishes it when no channel is out of date.                 *)
UpdateEpoch(w, v, e, rest) ==
  LET new   == epoch_[w] < e
      now   == IF new THEN e ELSE epoch_[w]
      known == [peers_[w] EXCEPT ![v] = e]
      done  == UpToDate(known, now)
  IN /\ IF new
        THEN Save(w, e) /\ chan' = SendMarkers(w, e, rest)
        ELSE chan' = rest /\ UNCHANGED <<epoch_, saved>>
     /\ peers_' = [peers_ EXCEPT ![w] = known]
     /\ active_checkpoint_' =
          [active_checkpoint_ EXCEPT ![w] = IF done THEN "NONE" ELSE IF new THEN "ROLLING" ELSE @]
     /\ IF done
        THEN FinishCheckpoint(w, now)
        ELSE UNCHANGED <<committed, dones>>
     /\ UNCHANGED applied

(* Mutant of Logged: what a peer sent after it saved its tables is logged.  *)
LoggedLate(w, p) ==
  \/ active_checkpoint_[w] = "MASTER_CONTROLLED"
  \/ active_checkpoint_[w] = "ROLLING" /\ p.epoch <= epoch_[w]

(* The condition under which HandlePutRequest calls write_delta.            *)
Logged(w, p) ==
  \/ active_checkpoint_[w] = "MASTER_CONTROLLED"
  \/ active_checkpoint_[w] = "ROLLING" /\ p.epoch < epoch_[w]

write_delta(w, p) == saved' = [saved EXCEPT ![w] = @ \cup {p}]

(* HandlePutRequest: one message from v.                                    *)
HandlePutRequest(w, v) ==
  /\ pc[w] = "starts"
  /\ \E i \in NextOf(chan[v][w]) :
       LET m    == chan[v][w][i]
           rest == [chan EXCEPT ![v][w] = RemoveAt(@, i)]
       IN IF IsMarker(m)
          THEN UpdateEpoch(w, v, m.marker, rest)
          ELSE /\ chan' = rest
               /\ applied' = [applied EXCEPT ![w] = @ \cup {m}]
               /\ IF Logged(w, m) THEN write_delta(w, m) ELSE UNCHANGED saved
               /\ UNCHANGED <<epoch_, active_checkpoint_, peers_, committed, dones>>
  /\ UNCHANGED <<masterVars, pc, toWorker, starts, finishes, sent>>

Master == start_checkpoint \/ finish_worker_checkpoint \/ ReadDone \/ finish_checkpoint

Handle(w) == \E v \in Worker : HandlePutRequest(w, v)

Poll(w) == ReadStart(w) \/ NoMoreStarts(w) \/ ReadFinish(w) \/ NoMoreFinishes(w)

Next ==
  \/ Master
  \/ \E w \in Worker :
       Receive(w) \/ Poll(w) \/ Handle(w) \/ \E v \in Worker : SendUpdates(w, v)

Spec == Init /\ [][Next]_vars

(* The master's loops run; a worker that is between kernels calls           *)
(* CheckNetwork, which polls for the master and for put requests in turn    *)
(* (so the latter are read although they cannot be during the former); the  *)
(* network threads deliver.                                                 *)
Fairness ==
  /\ WF_vars(Master)
  /\ \A w \in Worker :
       /\ WF_vars(Receive(w))
       /\ WF_vars(Poll(w))
       /\ \A v \in Worker : SF_vars(HandlePutRequest(w, v))

FairSpec == Spec /\ Fairness

-----------------------------------------------------------------------------
(* Properties                                                               *)

(* When checkpoint() has returned, every worker has saved its tables for    *)
(* this epoch and has closed the log (master.h:134-136).                    *)
Committed ==
  master = "ready" => \A w \in Worker : committed[w] = checkpoint_epoch_

(* The same for rolling checkpoints, in which DONE comes from UpdateEpoch,  *)
(* whatever master-controlled checkpoints went before; and as               *)
(* finish_worker_checkpoint reads one DONE of each worker, none is left     *)
(* over that would let the next checkpoint return before it is taken.       *)
RollingCommitted ==
  /\ checkpoint_epoch_ > 0 /\ type = "ROLLING" => Committed
  /\ master = "ready" => \A w \in Worker : dones[w] = 0

(* What a rolling checkpoint saved is a consistent cut: the put requests in *)
(* it are those that were sent before their sender saved its tables, the    *)
(* ones under way at that time included (worker.cc:354).                    *)
ConsistentCut ==
  master = "ready" /\ checkpoint_epoch_ > 0 /\ type = "ROLLING" =>
    \A w \in Worker :
      saved[w] = {p \in sent : p.to = w /\ p.epoch < checkpoint_epoch_}

(* On channels that keep the order of put requests and markers it is one.   *)
CutInOrder == job.inOrder => ConsistentCut

(* checkpoint() returns.                                                    *)
Returns == master # "ready" ~> master = "ready"
=============================================================================
