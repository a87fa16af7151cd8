----------------------------- MODULE Scheduler ------------------------------
(***************************************************************************)
(* How the master runs kernels (master.cc: run, barrier, assign_worker,    *)
(* steal_work, dispatch_work, reap_one_task) and how the workers obey      *)
(* (worker.cc: KernelLoop, HandleShardAssignment).                         *)
(*                                                                          *)
(* A call of run() makes one task per shard, gives it to the worker that    *)
(* serves the shard, and keeps at most one task of a worker active.  When a *)
(* worker has nothing left to do the master may move a pending task, and    *)
(* the ownership of its shard, from the worker with the most pending tasks  *)
(* to the idle one; SyncBroadcast tells all workers before the task is      *)
(* dispatched.  The old owner of a moved shard still holds its data: the    *)
(* new one considers the shard tainted until the old one has sent them.     *)
(*                                                                          *)
(* There is one table, as in the examples.  Runs have checkpoint_type       *)
(* CP_NONE.  What the kernels do to the table is in DeltaExchange; here     *)
(* a put request only has a destination, a shard and its done mark.         *)
(*                                                                          *)
(* A partition is a DeltaTable until MaiterKernel1 makes those that are     *)
(* local at the time StateTables.  Only DeltaTables can be sent, and only   *)
(* StateTables worked on: a worker that loses a loaded shard, or gains one  *)
(* after it has loaded its own, dereferences NULL.  Worker processes end    *)
(* in no other way, and nothing restarts them.                              *)
(***************************************************************************)
EXTENDS Integers, FiniteSets, Sequences

CONSTANTS
  NumWorkers,       \* config_.num_workers()
  NumShards,        \* num_shards() of the table
  DeadWorkers,      \* the values of FLAGS_dead_workers, as sets
  Calls,            \* the vector of shards of each call of run_range
  LoadCalls,        \* which calls run MaiterKernel1, as sets of their numbers
  StealAfter        \* a call steals once shard_calls() > StealAfter (10)

Worker == 0 .. NumWorkers - 1
Shard  == 0 .. NumShards - 1
NoWorker == -1      \* owner of a shard before the first assignment
NoShard  == -1      \* a worker that runs no kernel

(* CHECK(best != NULL): the flag leaves somebody to work.                   *)
ASSUME SchedulerAssumption ==
  /\ NumWorkers \in Nat \ {0} /\ NumShards \in Nat \ {0}
  /\ DeadWorkers \subseteq SUBSET Worker /\ Worker \notin DeadWorkers
  /\ Calls \in Seq(SUBSET Shard)
  /\ LoadCalls \subseteq SUBSET (1 .. Len(Calls))
  /\ StealAfter \in Nat

VARIABLES
  (* the master *)
  dead,             \* FLAGS_dead_workers, fixed at the start
  loads,            \* the calls that run MaiterKernel1, fixed at the start
  master,           \* where the thread is: see TypeOK
  call,             \* kernel_epoch_: calls of run() so far
  shards,           \* shards[w]: WorkerState::shards, what w serves
  work,             \* work[w][s]: status of the task for s in WorkerState::work
  stolen,           \* tasks of this call with TaskState::stolen
  finished_,
  dispatched_,
  shard_calls,      \* MethodStats::shard_calls, with one method for all calls
  turn,             \* the worker the stealing loop looks at
  need_update,
  (* the workers *)
  owner,            \* owner[w][s]: the owner in w's PartitionInfo of s
  dirty,            \* dirty[w]: shards marked PartitionInfo::dirty at w
  dirty_tables_,    \* dirty_tables_[w]: the table is in it
  tainted,          \* tainted[w]: shards marked PartitionInfo::tainted at w
  pc,               \* pc[w]: where KernelLoop is
  running,          \* running[w]: shard of the kernel request in kreq
  state,            \* state[w]: shards whose partition at w is a StateTable
  crashed,          \* the workers that have died
  (* messages *)
  sync,             \* sync[w]: the latest SyncBroadcast's request to w
  kernels,          \* MTYPE_RUN_KERNEL: <<to, shard>>
  done,             \* MTYPE_KERNEL_DONE: <<from, shard>>
  wire,             \* MTYPE_PUT_REQUEST under way: <<to, shard>>
  puts              \* MTYPE_PUT_REQUEST received: <<to, shard>>

runVars   == <<dead, master, call, turn, need_update>>
taskVars  == <<shards, work, stolen, finished_, dispatched_, shard_calls>>
viewVars  == <<owner, dirty, dirty_tables_, tainted>>
loopVars  == <<pc, running>>
netVars   == <<sync, kernels, done, wire, puts>>
tableVars == <<loads, state, crashed>>
vars == <<runVars, taskVars, viewVars, loopVars, netVars, tableVars>>

TypeOK ==
  /\ dead \in DeadWorkers
  /\ master \in {"ready", "assign", "poll", "steal", "update", "dispatch",
                 "flush", "apply"}
  /\ call \in 0 .. Len(Calls)
  /\ shards \in [Worker -> SUBSET Shard]
  /\ work \in [Worker -> [Shard -> {"none", "pending", "active", "finished"}]]
  /\ stolen \subseteq Shard
  /\ finished_ \in 0 .. NumShards
  /\ dispatched_ \in 0 .. NumShards
  /\ shard_calls \in Nat
  /\ turn \in 0 .. NumWorkers
  /\ need_update \in BOOLEAN
  /\ owner \in [Worker -> [Shard -> Worker \cup {NoWorker}]]
  /\ dirty \in [Worker -> SUBSET Shard]
  /\ dirty_tables_ \in [Worker -> BOOLEAN]
  /\ tainted \in [Worker -> SUBSET Shard]
  /\ pc \in [Worker -> {"idle", "clear", "run"}]
  /\ running \in [Worker -> Shard \cup {NoShard}]
  /\ loads \in LoadCalls
  /\ state \in [Worker -> SUBSET Shard]
  /\ crashed \subseteq Worker
  /\ sync \in [Worker -> {"sent", "replied"}]
  /\ kernels \subseteq Worker \X Shard
  /\ done \subseteq Worker \X Shard
  /\ wire \subseteq Worker \X Shard
  /\ puts \subseteq Worker \X Shard

Init ==
  /\ dead \in DeadWorkers
  /\ master = "ready" /\ call = 0
  /\ shards = [w \in Worker |-> {}]
  /\ work = [w \in Worker |-> [s \in Shard |-> "none"]]
  /\ stolen = {} /\ finished_ = 0 /\ dispatched_ = 0 /\ shard_calls = 0
  /\ turn = 0 /\ need_update = FALSE
  /\ owner = [w \in Worker |-> [s \in Shard |-> NoWorker]]
  /\ dirty = [w \in Worker |-> {}]
  /\ dirty_tables_ = [w \in Worker |-> FALSE]
  /\ tainted = [w \in Worker |-> {}]
  /\ pc = [w \in Worker |-> "idle"]
  /\ running = [w \in Worker |-> NoShard]
  /\ loads \in LoadCalls
  /\ state = [w \in Worker |-> {}]
  /\ crashed = {}
  /\ sync = [w \in Worker |-> "replied"]
  /\ kernels = {} /\ done = {}
  /\ wire = {} /\ puts = {}

-----------------------------------------------------------------------------
(* The master                                                               *)

alive(w) == w \notin dead

(* WorkerState::num_pending(), num_active() and the like.                   *)
Tasks(wk, w, status) == {s \in Shard : wk[w][s] = status}
num(wk, w, status) == Cardinality(Tasks(wk, w, status))

(* Mutant of Best: the first alive worker.                                  *)
BestFirst(sh) ==
  CHOOSE w \in Worker : alive(w) /\ \A v \in Worker : alive(v) => w <= v

(* assign_worker for a shard nobody serves: the first of the alive workers  *)
(* with the fewest shards.                                                  *)
Best(sh) ==
  CHOOSE w \in Worker :
    /\ alive(w)
    /\ \A v \in Worker : alive(v) =>
         \/ Cardinality(sh[w]) < Cardinality(sh[v])
         \/ Cardinality(sh[w]) = Cardinality(sh[v]) /\ w <= v

(* assign_worker for a shard without an owner.                              *)
assign_worker(sh, s) == [sh EXCEPT ![Best(sh)] = @ \cup {s}]

(* assign_tables: the shards are handed out one by one.                     *)
assigned[n \in 0 .. NumShards] ==
  IF n = 0 THEN [w \in Worker |-> {}] ELSE assign_worker(assigned[n - 1], n - 1)

assign_tables == shards' = assigned[NumShards]

(* SyncBroadcast sends to every worker; WaitForSync waits for as many       *)
(* replies.                                                                 *)
Broadcast == sync' = [w \in Worker |-> "sent"]
Synced == \A w \in Worker : sync[w] = "replied"

(* Mutant of assign_tasks: the vector of shards is ignored.                 *)
assign_tasksAll ==
  [w \in Worker |-> [s \in Shard |->
     IF s \in shards[w] THEN "pending" ELSE "none"]]

(* assign_tasks: every shard of the call becomes a task of the worker that  *)
(* serves it (worker_for_shard).                                            *)
assign_tasks ==
  [w \in Worker |-> [s \in Shard |->
     IF s \in Calls[call] \cap shards[w] THEN "pending" ELSE "none"]]

(* get_next: the task of s becomes active; it is the largest of the pending *)
(* ones by a guess of their sizes, so that it may be any of them.           *)
get_next(wk, w, s) == [wk[w] EXCEPT ![s] = "active"]

(* Mutant of Ready: only workers that have done nothing yet.                *)
ReadyFresh(wk) ==
  {w \in Worker : num(wk, w, "pending") > 0 /\ num(wk, w, "active") = 0
                   /\ num(wk, w, "finished") = 0}

(* dispatch_work: a worker with pending and without active tasks gets one.  *)
Ready(wk) ==
  {w \in Worker : num(wk, w, "pending") > 0 /\ num(wk, w, "active") = 0}

(* Mutant of dispatch_work: the count replaces the old one.                 *)
dispatch_workRecount(wk) ==
  \E next \in [Ready(wk) -> Shard] :
    /\ \A w \in Ready(wk) : wk[w][next[w]] = "pending"
    /\ work' = [w \in Worker |->
                  IF w \in Ready(wk) THEN get_next(wk, w, next[w]) ELSE wk[w]]
    /\ kernels' = kernels \cup {<<w, next[w]>> : w \in Ready(wk)}
    /\ dispatched_' = Cardinality(Ready(wk))

dispatch_work(wk) ==
  \E next \in [Ready(wk) -> Shard] :
    /\ \A w \in Ready(wk) : wk[w][next[w]] = "pending"
    /\ work' = [w \in Worker |->
                  IF w \in Ready(wk) THEN get_next(wk, w, next[w]) ELSE wk[w]]
    /\ kernels' = kernels \cup {<<w, next[w]>> : w \in Ready(wk)}
    /\ dispatched_' = dispatched_ + Cardinality(Ready(wk))

(* run(), up to the reply to the table assignment; CHECK_EQ (line 743) is   *)
(* part of CountersMatch.  Only the first call assigns tables.      *)
Run ==
  /\ master = "ready" /\ call < Len(Calls)
  /\ master' = "assign"
  /\ call' = call + 1
  /\ finished_' = 0 /\ dispatched_' = 0
  /\ IF call = 0 THEN assign_tables /\ Broadcast
     ELSE UNCHANGED <<shards, sync>>
  /\ UNCHANGED <<dead, turn, need_update, work, stolen, shard_calls, viewVars,
                 loopVars, kernels, done, wire, puts, tableVars>>

(* run(), the rest: tasks are made and the first ones dispatched.           *)
AssignTasks ==
  /\ master = "assign" /\ Synced
  /\ master' = "poll"
  /\ stolen' = {}
  /\ dispatch_work(assign_tasks)
  /\ UNCHANGED <<dead, call, turn, need_update, shards, finished_, shard_calls,
                 viewVars, loopVars, sync, done, wire, puts, tableVars>>

(* The tasks of the call that have not been reaped.                         *)
Unfinished == finished_ < Cardinality(Calls[call])

(* Its CHECKs are DoneIsActive.                                             *)
set_finished(w, s) == work' = [work EXCEPT ![w][s] = "finished"]

(* Mutant of reap_one_task: the message is looked at and left.              *)
reap_one_taskLeaves ==
  /\ master = "poll" /\ Unfinished
  /\ \E d \in done : set_finished(d[1], d[2])
  /\ finished_' = finished_ + 1
  /\ shard_calls' = shard_calls + 1
  /\ master' \in {"steal", "dispatch"}
  /\ turn' = 0 /\ need_update' = FALSE
  /\ UNCHANGED <<dead, call, shards, stolen, dispatched_, viewVars, loopVars, sync,
                 kernels, done, wire, puts, tableVars>>

(* barrier(): reap_one_task finds a KERNEL_DONE.  Every 0.1 seconds the     *)
(* stealing loop follows.                                                   *)
reap_one_task ==
  /\ master = "poll" /\ Unfinished
  /\ \E d \in done :
       /\ done' = done \ {d}
       /\ set_finished(d[1], d[2])
  /\ finished_' = finished_ + 1
  /\ shard_calls' = shard_calls + 1
  /\ master' \in {"steal", "dispatch"}
  /\ turn' = 0 /\ need_update' = FALSE
  /\ UNCHANGED <<dead, call, shards, stolen, dispatched_, viewVars, loopVars, sync,
                 kernels, wire, puts, tableVars>>

(* idle_time(): nothing of its work is unfinished.                          *)
Idle(w) == \A s \in Shard : work[w][s] \in {"none", "finished"}

PendingCompare(v, w) == num(work, v, "pending") < num(work, w, "pending")

(* max_element over the workers: the first with the most pending tasks.     *)
MostPending ==
  CHOOSE w \in Worker : \A v \in Worker :
    \/ PendingCompare(v, w)
    \/ ~PendingCompare(w, v) /\ w <= v

(* The tasks steal_work may take from src.  With one pending task eta is    *)
(* max(1, x) and move_cost max(1, 2x), which never pays; with more it       *)
(* depends on sizes and times.                                              *)
Stealable(src) ==
  IF num(work, src, "pending") < 2 THEN {}
  ELSE Tasks(work, src, "pending") \ stolen

(* assign_shard(s, true) at the thief and assign_shard(s, false) at src.    *)
MoveShardShared(s, src) ==  \* mutant: src goes on serving s
  shards' = [shards EXCEPT ![turn] = @ \cup {s}]

MoveShard(s, src) ==
  shards' = [shards EXCEPT ![turn] = @ \cup {s}, ![src] = @ \ {s}]

(* src.remove_task and dst.assign_task.                                     *)
MoveTask(s, src) ==
  work' = [work EXCEPT ![turn][s] = "pending", ![src][s] = "none"]

(* steal_work for the worker whose turn it is.                              *)
steal_work ==
  /\ master = "steal" /\ turn < NumWorkers
  /\ shard_calls > StealAfter
  /\ Idle(turn) /\ alive(turn)
  /\ \E s \in Stealable(MostPending) :
       /\ stolen' = stolen \cup {s}
       /\ MoveShard(s, MostPending)
       /\ MoveTask(s, MostPending)
  /\ need_update' = TRUE
  /\ turn' = turn + 1
  /\ UNCHANGED <<dead, master, call, finished_, dispatched_, shard_calls, viewVars,
                 loopVars, netVars, tableVars>>

(* The loop looks at a worker it does not steal for.                        *)
NextWorker ==
  /\ master = "steal" /\ turn < NumWorkers
  /\ turn' = turn + 1
  /\ UNCHANGED <<dead, master, call, need_update, taskVars, viewVars, loopVars,
                 netVars, tableVars>>

(* After the loop: send_table_assignments if something was stolen.          *)
EndSteal ==
  /\ master = "steal" /\ turn = NumWorkers
  /\ IF need_update THEN master' = "update" /\ Broadcast
                    ELSE master' = "dispatch" /\ UNCHANGED sync
  /\ UNCHANGED <<dead, call, turn, need_update, taskVars, viewVars, loopVars,
                 kernels, done, wire, puts, tableVars>>

TablesUpdated ==
  /\ master = "update" /\ Synced
  /\ master' = "dispatch"
  /\ UNCHANGED <<dead, call, turn, need_update, taskVars, viewVars, loopVars,
                 netVars, tableVars>>

Dispatch ==
  /\ master = "dispatch"
  /\ master' = "poll"
  /\ IF dispatched_ < Cardinality(Calls[call]) THEN dispatch_work(work)
     ELSE UNCHANGED <<work, kernels, dispatched_>>
  /\ UNCHANGED <<dead, call, turn, need_update, shards, stolen, finished_,
                 shard_calls, viewVars, loopVars, sync, done, wire, puts, tableVars>>

(* The end of barrier(): the flush and apply round trips.                   *)
Flush ==
  /\ master = "poll" /\ ~Unfinished
  /\ master' = "flush" /\ Broadcast
  /\ UNCHANGED <<dead, call, turn, need_update, taskVars, viewVars, loopVars,
                 kernels, done, wire, puts, tableVars>>

Apply ==
  /\ master = "flush" /\ Synced
  /\ master' = "apply" /\ Broadcast
  /\ UNCHANGED <<dead, call, turn, need_update, taskVars, viewVars, loopVars,
                 kernels, done, wire, puts, tableVars>>

EndBarrier ==
  /\ master = "apply" /\ Synced
  /\ master' = "ready"
  /\ UNCHANGED <<dead, call, turn, need_update, taskVars, viewVars, loopVars,
                 netVars, tableVars>>

-----------------------------------------------------------------------------
(* The workers: callbacks on the network thread                             *)

(* The request lists the workers in order: the last one that serves a shard *)
(* is its owner.                                                            *)
NewOwner(w, s) ==
  LET serving == {v \in Worker : s \in shards[v]}
  IN  IF serving = {} THEN owner[w][s]
      ELSE CHOOSE v \in serving : \A u \in serving : u <= v

HandleShardAssignment(w) ==
  LET gained == {s \in Shard : NewOwner(w, s) = w /\ owner[w][s] # w}
      lost == {s \in Shard : owner[w][s] = w /\ NewOwner(w, s) # w}
  IN  /\ master \in {"assign", "update"} /\ sync[w] = "sent"
      /\ sync' = [sync EXCEPT ![w] = "replied"]
      /\ owner' = [owner EXCEPT ![w] = [s \in Shard |-> NewOwner(w, s)]]
      /\ tainted' = [tainted EXCEPT ![w] =
                       @ \cup {s \in gained : owner[w][s] # NoWorker}]
      /\ dirty' = [dirty EXCEPT ![w] = @ \cup lost]
      /\ dirty_tables_' = [dirty_tables_ EXCEPT ![w] = @ \/ lost # {}]
      /\ UNCHANGED <<runVars, taskVars, loopVars, kernels, done, wire, puts, tableVars>>

(* is_local_shard                                                           *)
Local(w) == {s \in Shard : owner[w][s] = w}

(* The shards SendUpdates sends: for a dirty one it always does, also when  *)
(* nothing is buffered, and it never clears the mark.                       *)
Lost(w) == {s \in dirty[w] : owner[w][s] # w}

(* A lost shard was loaded: StateTable::serializeToNet calls                *)
(* get_iterator(NULL, false), which calls NULL->FlushUpdates().             *)
Unsendable(w) == Lost(w) \cap state[w] # {}

PutsFor(w, S) == {<<owner[w][s], s>> : s \in S}

(* Mutant of SendUpdates: nothing buffered, nothing sent.                   *)
SendUpdatesBuffered(w) == UNCHANGED <<wire, crashed>>

(* SendUpdates, in the order of the shards.  What was queued before the     *)
(* worker dies may have left it or not.                                     *)
SendUpdates(w) ==
  IF Unsendable(w)
  THEN /\ crashed' = crashed \cup {w}
       /\ \E S \in SUBSET {s \in Lost(w) : \A t \in Lost(w) \cap state[w] : s < t} :
            wire' = wire \cup PutsFor(w, S)
  ELSE wire' = wire \cup PutsFor(w, Lost(w)) /\ UNCHANGED crashed

(* HandlePutRequest: what has been received for w clears taint.             *)
HandlePutRequest(w) ==
  /\ puts' = {p \in puts : p[1] # w}
  /\ tainted' = [tainted EXCEPT ![w] = {s \in @ : <<w, s>> \notin puts}]

HandleFlush(w) ==
  /\ master = "flush" /\ sync[w] = "sent"
  /\ SendUpdates(w)
  /\ sync' = IF Unsendable(w) THEN sync ELSE [sync EXCEPT ![w] = "replied"]
  /\ UNCHANGED <<runVars, taskVars, viewVars, loopVars, kernels, done, puts, loads,
                 state>>

HandleApply(w) ==
  /\ master = "apply" /\ sync[w] = "sent"
  /\ sync' = [sync EXCEPT ![w] = "replied"]
  /\ HandlePutRequest(w)
  /\ UNCHANGED <<runVars, taskVars, owner, dirty, dirty_tables_, loopVars,
                 kernels, done, wire, tableVars>>

-----------------------------------------------------------------------------
(* The workers: KernelLoop                                                  *)

(* CheckNetwork, up to the loop over dirty_tables_.                         *)
CheckNetwork(w) ==
  /\ pc[w] = "idle"
  /\ pc' = [pc EXCEPT ![w] = "clear"]
  /\ HandlePutRequest(w)
  /\ IF dirty_tables_[w] THEN SendUpdates(w) ELSE UNCHANGED <<wire, crashed>>
  /\ UNCHANGED <<runVars, taskVars, owner, dirty, dirty_tables_, running, sync,
                 kernels, done, loads, state>>

(* dirty_tables_.clear(), without a lock: the network thread may have added *)
(* the table since.                                                         *)
ClearDirty(w) ==
  /\ pc[w] = "clear"
  /\ pc' = [pc EXCEPT ![w] = "idle"]
  /\ dirty_tables_' = [dirty_tables_ EXCEPT ![w] = FALSE]
  /\ UNCHANGED <<runVars, taskVars, owner, dirty, tainted, running, netVars,
                 tableVars>>

(* A kernel request is read.  For a shard w does not own the worker dies    *)
(* (LOG(FATAL), line 122).                                                  *)
StartKernel(w) ==
  /\ pc[w] = "idle"
  /\ \E s \in Shard :
       /\ <<w, s>> \in kernels
       /\ owner[w][s] = w
       /\ kernels' = kernels \ {<<w, s>>}
       /\ running' = [running EXCEPT ![w] = s]
  /\ pc' = [pc EXCEPT ![w] = "run"]
  /\ UNCHANGED <<runVars, taskVars, viewVars, sync, done, wire, puts, tableVars>>

(* MaiterKernel1: the first one at w makes the shards w owns at the time    *)
(* StateTables (init_table, InitStateTable).                                *)
InitStateTable(w) ==
  /\ pc[w] = "run" /\ call \in loads /\ state[w] = {}
  /\ state' = [state EXCEPT ![w] = Local(w)]
  /\ UNCHANGED <<runVars, taskVars, viewVars, loopVars, netVars, loads, crashed>>

(* w owns a shard whose partition is still a DeltaTable: for its keys, in a *)
(* kernel or in a put request, partition() is NULL, and MaiterKernel3 gets  *)
(* no iterator for it.  A kernel that meets none of its keys returns.       *)
NullPartition(w) ==
  /\ state[w] # {}
  /\ \E s \in Local(w) \ state[w] : pc[w] = "run" \/ <<w, s>> \in puts
  /\ crashed' = crashed \cup {w}
  /\ UNCHANGED <<runVars, taskVars, viewVars, loopVars, netVars, loads, state>>

(* The kernel returns and KERNEL_DONE is sent.                              *)
KernelDone(w) ==
  /\ pc[w] = "run"
  /\ call \in loads => state[w] # {}
  /\ pc' = [pc EXCEPT ![w] = "idle"]
  /\ HandlePutRequest(w)
  /\ done' = done \cup {<<w, running[w]>>}
  /\ running' = [running EXCEPT ![w] = NoShard]
  /\ UNCHANGED <<runVars, taskVars, owner, dirty, dirty_tables_, sync, kernels,
                 wire, tableVars>>

(* MPI delivers a put request, in any order.                                *)
Receive ==
  /\ \E p \in wire : wire' = wire \ {p} /\ puts' = puts \cup {p}
  /\ UNCHANGED <<runVars, taskVars, viewVars, loopVars, sync, kernels, done,
                 tableVars>>

-----------------------------------------------------------------------------
Master ==
  \/ Run \/ AssignTasks \/ reap_one_task \/ steal_work \/ NextWorker \/ EndSteal
  \/ TablesUpdated \/ Dispatch \/ Flush \/ Apply \/ EndBarrier

KernelLoop(w) ==
  /\ w \notin crashed
  /\ \/ CheckNetwork(w) \/ ClearDirty(w) \/ StartKernel(w) \/ KernelDone(w)
     \/ InitStateTable(w) \/ NullPartition(w)

Callback(w) ==
  /\ w \notin crashed
  /\ HandleShardAssignment(w) \/ HandleFlush(w) \/ HandleApply(w)

Next ==
  Master \/ Receive \/ \E w \in Worker : KernelLoop(w) \/ Callback(w)

Spec == Init /\ [][Next]_vars

(* Every thread keeps running unless its process dies, and MPI delivers.    *)
(* KernelLoop polls for requests on every turn, so a request that is there  *)
(* is read.  The subscripts are what each of these steps changes.           *)
Fairness ==
  /\ WF_<<master, turn>>(Master) /\ WF_wire(Receive)
  /\ \A w \in Worker : /\ WF_<<pc, state, crashed>>(KernelLoop(w))
                       /\ WF_<<sync, crashed>>(Callback(w))
                       /\ SF_pc(w \notin crashed /\ StartKernel(w))

FairSpec == Spec /\ Fairness

-----------------------------------------------------------------------------
(* Properties                                                               *)

(* Both CHECKs of set_finished.                                             *)
DoneIsActive == \A d \in done : work[d[1]][d[2]] = "active"

(* The LOG(FATAL) of KernelLoop.                                            *)
RequestsServable == \A k \in kernels : owner[k[1]][k[2]] = k[1]

(* The CHECKs and the LOG(FATAL) of the protocol never fire, however tasks  *)
(* and shards are stolen meanwhile: a KERNEL_DONE that is under way is for  *)
(* an active task of its sender, and a worker that has been sent a kernel   *)
(* request knows that it owns the shard.                                    *)
ChecksHold == TypeOK /\ DoneIsActive /\ RequestsServable

(* "to ensure every shard has an owner" (assign_tables): once assigned,     *)
(* every shard is served by exactly one worker, and when no assignment is   *)
(* being broadcast all workers know which.                                  *)
ViewsAgree ==
  call > 0 => \A s \in Shard :
    \E w \in Worker :
      /\ \A v \in Worker : s \in shards[v] <=> v = w
      /\ Synced /\ master # "steal" => \A v \in Worker : owner[v][s] = w

(* The counters that end barrier()'s loop, that stop dispatch_work and that *)
(* CHECK_EQ(current_run_.shards.size(), finished_) reads count the tasks of *)
(* the call.                                                                *)
CountersMatch ==
  master # "assign" /\ call > 0 =>
    LET In(status) == {s \in Shard : \E w \in Worker : work[w][s] = status}
    IN  /\ finished_ = Cardinality(In("finished"))
        /\ dispatched_ = Cardinality(In("finished") \cup In("active"))
        /\ master = "ready" => finished_ = Cardinality(Calls[call])

(* The alive workers and no others serve a shard, however shards were       *)
(* stolen, if there are enough of them.  An alive worker without one would  *)
(* never report to termcheck (SilentBlocks in TermCheck).  registerMaiter   *)
(* makes as many shards as workers, so that with all alive each serves one, *)
(* as DeltaExchange assumes.                                                *)
AllServe ==
  call > 0 /\ NumShards >= Cardinality(Worker \ dead) =>
    \A w \in Worker : alive(w) <=> shards[w] # {}

(* The abstract calls: a shard is still to be run while its task is pending *)
(* or its request has not been read.                                        *)
todo ==
  IF master = "assign" THEN Calls[call]
  ELSE {s \in Shard : \E w \in Worker : work[w][s] = "pending" \/ <<w, s>> \in kernels}

Runs == INSTANCE KernelRuns WITH busy <- {running[w] : w \in Worker} \ {NoShard}

(* Every call runs its kernel exactly once on each of its shards, also when *)
(* tasks are stolen, and calls do not overlap.                              *)
ImplementsRuns == Runs!Spec

(* w has died of a shard that changed hands after w loaded its table: one   *)
(* it lost and cannot send, or one it gained and cannot work on.            *)
DiedOfMove(w) == w \in crashed /\ state[w] # {} /\ state[w] # Local(w)

(* Every call of run() returns, unless a worker dies; and it dies only of a *)
(* shard that was stolen after the table was loaded.                        *)
AllCallsReturn ==
  <>((call = Len(Calls) /\ master = "ready") \/ \E w \in Worker : DiedOfMove(w))

(* "Always send at least one chunk, to ensure that we clear taint on tables *)
(* we own" (SendUpdates): no shard that changed hands stays tainted,        *)
(* although dirty_tables_ is cleared without a lock and the old owner's put *)
(* request may come before the new owner knows of the assignment.  A loaded *)
(* shard cannot be sent: its old owner dies instead (DiedOfMove).           *)
TaintClears ==
  []<>((\A w \in Worker : tainted[w] = {}) \/ \E w \in Worker : DiedOfMove(w))
=============================================================================
