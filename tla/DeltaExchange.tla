--------------------------- MODULE DeltaExchange ---------------------------
(***************************************************************************)
(* One complete Maiter computation (master.h, run_maiter): the master runs  *)
(* MaiterKernel1 (load), MaiterKernel2 (iterate) and MaiterKernel3 (dump)    *)
(* on all workers, with Master::barrier() after each of them.                *)
(*                                                                          *)
(* The workers share one global table, split in shards.  A worker buffers   *)
(* the updates it makes for shards it does not own in delta tables, sends   *)
(* the buffers as MTYPE_PUT_REQUEST messages, and accumulates the requests  *)
(* it receives.  Each worker is three threads: the main thread (kernels),   *)
(* the network thread (MPI sends and receives, RPC callbacks) and the       *)
(* thread spawned to answer MTYPE_WORKER_FLUSH.                              *)
(*                                                                          *)
(* An update is a unique token and a field of a table entry is the set of   *)
(* updates accumulated in it, so that a lost update is a token found        *)
(* nowhere and a repeated one is a token found in two places.               *)
(***************************************************************************)
EXTENDS Naturals, FiniteSets

CONSTANTS
  Worker,           \* the worker processes
  Shard,            \* the shards of the table
  Key,              \* the nodes of the graph
  ShardOf,          \* ShardOf[k]: get_shard(k), the user's sharding function
  Owner,            \* Owner[s]: the worker the master assigned shard s to
  Links,            \* Links[k]: the nodes g_func sends updates to from k
  BufMsg,           \* FLAGS_bufmsg
  MaxIter,          \* bound: MaxIter[w] iterations are run by w
  RemoteDelivery    \* TRUE: MPI completes a send only when it was received

ASSUME GraphAssumption ==
  /\ ShardOf \in [Key -> Shard]
  /\ Owner \in [Shard -> Worker]
  /\ Links \in [Key -> SUBSET Key]

(* assign_tables gives each of the num_workers shards to the alive worker   *)
(* with the fewest, so that with all workers alive each owns one shard and  *)
(* runs one task of a kernel.                                               *)
ASSUME OneShardPerWorker ==
  \A w \in Worker : \E s \in Shard : \A t \in Shard : Owner[t] = w <=> t = s

ASSUME BoundAssumption ==
  /\ BufMsg \in Nat
  /\ MaxIter \in [Worker -> Nat]
  /\ RemoteDelivery \in BOOLEAN

VARIABLES
  (* Master::run and Master::barrier *)
  run,              \* which of the three kernels is running
  phase,            \* "run", "flush", "apply": where barrier() is; "done"
  (* main threads *)
  pc,               \* pc[w]: where w's main thread is
  lines,            \* lines[w]: the keys read_file has read at w
  todo,             \* todo[w]: the keys w's current iterator has still to visit
  output,           \* output[w]: MaiterKernel2::output
  made,             \* made[w]: iterations run by w (names the fresh updates)
  terminated,       \* terminated[w]: TableBase::terminated_ at w
  (* the table *)
  table,            \* the keys present in the state tables
  F1, F2,           \* the delta and value fields of the state tables
  deltaT,           \* deltaT[w][s]: w's delta table for the remote shard s
  pending_writes,   \* pending_writes[w]: pending_writes_ of w's table
  result,           \* result[k]: what MaiterKernel3 wrote for k
  (* the network: every message is in exactly one of four places, and its  *)
  (* sender also keeps it in active_sends from the Isend to its completion *)
  pending_sends,    \* pending_sends_ of all network threads
  inHand,           \* popped from pending_sends_, MPI not called yet
  wire,             \* handed to MPI, not received
  requests,         \* requests[MTYPE_PUT_REQUEST] of all network threads
  active_sends,     \* active_sends_ of all network threads
  (* the two round trips of the barrier *)
  flush,            \* flush[w]: progress of HandleFlush at w
  apply             \* apply[w]: progress of HandleApply at w

masterVars == <<run, phase>>
threadVars == <<pc, lines, todo, output, made, terminated>>
tableVars == <<table, F1, F2, deltaT, pending_writes, result>>
netVars == <<pending_sends, inHand, wire, requests, active_sends>>
barrierVars == <<flush, apply>>
vars == <<masterVars, threadVars, tableVars, netVars, barrierVars>>

-----------------------------------------------------------------------------
Update == [src : Worker, id : Nat, key : Key]

Message == [src : Worker, shard : Shard, updates : SUBSET Update]

OwnerOf(k) == Owner[ShardOf[k]]

is_local_shard(w, s) == Owner[s] = w

(* The delta that init_c gives key k.                                       *)
InitialUpdate(k) == [src |-> OwnerOf(k), id |-> 0, key |-> k]

Init ==
  /\ run = 1 /\ phase = "run"
  /\ pc = [w \in Worker |-> "idle"]
  /\ lines = [w \in Worker |-> {}]
  /\ todo = [w \in Worker |-> {}]
  /\ output = [w \in Worker |-> {}]
  /\ made = [w \in Worker |-> 0]
  /\ terminated = [w \in Worker |-> FALSE]
  /\ table = {}
  /\ F1 = [k \in Key |-> {}]
  /\ F2 = [k \in Key |-> {}]
  /\ deltaT = [w \in Worker |-> [s \in Shard |-> {}]]
  /\ pending_writes = [w \in Worker |-> 0]
  /\ result = [k \in Key |-> {}]
  /\ pending_sends = {} /\ inHand = {} /\ wire = {} /\ requests = {}
  /\ active_sends = {}
  /\ flush = [w \in Worker |-> "none"]
  /\ apply = [w \in Worker |-> "none"]

-----------------------------------------------------------------------------
(* The table                                                                *)

From(msgs, w) == {m \in msgs : m.src = w}

(* The requests queued at w.                                                *)
RequestsFor(w) == {m \in requests : is_local_shard(w, m.shard)}

Updates(msgs) == UNION {m.updates : m \in msgs}

(* Mutant: the entries of a request replace the deltas.                     *)
ApplyUpdatesReplacing(f1, msgs) ==
  LET new(k) == {u \in Updates(msgs) : u.key = k}
  IN [k \in Key |-> IF new(k) = {} THEN f1[k] ELSE new(k)]

(* ApplyUpdates: accumulateF1 for every entry of every request.             *)
ApplyUpdates(f1, msgs) ==
  [k \in Key |-> f1[k] \cup {u \in Updates(msgs) : u.key = k}]

(* HandlePutRequest at w: every queued request is taken and applied, under  *)
(* state_lock_.                                                             *)
HandlePutRequest(w) ==
  /\ F1' = ApplyUpdates(F1, RequestsFor(w))
  /\ requests' = requests \ RequestsFor(w)

(* Mutant: the delta tables are sent and not reset.                         *)
SendUpdatesUnreset(w, dt) ==
  /\ pending_sends' = pending_sends \cup
       {[src |-> w, shard |-> s, updates |-> dt[s]] :
          s \in {x \in Shard : ~is_local_shard(w, x) /\ dt[x] # {}}}
  /\ deltaT' = [deltaT EXCEPT ![w] = dt]
  /\ pending_writes' = [pending_writes EXCEPT ![w] = 0]

(* SendUpdates at w, when its delta tables are dt: one message for every    *)
(* remote shard with a non-empty delta table.                               *)
SendUpdates(w, dt) ==
  /\ pending_sends' = pending_sends \cup
       {[src |-> w, shard |-> s, updates |-> dt[s]] :
          s \in {x \in Shard : ~is_local_shard(w, x) /\ dt[x] # {}}}
  /\ deltaT' = [deltaT EXCEPT ![w] = [s \in Shard |-> {}]]
  /\ pending_writes' = [pending_writes EXCEPT ![w] = 0]

-----------------------------------------------------------------------------
(* The main thread of worker w (Worker::KernelLoop)                         *)

(* Where the main thread enters MaiterKernel1, 2 and 3.                     *)
EntryPoint == <<"load", "begin", "dump">>

(* RUN_KERNEL is read: the kernel of this run starts.                       *)
StartKernel(w) ==
  /\ phase = "run" /\ pc[w] = "idle"
  /\ pc' = [pc EXCEPT ![w] = EntryPoint[run]]
  /\ UNCHANGED <<masterVars, lines, todo, output, made, terminated,
                 tableVars, netVars, barrierVars>>

(* CheckNetwork, while the main thread waits for a kernel to run.           *)
CheckNetwork(w) ==
  /\ pc[w] \in {"idle", "done"}
  /\ RequestsFor(w) # {}
  /\ HandlePutRequest(w)
  /\ UNCHANGED <<masterVars, threadVars, table, F2, deltaT, pending_writes,
                 result, pending_sends, inHand, wire, active_sends,
                 barrierVars>>

(* MaiterKernel1::read_file puts the next line of the graph.  Every worker  *)
(* reads every line; put() stores the keys of the shards it owns, and only  *)
(* counts the others.                                                       *)
ReadLine(w) ==
  /\ pc[w] = "load"
  /\ \E k \in Key \ lines[w] :
       /\ lines' = [lines EXCEPT ![w] = @ \cup {k}]
       /\ IF OwnerOf(k) = w
          THEN /\ table' = table \cup {k}
               /\ F1' = [F1 EXCEPT ![k] = {InitialUpdate(k)}]
               /\ UNCHANGED pending_writes
          ELSE /\ pending_writes' = [pending_writes EXCEPT ![w] = @ + 1]
               /\ UNCHANGED <<table, F1>>
  /\ pc' = [pc EXCEPT ![w] = "put"]
  /\ UNCHANGED <<masterVars, todo, output, made, terminated, F2, deltaT,
                 result, netVars, barrierVars>>

(* PERIODIC(0.1, HandlePutRequests) at the end of put() and of updateF1():  *)
(* the requests are handled if the period has elapsed.                      *)
PeriodicPutRequests(w) ==
  /\ \/ pc[w] = "put" /\ pc' = [pc EXCEPT ![w] = "load"]
     \/ pc[w] = "reset" /\ pc' = [pc EXCEPT ![w] = "emit"]
  /\ \/ HandlePutRequest(w)
     \/ UNCHANGED <<F1, requests>>
  /\ UNCHANGED <<masterVars, lines, todo, output, made, terminated, table, F2,
                 deltaT, pending_writes, result, pending_sends, inHand, wire,
                 active_sends, barrierVars>>

(* StateTable::get_iterator, up to its sleep: FlushUpdates.                 *)
FlushUpdates(w) ==
  /\ pc[w] = "begin" /\ ~terminated[w]
  /\ SendUpdates(w, deltaT[w])
  /\ pc' = [pc EXCEPT ![w] = "wait"]
  /\ UNCHANGED <<masterVars, lines, todo, output, made, terminated, table, F1,
                 F2, result, inHand, wire, requests, active_sends,
                 barrierVars>>

(* get_iterator after its sleep: the queued requests are applied and an     *)
(* iterator is made, over all keys of w or over those the schedule picks.   *)
(* When the iterator finds nothing that has changed the code tries again;   *)
(* that is a pass over no keys.                                             *)
GetIterator(w) ==
  /\ pc[w] = "wait"
  /\ HandlePutRequest(w)
  /\ \E picked \in SUBSET {k \in table : OwnerOf(k) = w} :
       todo' = [todo EXCEPT ![w] = picked]
  /\ pc' = [pc EXCEPT ![w] = "iterate"]
  /\ UNCHANGED <<masterVars, lines, output, made, terminated, table, F2,
                 deltaT, pending_writes, result, pending_sends, inHand, wire,
                 active_sends, barrierVars>>

(* MaiterKernel2::run_iter up to its loop: accumulateF2, g_func, updateF1.  *)
RunIter(w) ==
  /\ pc[w] = "iterate" /\ made[w] < MaxIter[w]
  /\ \E k \in todo[w] :
       /\ F2' = [F2 EXCEPT ![k] = @ \cup F1[k]]
       /\ output' = [output EXCEPT ![w] =
                       {[src |-> w, id |-> made[w] + 1, key |-> j] :
                           j \in Links[k]}]
       /\ F1' = [F1 EXCEPT ![k] = {}]
       /\ todo' = [todo EXCEPT ![w] = @ \ {k}]
  /\ made' = [made EXCEPT ![w] = @ + 1]
  /\ pc' = [pc EXCEPT ![w] = "reset"]
  /\ UNCHANGED <<masterVars, lines, terminated, table, deltaT, pending_writes,
                 result, netVars, barrierVars>>

(* Mutant of accumulateF1: the update itself is not counted.                *)
accumulateF1Late(w, u) ==
  LET s == ShardOf[u.key]
      dt == [deltaT[w] EXCEPT ![s] = @ \cup {u}]
  IN IF is_local_shard(w, s)
     THEN /\ F1' = [F1 EXCEPT ![u.key] = @ \cup {u}]
          /\ UNCHANGED <<deltaT, pending_writes, pending_sends>>
     ELSE /\ IF pending_writes[w] > BufMsg
             THEN SendUpdates(w, dt)
             ELSE /\ deltaT' = [deltaT EXCEPT ![w] = dt]
                  /\ pending_writes' = [pending_writes EXCEPT ![w] = @ + 1]
                  /\ UNCHANGED pending_sends
          /\ UNCHANGED F1

(* accumulateF1 of one update: into the table if its shard is local, else   *)
(* into the delta table, which is sent when more than BufMsg updates wait.  *)
accumulateF1(w, u) ==
  LET s == ShardOf[u.key]
      dt == [deltaT[w] EXCEPT ![s] = @ \cup {u}]
  IN IF is_local_shard(w, s)
     THEN /\ F1' = [F1 EXCEPT ![u.key] = @ \cup {u}]
          /\ UNCHANGED <<deltaT, pending_writes, pending_sends>>
     ELSE /\ IF pending_writes[w] + 1 > BufMsg
             THEN SendUpdates(w, dt)
             ELSE /\ deltaT' = [deltaT EXCEPT ![w] = dt]
                  /\ pending_writes' = [pending_writes EXCEPT ![w] = @ + 1]
                  /\ UNCHANGED pending_sends
          /\ UNCHANGED F1

(* The loop of run_iter: one element of output.                             *)
Emit(w) ==
  /\ pc[w] = "emit"
  /\ \E u \in output[w] :
       /\ accumulateF1(w, u)
       /\ output' = [output EXCEPT ![w] = @ \ {u}]
  /\ UNCHANGED <<masterVars, pc, lines, todo, made, terminated, table, F2,
                 result, inHand, wire, requests, active_sends, barrierVars>>

(* run_iter returns; the pass goes on with the next key.                    *)
EndIter(w) ==
  /\ pc[w] = "emit" /\ output[w] = {}
  /\ pc' = [pc EXCEPT ![w] = "iterate"]
  /\ UNCHANGED <<masterVars, lines, todo, output, made, terminated, tableVars,
                 netVars, barrierVars>>

(* The iterator is exhausted (or the bound on iterations is reached).       *)
EndPass(w) ==
  /\ pc[w] = "iterate"
  /\ todo[w] = {} \/ made[w] = MaxIter[w]
  /\ pc' = [pc EXCEPT ![w] = "begin"]
  /\ todo' = [todo EXCEPT ![w] = {}]
  /\ UNCHANGED <<masterVars, lines, output, made, terminated, tableVars,
                 netVars, barrierVars>>

(* Mutant of Dump: the pending deltas are written.                          *)
DumpDeltas(w) ==
  /\ pc[w] = "dump"
  /\ result' = [k \in Key |-> IF k \in table /\ OwnerOf(k) = w
                              THEN F1[k] ELSE result[k]]
  /\ pc' = [pc EXCEPT ![w] = "dumped"]
  /\ UNCHANGED <<masterVars, lines, todo, output, made, terminated, table, F1,
                 F2, deltaT, pending_writes, netVars, barrierVars>>

(* MaiterKernel3::dump writes the value of every local key.                 *)
Dump(w) ==
  /\ pc[w] = "dump"
  /\ result' = [k \in Key |-> IF k \in table /\ OwnerOf(k) = w
                              THEN F2[k] ELSE result[k]]
  /\ pc' = [pc EXCEPT ![w] = "dumped"]
  /\ UNCHANGED <<masterVars, lines, todo, output, made, terminated, table, F1,
                 F2, deltaT, pending_writes, netVars, barrierVars>>

(* The kernel has returned: HandlePutRequest, then KERNEL_DONE is sent.     *)
KernelDone(w) ==
  /\ \/ pc[w] = "load" /\ lines[w] = Key
     \/ pc[w] = "begin" /\ terminated[w]
     \/ pc[w] = "dumped"
  /\ HandlePutRequest(w)
  /\ pc' = [pc EXCEPT ![w] = "done"]
  /\ UNCHANGED <<masterVars, lines, todo, output, made, terminated, table, F2,
                 deltaT, pending_writes, result, pending_sends, inHand, wire,
                 active_sends, barrierVars>>

-----------------------------------------------------------------------------
(* The network thread of worker w (NetworkThread::Run) and its callbacks    *)

Sending(w) == From(inHand, w) # {}

(* A message is popped from pending_sends_ ...                              *)
PopPending(w) ==
  /\ ~Sending(w)
  /\ \E m \in From(pending_sends, w) :
       /\ pending_sends' = pending_sends \ {m}
       /\ inHand' = inHand \cup {m}
  /\ UNCHANGED <<masterVars, threadVars, tableVars, wire, requests,
                 active_sends, barrierVars>>

(* ... then given to MPI and entered in active_sends_.                      *)
Isend(w) ==
  /\ \E m \in From(inHand, w) :
       /\ inHand' = inHand \ {m}
       /\ wire' = wire \cup {m}
       /\ active_sends' = active_sends \cup {m}
  /\ UNCHANGED <<masterVars, threadVars, tableVars, pending_sends, requests,
                 barrierVars>>

(* Mutant: finished sends stay in active_sends_.                            *)
CollectActiveKeeps(w) ==
  /\ \E m \in From(active_sends, w) : m \notin wire
  /\ UNCHANGED vars

(* CollectActive: MPI reports a send as finished.                           *)
CollectActive(w) ==
  /\ ~Sending(w)
  /\ \E m \in From(active_sends, w) :
       /\ RemoteDelivery => m \notin wire
       /\ active_sends' = active_sends \ {m}
  /\ UNCHANGED <<masterVars, threadVars, tableVars, pending_sends, inHand,
                 wire, requests, barrierVars>>

(* A message for w is received and queued.                                  *)
Receive(w) ==
  /\ ~Sending(w)
  /\ \E m \in wire :
       /\ is_local_shard(w, m.shard)
       /\ wire' = wire \ {m}
       /\ requests' = requests \cup {m}
  /\ UNCHANGED <<masterVars, threadVars, tableVars, pending_sends, inHand,
                 active_sends, barrierVars>>

(* HandleTermNotification: the master has decided to stop the iteration.    *)
HandleTermNotification(w) ==
  /\ run = 2 /\ phase = "run" /\ ~terminated[w]
  /\ ~Sending(w)
  /\ terminated' = [terminated EXCEPT ![w] = TRUE]
  /\ UNCHANGED <<masterVars, pc, lines, todo, output, made, tableVars,
                 netVars, barrierVars>>

(* HandleApply, called by the network thread.                               *)
HandleApply(w) ==
  /\ phase = "apply" /\ apply[w] = "sent"
  /\ ~Sending(w)
  /\ HandlePutRequest(w)
  /\ apply' = [apply EXCEPT ![w] = "replied"]
  /\ UNCHANGED <<masterVars, threadVars, table, F2, deltaT, pending_writes,
                 result, pending_sends, inHand, wire, active_sends, flush>>

-----------------------------------------------------------------------------
(* The thread spawned for MTYPE_WORKER_FLUSH at worker w                    *)

(* HandleFlush: SendUpdates, then NetworkThread::Flush starts to poll.      *)
HandleFlush(w) ==
  /\ phase = "flush" /\ flush[w] = "sent"
  /\ SendUpdates(w, deltaT[w])
  /\ flush' = [flush EXCEPT ![w] = "polling"]
  /\ UNCHANGED <<masterVars, threadVars, table, F1, F2, result, inHand, wire,
                 requests, active_sends, apply>>

(* active() is FALSE and Flush returns.  active() adds the sizes of two     *)
(* containers without taking send_lock, in the order the compiler chose,    *)
(* while the network thread moves messages from one to the other.           *)
PollActive(w) ==
  LET noActive == From(active_sends, w) = {}
      noPending == From(pending_sends, w) = {}
  IN /\ \/ /\ flush[w] = "polling"
           /\ \/ noActive /\ flush' = [flush EXCEPT ![w] = "noActive"]
              \/ noPending /\ flush' = [flush EXCEPT ![w] = "noPending"]
        \/ /\ flush[w] = "noActive"
           /\ flush' = [flush EXCEPT ![w] =
                          IF noPending THEN "answered" ELSE "polling"]
        \/ /\ flush[w] = "noPending"
           /\ flush' = [flush EXCEPT ![w] =
                          IF noActive THEN "answered" ELSE "polling"]
     /\ UNCHANGED <<masterVars, threadVars, tableVars, netVars, apply>>

(* Mutant: the reply does not pass through the network thread.              *)
SendReplyAtOnce(w) ==
  /\ flush[w] = "answered"
  /\ flush' = [flush EXCEPT ![w] = "replied"]
  /\ UNCHANGED <<masterVars, threadVars, tableVars, netVars, apply>>

(* InvokeCallback queues the reply in pending_sends_ as well: the network   *)
(* thread sends it, after what it has in hand.                              *)
SendReply(w) ==
  /\ flush[w] = "answered" /\ ~Sending(w)
  /\ flush' = [flush EXCEPT ![w] = "replied"]
  /\ UNCHANGED <<masterVars, threadVars, tableVars, netVars, apply>>

-----------------------------------------------------------------------------
(* The master (Master::barrier)                                             *)

(* Mutant: the barrier does not wait for all workers.                       *)
StartFlushEarly ==
  /\ phase = "run"
  /\ \E w \in Worker : pc[w] = "done"
  /\ phase' = "flush"
  /\ flush' = [w \in Worker |-> "sent"]
  /\ UNCHANGED <<run, threadVars, tableVars, netVars, apply>>

(* All tasks are reaped: SyncBroadcast(MTYPE_WORKER_FLUSH) begins.          *)
StartFlush ==
  /\ phase = "run"
  /\ \A w \in Worker : pc[w] = "done"
  /\ phase' = "flush"
  /\ flush' = [w \in Worker |-> "sent"]
  /\ UNCHANGED <<run, threadVars, tableVars, netVars, apply>>

(* Every worker replied: SyncBroadcast(MTYPE_WORKER_APPLY) begins.          *)
StartApply ==
  /\ phase = "flush"
  /\ \A w \in Worker : flush[w] = "replied"
  /\ phase' = "apply"
  /\ flush' = [w \in Worker |-> "none"]
  /\ apply' = [w \in Worker |-> "sent"]
  /\ UNCHANGED <<run, threadVars, tableVars, netVars>>

(* Mutant: another kernel is run after the last one.                        *)
EndBarrierAgain ==
  /\ phase = "apply"
  /\ \A w \in Worker : apply[w] = "replied"
  /\ run' = run + 1 /\ phase' = "run"
  /\ apply' = [w \in Worker |-> "none"]
  /\ pc' = [w \in Worker |-> "idle"]
  /\ UNCHANGED <<lines, todo, output, made, terminated, tableVars, netVars,
                 flush>>

(* Every worker replied: barrier() returns and run_maiter goes on with the  *)
(* next kernel, or is done.                                                 *)
EndBarrier ==
  /\ phase = "apply"
  /\ \A w \in Worker : apply[w] = "replied"
  /\ apply' = [w \in Worker |-> "none"]
  /\ IF run < 3
     THEN /\ run' = run + 1 /\ phase' = "run"
          /\ pc' = [w \in Worker |-> "idle"]
     ELSE /\ phase' = "done"
          /\ UNCHANGED <<run, pc>>
  /\ UNCHANGED <<lines, todo, output, made, terminated, tableVars, netVars,
                 flush>>

(* The computation is over.                                                 *)
Finished == phase = "done" /\ UNCHANGED vars

MainThread(w) ==
  \/ StartKernel(w) \/ CheckNetwork(w) \/ ReadLine(w)
  \/ PeriodicPutRequests(w) \/ FlushUpdates(w)
  \/ GetIterator(w) \/ RunIter(w) \/ Emit(w) \/ EndIter(w) \/ EndPass(w)
  \/ Dump(w) \/ KernelDone(w)

Next ==
  \/ \E w \in Worker :
       \/ MainThread(w)
       \/ PopPending(w) \/ Isend(w) \/ CollectActive(w) \/ Receive(w)
       \/ HandleTermNotification(w) \/ HandleApply(w)
       \/ HandleFlush(w) \/ PollActive(w) \/ SendReply(w)
  \/ StartFlush \/ StartApply \/ EndBarrier
  \/ Finished

Spec == Init /\ [][Next]_vars

-----------------------------------------------------------------------------
(* Safety                                                                   *)

InTransit == pending_sends \cup inHand \cup wire \cup requests

Buffered(w) == UNION {deltaT[w][s] : s \in Shard}

(* Issued by a kernel and not yet sent.                                     *)
Unsent == UNION {output[w] \cup Buffered(w) : w \in Worker}

(* Issued by a kernel and not yet accumulated in the table.                 *)
InFlight == Unsent \cup Updates(InTransit)

(* The type of every variable.                                              *)
TypeOK ==
  /\ run \in 1..3 /\ phase \in {"run", "flush", "apply", "done"}
  /\ pc \in [Worker -> {"idle", "load", "put", "begin", "wait", "iterate",
                        "reset", "emit", "dump", "dumped", "done"}]
  /\ lines \in [Worker -> SUBSET Key]
  /\ todo \in [Worker -> SUBSET Key]
  /\ output \in [Worker -> SUBSET Update]
  /\ made \in [Worker -> Nat]
  /\ terminated \in [Worker -> BOOLEAN]
  /\ table \in SUBSET Key
  /\ F1 \in [Key -> SUBSET Update]
  /\ F2 \in [Key -> SUBSET Update]
  /\ deltaT \in [Worker -> [Shard -> SUBSET Update]]
  /\ pending_writes \in [Worker -> Nat]
  /\ result \in [Key -> SUBSET Update]
  /\ pending_sends \in SUBSET Message /\ inHand \in SUBSET Message
  /\ wire \in SUBSET Message /\ requests \in SUBSET Message
  /\ active_sends \in SUBSET Message
  /\ flush \in [Worker -> {"none", "sent", "polling", "noActive",
                           "noPending", "answered", "replied"}]
  /\ apply \in [Worker -> {"none", "sent", "replied"}]

(* No update is in two places at once: it is in a kernel's output buffer,   *)
(* in one delta table, in one message, or in one field of its key's entry   *)
(* (SendUpdates empties the delta table it serializes, the network thread   *)
(* moves messages and never copies them, updateF1 resets what accumulateF2  *)
(* consumed).  A violation would count a neighbour's contribution twice.    *)
AtMostOnce ==
  /\ \A k \in Key : F1[k] \cap F2[k] = {}
  /\ \A u \in InFlight : u \notin F1[u.key] \cup F2[u.key]
  /\ \A w \in Worker :
       /\ output[w] \cap Buffered(w) = {}
       /\ (output[w] \cup Buffered(w)) \cap Updates(InTransit) = {}
  /\ \A m, n \in InTransit : m # n => m.updates \cap n.updates = {}

(* StateTable::accumulateF1 CHECKs that the key exists: an update is only   *)
(* ever made for a key that its owner has loaded, because the barrier keeps *)
(* MaiterKernel2 from starting before every worker has read its keys.       *)
UpdatesHitLoadedKeys == \A u \in InFlight : u.key \in table

(* accumulateF1 sends the delta tables once FLAGS_bufmsg updates wait, so   *)
(* that a worker never holds back more than BufMsg updates.                 *)
BufferBounded == \A w \in Worker : Cardinality(Buffered(w)) <= BufMsg

(* When the computation ends, every node was loaded and the value written   *)
(* for it is its final value: no iteration ran after or beside the dump.    *)
DumpIsFinal == phase = "done" => table = Key /\ result = F2

(* master.cc: "make sure all workers have flushed everything" and "make     *)
(* sure all workers have applied all updates": once the barrier that ends   *)
(* MaiterKernel2 has returned, no update is buffered, queued or in transit. *)
BarrierApplied == run = 3 => InFlight = {}

(* What the first round trip gives of that: once the master has the replies *)
(* to FLUSH, until the next kernel that makes updates, every update made so *)
(* far has been given to MPI.  active() may miss a message that moves from  *)
(* pending_sends_ to active_sends_, and Flush return meanwhile; but the     *)
(* reply goes through the thread that moves it.                             *)
FlushedOut ==
  phase = "apply" \/ run = 3 => Unsent = {} /\ pending_sends = {} /\ inHand = {}

-----------------------------------------------------------------------------
(* The table as the kernels see it: AccumulatorTable, with everything that  *)
(* is buffered, queued or on the wire hidden in one set.                    *)
Accumulator == INSTANCE AccumulatorTable WITH inFlight <- InFlight

(* The exchange of delta tables implements the abstract table: an update    *)
(* issued by run_iter is accumulated once at the owner of its key, is never *)
(* lost or repeated by SendUpdates, the network thread or HandlePutRequest, *)
(* and no delta is overwritten by updateF1 before it was folded into F2.    *)
ImplementsTable == Accumulator!Spec

-----------------------------------------------------------------------------
(* Liveness.  Every thread keeps running, MPI delivers and completes what   *)
(* it was given, and the master's termination check eventually stops the    *)
(* iteration at every worker (TermCheck.tla is about that assumption).      *)
Fairness ==
  /\ \A w \in Worker :
       /\ WF_vars(MainThread(w))
       /\ WF_vars(PopPending(w)) /\ WF_vars(Isend(w))
       /\ WF_vars(CollectActive(w)) /\ WF_vars(Receive(w))
       /\ WF_vars(HandleTermNotification(w)) /\ WF_vars(HandleApply(w))
       /\ WF_vars(HandleFlush(w)) /\ WF_vars(PollActive(w))
       /\ WF_vars(SendReply(w))
  /\ WF_vars(StartFlush) /\ WF_vars(StartApply) /\ WF_vars(EndBarrier)

FairSpec == Spec /\ Fairness

(* The three kernels and their barriers always come to an end: no thread of *)
(* Flush, Apply and the kernels waits for another one forever.              *)
Finishes == <>(phase = "done")
====
