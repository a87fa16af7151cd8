# MaiterStore in TLA+

MaiterStore runs iterative graph computations (PageRank, shortest paths, ...)
on a cluster.  One master and several workers talk over MPI.  The graph's nodes
are the keys of one *global table*, split in shards; each worker keeps the
shards it owns in *state tables*, collects what it has to tell other shards in
*delta tables*, and fetches adjacency lists from a *store* on disk through a
hot-aware cache.  This directory models the parts that are concurrent or
stateful, checks them with TLC on small instances, and proves the main results
for all instances with TLAPS.

All line numbers below are of files under `src/src/`.

## 1. The system and what is modelled

| Part | Code | State | Operations | Module |
|---|---|---|---|---|
| Runs, scheduling, barrier | `master/master.cc`, `worker/worker.cc` | tasks and shards of each worker, counters, each worker's view of the owners, `dirty`, `tainted`, which shards it has loaded | `run_range`, `assign_tables`, `assign_tasks`, `dispatch_work`, `reap_one_task`, `steal_work`, `barrier`; `KernelLoop`, `HandleShardAssignment`, `CheckNetwork`, `HandleFlush`, `HandleApply` | `Scheduler`, abstract: `KernelRuns` |
| Delta exchange | `kernel/kernel.h`, `kernel/global-table.*`, `worker/worker.cc`, `util/rpc.cc` | state table fields F1 and F2, delta tables, four places of a message, `active_sends_` | the three Maiter kernels, `accumulateF1`, `SendUpdates`, `HandlePutRequest`, the network thread, FLUSH and APPLY | `DeltaExchange`, abstract: `AccumulatorTable` |
| Termination check | `master/master.cc` 377-448, `kernel/table.h` 165-206, `worker/worker.cc` | last report of each worker, the previous sum | `termcheck`, `terminate_iteration`, `SendTermcheck`, `HandleTermNotification` | `TermCheck` |
| Checkpoint | `master/master.cc` 285-391, `worker/worker.cc` 210-305, 338-368, 504-534 | epochs of master, workers and peers, saved tables, delta log | `checkpoint`, `StartCheckpoint`, `FinishCheckpoint`, `UpdateEpoch`, `HandlePutRequest` | `Checkpoint` |
| Restore | `master/master.cc` 450-500, `util/rpc.cc` | replies and requests by type | `restore`, `SyncBroadcast`, `Worker::Restore` | `Restore` |
| Checkpoint files | `kernel/local-table.cc`, `util/file.*` | a shard's file and its `.delta`: block, buffer, kernel, disk | `start_checkpoint`, `write_delta`, `finish_checkpoint`, `~RecordFile`, `restore`; crash, power failure | `CheckpointFiles` |
| Checkpoint variables | `kernel/kernel.h` 69-121, `master/master.h` 122-128 | `p_`, `serialized_`, the saved `Args` | `get_cp_var`, `put`, `get`, `ToMessage`, `FromMessage` | `CheckpointVars` |
| RPC layer | `util/rpc.cc` | pending sends, MPI's channels, queues of requests and replies, callback threads | `Run`, `Send`, `SyncBroadcast`, `WaitForSync`, `InvokeCallback`, `TryRead`, `Flush`, `Shutdown`; `swap` and `clear` as callbacks | `NetworkThread` |
| Second kernel | `kernel/kernel.h` 377-444, `kernel/statetable.h` 44-387, five programs of `examples/` | delta, value and priority of each node, messages, iterators | `get_iterator`, `schedule_iterator`, `Next`, `done`, `run_iter`, `HandlePutRequest`, `estimate_prog` | `IterateKernel` |
| Hot-aware cache | `store/cache.h`, `store/sstore.h` 54-71 | `kv`, `kp`, `pk`, `influMap` | `getData`, `addCache`, `updatePrority`, `deleteMin`, `add` | `HotCache` |
| Delta table | `kernel/deltatable.h` | `buckets_`, `size_`, `entries_` | `put`, `update`, `accumulate`, `clear`, `reset`, `resize` | `DeltaTable`, `HashTable` |
| Put requests | `kernel/deltatable.h` 37-69, `kernel/global-table.cc` 185-236, `kernel/table.h` 672-731 | a delta table, its iterator, messages, the decoded list | `accumulateF1`, `SendUpdates`, `serializeToNet`, `deserializeFromNet`, `ApplyUpdates` | `UpdateMessages` |
| State table | `kernel/statetable.h` | the same as the delta table's | `put`, `updateF*`, `accumulateF*`, `clear`, `resize` | `StateTable`, `HashTable` |
| Other caches | `store/lrucache.h`, `store/fifocache.h`, `store/kvmap.h` | map and linked list; map and queue | `insert`, `get`, `remove`, `clear`, `prune`; `addCache`, `show` | `LRUCache`, `FIFOCache` |
| CSR store | `store/writer.cpp`, `store/reader.cpp`, `store/flat_file.*` | the two files; the mapped window | `write`, `read`; `openAndMmapFile`, `readMmapFile`, `munmapAndCloseFile` | `CsrStore`, `MMapedFile` |
| Block store | `store/blockwriter.h`, `store/blockreader.h`, `store/kvreader.h`, `store/index.h` | buffer, blocks, masters | `batchedWrite`, `saveMasters`, `getBlockAddr`, `splitString` | `BlockStore` |

How they interact.  `Scheduler` starts kernels on shards and ends each run with
the barrier; it shows that every shard has one owner and every alive worker
serves a shard (`ViewsAgree`, `AllServe`).  With as many shards as workers, each
then serves one, which is an assumption (`OneShardPerWorker`) of
`DeltaExchange`.  `DeltaExchange` is one whole `run_maiter`: it assumes that the
iteration is stopped on every worker, which `TermCheck` shows (`Stops`), and
that the partitions of the table are maps, which `DeltaTable` and `StateTable`
show (`IsMap`).  What it treats as sets of updates, `IterateKernel` treats as
numbers: it takes for granted that messages arrive and shows what the loop
computes with them.  `UpdateMessages` is the step between the two tables at both
ends of a message.  `TermCheck` assumes that a worker's progress grows to a
bound, which `IterateKernel` shows for programs that add up (`ProgressGrows`,
`Converges`).  `Scheduler`, `Checkpoint` and `Restore` rely on `SyncBroadcast`:
`NetworkThread` shows that it returns when every worker has run the callback of
this call, if one is registered (`SyncCallsRun`).  `Checkpoint` has who saves
what and when, `CheckpointFiles` what of it survives in files.

What makes these parts hard: the network thread sends its pending messages
from the back of a vector, so messages to one peer overtake each other
(`util/rpc.cc` 195-203); `active()` reads two containers without the lock; MPI
may complete a send before it is received; callbacks run beside the main
thread; shards change owner while requests are under way; termination reports
are read late and thrown away.

### Not modelled

* What `update_str` makes of a restored entry (`local-table.cc` 49, 55).
  `CheckpointFiles` has which entries are applied.
* `remove`, the remote `get` (`HandleGetRequest`) and the remote iterators
  (`HandleIteratorRequest`) of a global table: `run_maiter` uses none of them.
* What `serializeToFile` and `serializeToNet` of a `StateTable` would write: they
  pass a null helper to `get_iterator`, which dereferences it (`statetable.h` 328,
  471, 487).  In `Scheduler` the worker dies of it; `Checkpoint` and
  `CheckpointFiles` have tables whose `serializeToFile` works, as `DeltaTable`'s
  does.
* The early START of a barrier (`master.cc` 855-860): it needs
  `CP_MASTER_CONTROLLED` in the `RunDescriptor`, that is a list of tables to
  checkpoint, which `run_maiter` does not give.  The checkpoint inside of the
  barrier's loop (818-821) needs `CP_ROLLING`, which nothing sets.
* A token of `INFLU_FILE` that is no number: the constructor of `Cache` throws.
* `FileManager`, `Record`, `googlegraph.h`: they read and print whole files.
  `FileDecodeIterator` and the programs' `read_data`: nothing in this build calls
  them.
* `simrank.cc`, whose keys are pairs of nodes and whose `g_func` takes strings
  apart; `gengraph.cc`, which writes random graphs.
* Descriptors, registries, marshalling of single values, logging, timers,
  start-up, generated message classes: no state the properties depend on.

## 2. Modules, state and actions

An action is one step of one thread between two points where another thread can
see the state; what the code does under one lock, or on data no other thread
has, is one action.  Names are those of the code.

**`DeltaExchange`** Each worker is three threads: the main thread (`pc`), the
network thread and the thread that answers FLUSH.  An update is a unique token
and a field of an entry is the set of tokens accumulated in it; a lost update
is then in no place and a repeated one in two.  This stands for any commutative,
associative `accumulate`.  `ReadLine` is `MaiterKernel1::read_file`, `GetIterator`
to `EndPass` are `MaiterKernel2`, `Dump` is `MaiterKernel3`.  A message goes
`pending_sends_` → in hand → wire → `requests`; `PollActive` reads the two
containers of `active()` one after the other, in either order, which is what the
missing lock allows.  `SendReply` is the reply to FLUSH: `InvokeCallback` queues it
in `pending_sends_` too, so that it leaves through the network thread, after the
message this thread has in hand.  `GetIterator` lets a pass visit any set of local
keys.  `RemoteDelivery` is what MPI does: FALSE, it completes sends early, as the
code must expect; TRUE, only when they are received.  The graph, the sharding, the
owners and `bufmsg` are constants.  `MaxIter` bounds the number of iterations per
worker.

**`Scheduler`** One table, and `checkpoint_type` is CP_NONE.  `Calls` is the sequence of the shards of the calls of `run_range`.
`master` is the point in `run`/`barrier`; `SHARD_ASSIGNMENT`, FLUSH and APPLY are
synchronous broadcasts (`sync`).  `dead` is `FLAGS_dead_workers`: such a worker
gets no shard but answers broadcasts.  Sizes and times, which decide whether a steal
pays off, are a free choice.  `KernelRuns` says: a call runs its kernel once on
every shard of it, and calls do not overlap.

A partition begins as a `DeltaTable`; the first `MaiterKernel1` at a worker makes
those that are local `StateTable`s (`state`, `InitStateTable`).  `LoadCalls` is which
calls run `MaiterKernel1`.  A shard that changes hands after that is a `StateTable` at
its old owner, where `SendUpdates` passes a null helper (`statetable.h` 487, 328), and a
`DeltaTable` at its new owner, where `partition()` is NULL (`global-table.h` 233-235).
Either ends the process: `crashed`.  The actions of a worker stop then, and nothing
restarts it.  A kernel that meets no key of such a shard may return
(`NullPartition` is a choice).  `run_maiter` meets this rarely: it makes one
shard per worker, and a steal needs more than ten finished tasks of the call and a
worker with two pending ones (`eta > move_cost`), that is with three shards, so that
more than half of the workers are in `dead_workers`.  A job that steals and never
loads, as `gengraph.cc`, is the case without `LoadCalls`.

**`TermCheck`** A report carries its number and a progress value that the worker
has when it sends.  Reports are delivered in any order.  Progress grows with
each pass up to a bound, `MaxProgress`: a computation that converges.
Reports are numbered from 1 to `MaxIndex`; a number is used again once no report
with it is unread or remembered, so `MaxIndex` bounds the reports under way.
`reporter` is the set of workers that have a shard to iterate over.

**`Checkpoint`** A saved table is the set of put requests applied to it or logged
for it.  `ReadStart` ... `NoMoreFinishes` are the two loops of
`CheckForMasterUpdates` message by message, because the network thread receives
in between.  A `job` fixes the types of the checkpoints, the number of put
requests and the network: unless `inOrder`, a channel delivers in any order,
which includes the reversal by `pending_sends_`; `inOrder` is the case that no
two messages are pending together.  Checkpoints are those of `checkpoint()`; the
early START of a barrier (`master.cc` 855-860), beside running kernels, is left
out.  The module assumes tables whose `serializeToFile` works: a `StateTable`'s
passes a null helper to `get_iterator` (`statetable.h` 471).

**`Restore`** Only the messages of `restore`: which types have a callback, and who
waits for which reply.

**`HotCache`** `Init` is the constructor, which loads `influMap` from `INFLU_FILE`.  A
line of that file is what the parser tells apart: whether it has a tab, whose
list it is, how many spaces follow.  The loading ends at the first line without a
tab; a number is cut to an `int` (`Half` is 2^31); a space behind another one and
the one appended to an empty list push `to` as it is, uninitialised (`Undefined`).
`pk` is a bag (a multimap in the code).  Priorities and the margin
are naturals; floating-point rounding is left out.  Which of several minimal
entries `pk.begin()` is, is a free choice.

**`HashTable`**, **`DeltaTable`**, **`StateTable`** The search of both tables is one
operator, `Stop`; after a round without a free bucket it ends where it began, as
in the code.  `put` of the code calls `resize`, which calls `put`; as the new
table is larger than what it takes, these inner puts never grow it and the
recursion is written as a fold.  `map` is a reference: the function the calls
promise.

**`UpdateMessages`** One sender and one shard.  The walk over the buckets, the
message and the decoded list are steps of their own, so that the receiver applies
one message while the sender fills and grows its table for the next.

**`IterateKernel`** One action is one node of a pass.  `Buckets` fixes where the
nodes of a shard lie, with free buckets between and behind them.  Numbers are
whole: `Unit` is what 0.2 is in a unit that makes every rank and delta exact, and
the damping factors are the defaults of `examples/main.cc`.  Graphs of programs
that add up have no cycle, so that the result is reached exactly; no graph has
parallel links.  Which nodes an iterator samples is a free choice.  Only
`pagerank.cc` is in the build; the other programs are left out by
`examples/CMakeLists.txt` but written for the same loop.  Deltas between shards
are accumulated by node on their way and arrive at any time.  Every shard has a
node: on an empty one the filter of `Iterator` does not end (`statetable.h` 63).

**`NetworkThread`** Process 0 is the master.  A message carries the number of its
call, which the code does not send: it is how the properties see stale replies.
`eager` is whether MPI finishes a small send before it is received.  Types stand
for their way through the code: `SWAP_TABLE` and `CLEAR_TABLE` for callbacks in
the network thread, `WORKER_FLUSH` for one in a thread of its own,
`WORKER_SHUTDOWN` for a queued request, `TERMINATION` for a call whose replies
nobody reads.  `active()` is read in one step here; its race is in
`DeltaExchange`.

**`CheckpointFiles`** A file is a sequence of cells that say which cell of which
chunk of which entry they are; compression keeps cells and only groups them in
blocks.  Cells move from `block` to `stdio` to `os` to `disk`.  A crash of the
process loses the first two, a power failure also what was not synced, from any
cell on.  `closeBase` and `finish_checkpoint` take `~RecordFile` apart: sync,
rename, delete.

**`CheckpointVars`** `known` is what the program knows of its variables; `restore`
is a new master that reads `checkpoint.finished`.  `used` is which variables the
program has used since it started: only those are in the next checkpoint.

**`LRUCache`** The list is modelled pointer by pointer.  **`FIFOCache`** has `show`,
which prints the queue by emptying it.  **`CsrStore`** A writer may stop between
any two writes, or at an empty line, for which `lexical_cast` throws.
**`BlockStore`** A line is a key and a length; what `getBlockText` reads behind a
full block is taken to hold no separators.  **`MMapedFile`** A mapping is an
address with the part of the file it shows; `mmap` may fail or choose another
address.  `lost` records a close or a remap that threw since the last window was
made.  `reference_count` is never read and left out, as are calls that throw
before they change anything.

`MC*` modules give constants their values.  `MCTables` and `MCComponents` put
several instances side by side: the initial state chooses the `kind`, and each
property speaks of the behaviours of its kind.

Definitions called "mutant" are deliberate errors.  Nothing uses them: each, put
in the place of the definition that follows it, makes one property fail, which
shows that the property depends on that code.

## 3. Runs

| Run | Checks | Shows |
|---|---|---|
| `exchange` | `TypeOK`, `AtMostOnce`, `UpdatesHitLoadedKeys`, `BufferBounded`, `DumpIsFinal`, `FlushedOut`, `ImplementsTable`, `Finishes` | no update is repeated, dropped or applied to a key that is not loaded; buffers stay bounded; what is dumped is the final value; the exchange implements `AccumulatorTable`; once FLUSH is answered by all, every update was applied or given to MPI; the three kernels and barriers end |
| `barrier_race` | `BarrierApplied` | **violated** even if MPI completed a send only when it was received |
| `scheduler` | `ChecksHold`, `ViewsAgree`, `CountersMatch`, `AllServe`, `ImplementsRuns`, `AllCallsReturn`, `TaintClears` | under stealing no CHECK or FATAL of the protocol fires, all agree on the owners, no alive worker is left without a shard, each kernel runs once per shard; calls return and a shard that changed hands does not stay tainted, unless a worker dies, and it dies only of a shard moved after it was loaded |
| `termcheck` | `TypeOK`, `TwoCollections`, `SilentBlocks`, `Stops` | the iteration is stopped only on two complete, different collections; it is stopped everywhere when progress converges; a worker that never reports keeps all others iterating |
| `checkpoint` | `TypeOK`, `CutInOrder`, `RollingCommitted`, `Returns` | on channels in order a rolling checkpoint is a consistent cut; also out of order no DONE is left over, a rolling checkpoint is complete when it returns, and both kinds return |
| `checkpoint_early` | `Committed` | **violated**: a master-controlled checkpoint returns before a worker saved anything |
| `checkpoint_reorder` | `ConsistentCut` | **violated** when a marker overtakes a put request |
| `restore` | `RestoreReturns` | **violated**: no worker replies to RESTORE |
| `components` | see below | ten components by themselves |
| `committed_to_disk` | `CommittedToDisk` | **violated**: the last block and buffer of a checkpoint's files are never synced |
| `tables` | `IsMap`, `UpdatesConserved` | through growth, collisions, clear and reset a delta table is a map and counts its entries, and so does a state table sized by `resize(num_nodes)`, up to its last bucket; no delta is lost or doubled between a delta table and the owner's table |
| `state_table_growth` | `KeysKept` | **violated** when put has to grow the state table |

The run `components` checks:

| Component | Properties | Shows |
|---|---|---|
| `HotCache` | `CacheSound`, `EvictsColdest` | the three indexes agree, size is bounded, only the coldest entry goes; the list returned is the node's exactly if it does not come from a line of `INFLU_FILE` that the constructor misreads |
| `LRUCache`, `FIFOCache` | `KeepsRecent`; `FIFOBounded` | the list is linked right and in the order of use, `MaxSize` is exceeded by less than the elasticity; the queue holds cached keys only, and `show` is what lets the cache grow |
| `CsrStore` | `ReadsLines` | what was written reads back, also after a writer that stopped |
| `BlockStore` | `BlockLookup` | the index leads to the block with the key; exactly which blocks `splitString` returns from: never the last |
| `MMapedFile` | `WindowSound` | a pointer shows the byte asked for exactly if no close and no refused or failed remap came since the last window was made; no window leaks |
| `CheckpointFiles` | `Restores` | closed files restore in full; after any loss, restore applies a prefix of each file |
| `CheckpointVars` | `ReadsLatest` | a variable has its last value; after a restart that of the checkpoint if it was used between the restart before and that checkpoint, and the default if it was not |
| `NetworkThread` | `SyncCallsRun`, `AllStop` | no reply ends a call it does not belong to; a synchronous call returns when all have run it, in order; all processes stop |
| `IterateKernel` | `NoDeltaLost`, `PriorityCurrent`, `ProgressGrows`, `Converges` | value, delta and messages of a node always add up to what it began with and what its neighbours contributed; no value overshoots; priorities are never stale; reported progress never falls; the values reach the result and keep it |

`Converges` leaves out connected components with scheduling: `con_component.cc`
gives a node with work a negative priority and one without 0, against the comment
at `statetable.h` 627, so that the cut can pass over it forever.  `ProgressGrows`
leaves out shortest paths, where a distance that becomes known adds to the sum
and one that gets shorter takes from it.

`DumpIsFinal` says that the dump shows the final F2, not that every update has
reached it: an update that arrives late stays in F1.  That none does is
`BarrierApplied`, which the code does not give.  What it gives is `FlushedOut`: a late
update can only be on the wire or among the requests received, never held back
by its sender.

### Bounds

* `exchange`, `barrier_race`: two workers and three nodes with local, remote and
  mixed links; one output overflows `BufMsg = 1`.  One iteration per worker and
  any number of passes, so that a worker receives updates while it loads,
  iterates, flushes and dumps, and sends from `accumulateF1`, from `get_iterator`
  and from FLUSH.  The theorems of section 5 lift the bound.
* `scheduler`: two workers, both alive or one dead, five shards and two calls
  with uneven shards: tasks are stolen in both directions and a shard can return
  to its first owner.  `StealAfter` is 0 instead of 10, so that few calls do.  The
  first call loads the table or does not; a worker can die of a shard it lost, of
  one it gained, in a kernel, in `CheckNetwork` and in FLUSH.  Deadlock is not
  looked for: a dead worker stops the system, which is what the liveness
  properties are about.
* `termcheck`: two workers; worker 0 has four numbers for its reports, of which
  at least two can be under way and overtake each other, worker 1 has two; worker
  0's progress goes from 0 to 1.  This is enough for stale, early and discarded
  reports; the theorems of section 5 lift the bound.
* `checkpoint`: two workers; two rolling checkpoints with one put request at any
  time, or a master-controlled checkpoint between two rolling ones.
* `components`: `HotCache`: four nodes for three entries, priorities inside and
  outside the margin; three files of influential nodes, with plain lines, a line
  without a tab, one that ends with a space, one with an empty list and one with
  a number that does not fit an `int` (`Half` is 8).  `LRUCache`: five keys, one more than fit with the
  elasticity, so that a prune pops several.  `FIFOCache`: five keys for two
  entries and one `show`, two generations and an eviction.  `CsrStore`: three
  lines of up to two vertices, empty ones among them.  `BlockStore`: four lines of
  sizes that fill a block of eight characters, overflow it by the separator, or
  leave any number of characters free.  `MMapedFile`: two and a half pages and two
  addresses, every offset and length; the proofs lift the bound.
  `CheckpointFiles`: two entries and two deltas of chunks that end inside, at the
  edge of and outside of blocks and buffers.  `CheckpointVars`: two variables, any
  number of checkpoints and restarts.  `NetworkThread`: two workers, any two calls
  (the second synchronous) and the shutdown.  `IterateKernel`: four nodes in two
  shards, one with more nodes than a sample and one whose last bucket is free; a
  graph with two paths, one with a cycle, one without.
* `tables`: six keys that collide in tables of each size, grow the delta table
  1 → 3 → 7, and exactly fill the state table; four keys and four updates in one
  or several messages, the second filled while the first is applied.

### Fairness

Weak fairness of each thread: the loops of the master, of `KernelLoop` and of
the network thread do not stop and MPI delivers.  Strong fairness where a thread
polls several things in turn, so that each is reached although another step
disables it for a moment: `StartKernel` in `Scheduler` (`KernelLoop` polls for
requests on each turn), `HandlePutRequest` in `Checkpoint` (`CheckNetwork` calls
`CheckForMasterUpdates`, then `HandlePutRequest`), `SendTermcheck` in `TermCheck`
(each pass begins with `get_iterator`, which reports when the interval has
passed).  `Finishes` takes from `TermCheck` that each worker is told to stop.
`AllStop` has weak fairness of the master, of each
network thread and of each worker, and MPI that finishes small sends early: a
worker's reply to TERMINATION is received by nobody once the master has stopped,
and its `Flush` would wait for it.  `Converges` has weak fairness of each worker's
loop, and nothing about samples: the adversary picks them.
`Returns` assumes that
workers come back to `CheckNetwork`; a rolling checkpoint during `MaiterKernel2`
would wait for a kernel that only the waiting master can end.

## 4. Disagreements between code and documentation

1. `barrier_race`: `active()` (`rpc.cc` 94) without `send_lock` can miss a message
   that `Run` is moving from one container to the other, so that `Flush` returns
   before MPI has completed it; the message is given to MPI before the reply, but
   can reach its worker after APPLY, against `master.cc` 879 and 882.
2. `checkpoint_early`: START and FINISH that arrive between the two loops of
   `CheckForMasterUpdates` are read in the wrong order, against `master.h` 134-136.
3. `checkpoint_reorder`: the marker is sent before an older put request, which
   is then not logged, against `worker.cc` 354.
4. `restore`: `SyncBroadcast(MTYPE_RESTORE)` waits for replies that are never
   sent (`worker.cc` 335 sends `MTYPE_RESTORE_DONE`, which nothing reads), against
   `master.h` 142-143.
5. `state_table_growth`: `put` grows the table one entry too late and overwrites
   a key (`statetable.h` 695), against `statetable.h` 283.
6. `committed_to_disk`: `~RecordFile` (`file.cc` 264-273) syncs and renames the file
   before its last block and buffer are written, against `master.h` 134-136.  What
   a power failure then leaves is a file with its final name and without its end,
   of which `restore` applies a prefix (`Restores`).

## 5. Proofs

The proofs hold for all numbers or sets of workers, shards and keys, every
graph, sharding, assignment of owners and sequence of calls that satisfies the
named assumptions, and every bound.  Each inductive invariant was checked by TLC
on the instances of section 3 before it was proved.

**Exchange.**  Assumptions: `GraphAssumption` (types), `OneShardPerWorker`,
`BoundAssumption` (types).

* `TypeCorrect` (`DeltaExchangeKernels`): `Spec => []TypeOK`.
* `AtMostOnce` is not inductive: that an iteration's updates are in one place
  only needs that they are new, and that messages keep apart needs to know whose
  updates each holds.  The strengthening `IInv` (`DeltaExchangeKernels`) is the type
  and
  - `Places`: the source, shard and key of updates fit the place they are in,
    their numbers are at most their maker's count of iterations, and no two
    places or messages share one (`DeltaExchangePlaces` has a lemma per way of
    moving updates and combines them to all steps);
  - `KernelOrder` and `Loading`: which program counters go with which kernel and
    phase, and that nothing is in flight until all keys are loaded
    (`DeltaExchangeKernels`);
  - `BarrierOrder`: what a worker's part in FLUSH has established so far.  After
    HandleFlush nothing of it is unsent; once `active()` has seen `pending_sends_`
    empty it stays so, and only the message in hand is left, which the network
    thread gives to MPI before the reply;
  - `Buffering`: `pending_writes_` counts at least what waits in the delta tables,
    which is what makes the test in `accumulateF1` enough;
  - `Written`: in the third run a worker that has dumped has written the F2 of each
    of its keys, and nothing changes F2 any more.

  `InductiveInvariant` (`DeltaExchangeProofs`) is `Spec => []IInv`.
* From it: `UpdatesAtMostOnce`, `AccumulateFindsKey` (the CHECK in `accumulateF1`
  never fails), `FlushLeavesNothing` (`FlushedOut`, whatever MPI does),
  `BuffersStayBounded` and `DumpWritesFinalValues`.
* `ExchangeImplementsTable`: the initial states map to
  initial states and each step to a step of `AccumulatorTable` or a stutter:
  `ReadLine` to `Load`, `RunIter` to `Iterate`, what applies put requests or local
  updates to `Apply`.

**Scheduler.**  Assumption: `SchedulerAssumption` (types; not all workers are
dead).  None of the properties is inductive.  `IInv` (`SchedulerLemmas`) adds to
the type and to `RequestsServable` and `AllServe`
  - `Called`, `Partitioned`: after the first call every shard has exactly one
    server;
  - `TasksPlaced`: a task is kept by the server of its shard and belongs to the
    current call;
  - `ActiveOnce`, `RunsAKernel`: a task is active exactly while its request is under
    way, being run or answered, and never two of these;
  - `NothingLeft`: between two calls every task is finished;
  - `Informed`, `DirtyOwned`: who may not know the current owners, namely workers
    that have yet to answer an assignment, and all of them while `steal_work` moves
    shards;
  - `Counted`: the counters are the numbers of tasks in these states.

The argument goes by what a step leaves alone: `Steps` sorts the steps into a few
frames (`AssignmentKept`, `TasksKept`, `ViewsKept`, ...), each conjunct is carried
over a frame that keeps what it speaks of, and only the steps outside of it need a
proof of their own (`SchedulerInductive`; the counters in `SchedulerProofs`).  From
`Invariance` (`Spec => []IInv`) follow `ChecksNeverFire`, `OneOwner`,
`CountersRight` and `NobodyIdle`.  `RunsImplemented` maps `Run` to `Start` of
`KernelRuns`, `StartKernel` and `KernelDone` to `Begin` and `End` of a kernel on a
shard, and every other step to a stutter: a steal moves tasks between workers and
leaves the set of shards still to be run as it is.

**Termination check.**  Assumption: `TermCheckAssumption` (types).
`TwoCollections` needs to know that the report behind the remembered sum is not
counted again.  `IInv` (`TermCheckProofs`) is the type and
  - `Fresh`: the unread reports of a worker have different numbers, none that of a
    report read or remembered;
  - `Collected`: a worker whose flag is set has a report in the collection that the
    remembered sum does not contain, apart from workers the reset has yet to come
    to; and the sum is the initial value or made of a report of each;
  - `Decided`: after `terminate_iteration` the collection stays as it was;
  - `Silent`: a worker without a shard never has a report anywhere.

From `Invariance` follow `TypeCorrect`, `StopsOnTwoCollections` and
`SilentWorkerBlocks`.  That the sum of the reports stays in its type is
`TotalMonotone`, by induction over the number of workers.

**Cache.**  Assumptions: `StoreAssumption`, `CacheAssumption` (types), `InfluAssumption`
(types; no node has two lines).  `IInv` of `StoreProofs` is the type, the agreement of
the indexes, the origin of the values and `InfluRead`: `influMap` holds the node's list
exactly for the nodes whose line is read as it was meant; that `deleteMin` finds
an entry to remove, and that `updatePrority` removes the right one, rest on the
agreement.  From it `CacheIsSound` (with finiteness of
the cached keys, for the bound on their number) and `DeleteMinEvictsColdest`, an action property.

**Mapped files.**  Assumption: `Parameters` (sizes are positive, addresses differ
from NULL and MAP_FAILED), a hypothesis of each theorem.  `PointerMapped` is not
inductive: that a request inside of the window gets the right byte needs that the
one mapping there is, is the window as described, unless `lost`, when there is
none.  `WindowIInv` of `StoreProofs`,
over an instance of `MMapedFile`, says so, and that nothing is described before the first window; `WindowDescribed`
says that it always holds, and `PointersMapped` and `NoWindowLeaks` follow.  The
arithmetic is that of `ALIGN_TO_PAGE` and of the two tests of `openAndMmapFile`.

**Induction.**  The library's induction theorems take an operator as a parameter,
which no prover here can instantiate.  Where the sum over the workers
(`TermCheckProofs`) or the choice of the best shard (`SchedulerLemmas`) need
induction, it is made of `LeastExists`: the set of counterexamples, if not empty,
has a least element, by `WFMin` and `NatLessThanWellFounded`.

**Only model-checked.**
* All liveness properties (`Finishes`, `AllCallsReturn`, `TaintClears`, `Stops`,
  `Returns`, `AllStop`, `Converges`): fairness and ENABLED are out of reach of the
  prover.
* `Checkpoint` (`CutInOrder`, `RollingCommitted`): `CutInOrder` needs an invariant
  over the order of put requests and markers in every channel, not written yet.
* `DeltaTable`, `StateTable`, `UpdateMessages` and the other components.
  `CheckpointFiles` reads files with recursive operators, and what `IterateKernel`
  computes is a recursion over the graph: both are out of reach.

## 6. Plan

Done: the modules above.  Next:

1. The data of a restored checkpoint: what `update_str` makes of the entries that
   `CheckpointFiles` restores, where the delta log was accumulated.
2. A composition of `Checkpoint` and `TermCheck` for checkpoints during a run.
3. One abstract cache that `HotCache`, `LRUCache` and `FIFOCache` implement.
4. Proofs: `RollingCommitted` and `CutInOrder`; `IsMap` of the delta table;
   `KeepsRecent`.

## 7. Running

    tlc -config DeltaExchange.cfg MCDeltaExchange
    tlapm DeltaExchangeProofs.tla

Each `.cfg` belongs to the `MC` module of its prefix; `Restore.cfg` to `Restore`,
`CommittedToDisk.cfg` to `MCComponents`, `StateTableGrowth.cfg` to `MCTables`.
