--------------------------- MODULE MCComponents ----------------------------
(***************************************************************************)
(* Instances for TLC of the components that work by themselves: the caches  *)
(* and file formats of store/, the files and variables of a checkpoint, the *)
(* RPC layer, and the loop of the second kernel.  A behaviour is one of the *)
(* component that kind names.                                               *)
(***************************************************************************)
EXTENDS HotCache, Integers, TLC

CONSTANTS u1, u2, u3, u4, hub
CONSTANT Kinds          \* the components looked at

VARIABLES
  kind,                 \* the component of this behaviour
  x1, x2, x3, x4, x5, x6, x7, x8, x9, x10, x11, x12, x13, x14
                        \* its variables, if it is not the HotCache

slots == <<x1, x2, x3, x4, x5, x6, x7, x8, x9, x10, x11, x12, x13, x14>>
loopSlots == <<x1, x2, x3, x4, x5, x6, x7, x8>>

(* HotCache: four nodes that compete for three cache entries, and one       *)
(* influential node; or two or three influential ones whose lines are       *)
(* misread: one is followed by a space, one has an empty list, one a number *)
(* that does not fit an int of four bits.  Priorities lie on both sides of  *)
(* the margin of one another.                                               *)
MCKey == {u1, u2, u3, u4, hub}
MCData == u1 :> <<1>> @@ u2 :> <<>> @@ u3 :> <<3>> @@ u4 :> <<4, 9>> @@ hub :> <<5>>
MCPriority == {0, 2, 3, 6}

Text(k, n) == [tab |-> TRUE, source |-> k, spaces |-> n]
NoTab(k) == [tab |-> FALSE, source |-> k, spaces |-> 0]
MCInfluFiles ==
  {<<Text(hub, 0), NoTab(u1), Text(u4, 0)>>,
   <<Text(hub, 1), Text(u2, 0)>>,
   <<Text(u4, 0), Text(hub, 0)>>}

(* Five keys: one more than fit, with the elasticity.                       *)
LRU ==
  INSTANCE LRUCache WITH
    Key <- 1 .. 5, MaxSize <- 2, Elasticity <- 2, Null <- 0,
    cached <- x1, keys <- x2, uses <- x3

FIFO ==
  INSTANCE FIFOCache WITH
    Key <- 1 .. 5, Value <- 1 .. 2, CacheSize <- 2, MaxShows <- 1,
    elements <- x1, keys <- x2, shows <- x3

(* Up to three lines, some of them empty.                                   *)
CSR ==
  INSTANCE CsrStore WITH
    Vertex <- 1 .. 2, MaxLines <- 3, MaxDegree <- 2,
    in <- x1, adjvec <- x2, hdr <- x3, vec <- x4, writer <- x5, lines <- x6

(* Lines that fill a block, or leave any number of characters of it free.   *)
Block ==
  INSTANCE BlockStore WITH
    BlockSize <- 8, LineSize <- {1, 2, 3, 4, 8}, MaxLines <- 4,
    in <- x1, buffer <- x2, blocks <- x3, masters <- x4, writer <- x5, all <- x6

(* A file of two and a half pages.                                          *)
MMap ==
  INSTANCE MMapedFile WITH
    PageSize <- 2, FileSize <- 5, Addr <- {"p", "q"}, Null <- Absent,
    whole <- x1, fd <- x2, memory_area <- x3, size_mapped <- x4,
    offset_mapped <- x5, mapped <- x6, given <- x7, lost <- x8

ASSUME MMapParameters == MMap!Parameters

(* Two entries and two deltas; blocks and buffers end inside of entries.    *)
Files ==
  INSTANCE CheckpointFiles WITH
    ChunkSize <- <<1, 1, 1, 8>>, kBlockSize <- 4, StdioSize <- 3,
    TableSize <- 2, MaxDeltas <- 2,
    lzo <- x1, base <- x2, delta <- x3, entries <- x4, process <- x5, restored <- x6

Vars ==
  INSTANCE CheckpointVars WITH
    Name <- {"a", "b"}, Value <- {0, 1}, Default <- 0,
    p <- x1, serialized <- x2, file <- x3, known <- x4, used <- x5, saved <- x6,
    got <- x7

(* Two workers; two calls and the shutdown.                                 *)
Net ==
  INSTANCE NetworkThread WITH
    NumWorkers <- 2, MaxCalls <- 2,
    made <- x1, at <- x2, count <- x3, sweep <- x4, pending <- x5, channel <- x6,
    eager <- x7, up <- x8, replies <- x9, requests <- x10, threads <- x11,
    running <- x12, ran <- x13, tables <- x14

(* Graphs with four nodes: one with two paths to node 3, of which the       *)
(* longer one has fewer links, one with a cycle, and one without for the    *)
(* programs that add up their deltas.  The first shard has more nodes than  *)
(* a sample; in the second the last bucket is not in use.                   *)
Graph1 == <<(2 :> 1) @@ (3 :> 3), (3 :> 1), (4 :> 1), <<>>>>
Graph2 == <<(3 :> 2), (4 :> 1), (1 :> 1) @@ (2 :> 1), <<>>>>
Graph3 == <<(3 :> 1), (4 :> 1), (2 :> 1) @@ (4 :> 1), <<>>>>

Loop ==
  INSTANCE IterateKernel WITH
    Node <- 1 .. 4, Shard <- {1, 2}, Buckets <- <<<<1, 0, 2, 4>>, <<3, 0>>>>,
    Graphs <- [pagerank |-> {Graph1, Graph3}, adsorption |-> {Graph1},
               katz |-> {Graph3}, sssp |-> {Graph1, Graph2},
               component |-> {Graph1, Graph2}],
    Source <- 1, Starts <- 3, Inf <- 50, Unit <- 500,
    SampleSize <- 2, CutIndex <- 1,
    program <- x1, scheduled <- x2, links <- x3, v1 <- x4, v2 <- x5, pri <- x6,
    msgs <- x7, iter <- x8

-----------------------------------------------------------------------------
Unused3to6 == x4 = 0 /\ x5 = 0 /\ x6 = 0
Unused7 == x7 = 0
Unused8 == x8 = 0
Unused9to14 == x9 = 0 /\ x10 = 0 /\ x11 = 0 /\ x12 = 0 /\ x13 = 0 /\ x14 = 0

MCInit ==
  /\ kind \in Kinds
  /\ Init
  /\ kind # "hot" => /\ asked = <<hub, 0>>
                     /\ file = <<Text(u4, 0), Text(hub, 0)>>
  /\ \/ /\ kind = "hot" /\ x1 = 0 /\ x2 = 0 /\ x3 = 0
        /\ Unused3to6 /\ Unused7 /\ Unused8 /\ Unused9to14
     \/ /\ \/ kind = "lru" /\ LRU!Init
           \/ kind = "fifo" /\ FIFO!Init
        /\ Unused3to6 /\ Unused7 /\ Unused8 /\ Unused9to14
     \/ /\ \/ kind = "csr" /\ CSR!Init
           \/ kind = "block" /\ Block!Init
           \/ kind = "files" /\ Files!Init
        /\ Unused7 /\ Unused8 /\ Unused9to14
     \/ kind = "vars" /\ Vars!Init /\ Unused8 /\ Unused9to14
     \/ /\ \/ kind = "mmap" /\ MMap!Init
           \/ kind = "loop" /\ Loop!Init
        /\ Unused9to14
     \/ kind = "network" /\ Net!Init

MCNext ==
  /\ UNCHANGED kind
  /\ \/ kind = "hot" /\ Next /\ UNCHANGED slots
     \/ /\ UNCHANGED vars
        /\ \/ /\ \/ kind = "lru" /\ LRU!Next
                 \/ kind = "fifo" /\ FIFO!Next
              /\ UNCHANGED <<x4, x5, x6, x7, x8, x9, x10, x11, x12, x13, x14>>
           \/ /\ \/ kind = "csr" /\ CSR!Next
                 \/ kind = "block" /\ Block!Next
                 \/ kind = "files" /\ Files!Next
              /\ UNCHANGED <<x7, x8, x9, x10, x11, x12, x13, x14>>
           \/ /\ kind = "vars" /\ Vars!Next
              /\ UNCHANGED <<x8, x9, x10, x11, x12, x13, x14>>
           \/ /\ \/ kind = "mmap" /\ MMap!Next
                 \/ kind = "loop" /\ Loop!Next
              /\ UNCHANGED <<x9, x10, x11, x12, x13, x14>>
           \/ kind = "network" /\ Net!Next

MCSpec == MCInit /\ [][MCNext]_<<kind, slots, vars>>

(* Net!Fairness and Loop!Fairness, each in the behaviours of its component. *)
MCFairSpec ==
  /\ MCSpec
  /\ WF_slots(kind = "network" /\ Net!MasterStep)
  /\ \A n \in 0 .. 2 : WF_slots(kind = "network" /\ Net!NetworkStep(n))
  /\ \A w \in 1 .. 2 : WF_slots(kind = "network" /\ Net!WorkerStep(w))
  /\ \A s \in 1 .. 2 : WF_loopSlots(kind = "loop" /\ Loop!Step(s))

-----------------------------------------------------------------------------
(* LRUCache: the list holds the keys of the map in the order of their last  *)
(* uses, linked both ways; what prune pops was used the longest ago, and    *)
(* MaxSize is exceeded by less than the elasticity.                         *)
KeepsRecent == kind = "lru" => LRU!KeepsRecent

(* FIFOCache: addCache evicts a cached key, and the cache grows by at most  *)
(* CACHE_SIZE keys with every show.                                         *)
FIFOBounded == kind = "fifo" => FIFO!FIFOBounded

(* Writer and Reader: what was written of the adjacency lists, if only in   *)
(* part, reads back.                                                        *)
ReadsLines == kind = "csr" => CSR!ReadsLines

(* BlockWriter and Index: the block that getBlockAddr gives for a key holds *)
(* its record; KVReader: which blocks splitString returns from.             *)
BlockLookup == kind = "block" => Block!BlockLookup

(* MMapedFile: a returned pointer shows the byte that was asked for, except *)
(* when a close, a refused remap or a failed mmap has taken the window away *)
(* and no new one was made; no window is leaked.                            *)
WindowSound == kind = "mmap" => MMap!PointerMapped /\ MMap!OneMapping

(* Checkpoint files: restore applies all that closed files were given, and  *)
(* after any loss a prefix of each file.                                    *)
Restores == kind = "files" => Files!Restores

(* master.h: "When this call returns, all requested tables in the system    *)
(* will have been committed to disk."                                       *)
CommittedToDisk == kind = "files" => Files!CommittedToDisk

(* Master::get_cp_var: a variable has its last value; after a restart, that *)
(* of the checkpoint, or the default if it was not used between the restart *)
(* before and that checkpoint.                                              *)
ReadsLatest == kind = "vars" => Vars!ReadsLatest

(* SyncBroadcast: when it returns, every worker has run the callback, and   *)
(* no reply is left over for a later call.                                  *)
SyncCallsRun == kind = "network" => Net!SyncCallsRun

(* NetworkThread: all calls return and all processes stop.                  *)
AllStop == <>(kind = "network" => (x7 => Net!Stopped))

(* run_iter: what a node has contributed to its links is not lost, and no   *)
(* value is better than the program's result.                               *)
NoDeltaLost == kind = "loop" => Loop!NoDeltaLost

(* The priority in a bucket of the state table is never stale.              *)
PriorityCurrent == kind = "loop" => Loop!PriorityCurrent

(* Diff::estimate_prog: the progress a shard reports never goes back.       *)
ProgressGrows == [][kind = "loop" => \A s \in 1 .. 2 : Loop!Grows(s)]_slots

(* run_loop: the values reach the program's result and keep it.             *)
Converges == <>[](kind = "loop" => Loop!Converged)
=============================================================================
