---------------------------- MODULE IterateKernel ----------------------------
(***************************************************************************)
(* The second kernel (run_loop and run_iter of kernel/kernel.h) over the    *)
(* iterators of StateTable (kernel/statetable.h), running the programs of   *)
(* examples/: Pagerank, and adsorption, Katz, shortest paths and connected  *)
(* components, which CMakeLists.txt leaves out (they lack getKey and        *)
(* getValue).  Every shard is run by a worker of its own; deltas for        *)
(* another shard wait in msgs until its worker handles them (DeltaExchange  *)
(* says how they travel).                                                   *)
(***************************************************************************)
EXTENDS Integers, Sequences, SequencesExt, FiniteSets, FiniteSetsExt

CONSTANTS
  Node,         \* the keys, positive numbers
  Shard,        \* the shards
  Buckets,      \* a shard's buckets: a sequence of nodes, 0 where not in use
  Graphs,       \* the inputs of a program: links[n][m] is the weight of a link
  Source,       \* FLAGS_shortestpath_source and FLAGS_katz_source
  Starts,       \* FLAGS_adsorption_starts
  Inf,          \* imax
  Unit,         \* what 0.2 is, in a unit that makes all ranks whole numbers
  SampleSize,   \* sample_size
  CutIndex      \* sample_size * schedule_portion

VARIABLES
  program,      \* "pagerank", "adsorption", "katz", "sssp" or "component"
  scheduled,    \* is schedule_portion below 1?
  links,        \* the input
  v1, v2, pri,  \* the fields v1 (the delta), v2 (the value) and priority
  msgs,         \* the deltas on their way to a shard, accumulated by node
  iter          \* a shard's iterator

vars == <<program, scheduled, links, v1, v2, pri, msgs, iter>>

(* get_shard: the sharder has put n into one of the shards.                 *)
ShardOf(n) == CHOOSE s \in Shard : n \in ToSet(Buckets[s])

-----------------------------------------------------------------------------
(* The programs                                                             *)

default_v == IF program = "sssp" THEN Inf ELSE 0

AdsorptionDelta(n) == IF n < Starts THEN 50 * Unit ELSE 0

KatzDelta(n) == IF n = Source THEN 1000000 ELSE 0

ComponentDelta(n) == n

ShortestpathDelta(n) == IF n = Source THEN 0 ELSE Inf

init_c(n) ==
  CASE program = "pagerank" -> Unit
    [] program = "adsorption" -> AdsorptionDelta(n)
    [] program = "katz" -> KatzDelta(n)
    [] program = "sssp" -> ShortestpathDelta(n)
    [] program = "component" -> ComponentDelta(n)

init_v(n) == default_v

(* Does a program add up its deltas, or keep the best one?                  *)
Additive == program \in {"pagerank", "adsorption", "katz"}

accumulate(a, b) ==
  CASE Additive -> a + b
    [] program = "sssp" -> Min({a, b})
    [] program = "component" -> Max({a, b})

priority(value, delta) ==
  IF Additive THEN delta ELSE value - accumulate(value, delta)

(* A float that is imax does not grow.                                      *)
Plus(a, w) == IF a = Inf THEN Inf ELSE a + w

(* delta * 0.8 / size.                                                      *)
PagerankOutput(n, delta) ==
  [m \in DOMAIN links[n] |-> (delta * 4) \div (5 * Cardinality(DOMAIN links[n]))]

(* delta * FLAGS_adsorption_damping * weight, with a damping of 0.1.        *)
AdsorptionOutput(n, delta) ==
  [m \in DOMAIN links[n] |-> (delta * links[n][m]) \div 10]

(* FLAGS_katz_beta * delta, with a beta of 0.1.                             *)
KatzOutput(n, delta) == [m \in DOMAIN links[n] |-> delta \div 10]

ShortestpathOutput(n, delta) == [m \in DOMAIN links[n] |-> Plus(delta, links[n][m])]

ComponentOutput(n, value) == [m \in DOMAIN links[n] |-> value]

(* g_func: the output for the node's links.                                 *)
g_func(n, delta, value) ==
  CASE program = "pagerank" -> PagerankOutput(n, delta)
    [] program = "adsorption" -> AdsorptionOutput(n, delta)
    [] program = "katz" -> KatzOutput(n, delta)
    [] program = "sssp" -> ShortestpathOutput(n, delta)
    [] program = "component" -> ComponentOutput(n, value)

-----------------------------------------------------------------------------
NoIterator == [kind |-> "none", pos |-> 0, at |-> <<>>]

(* MaiterKernel1 has put every node into the table.                         *)
Init ==
  /\ program \in DOMAIN Graphs
  /\ scheduled \in BOOLEAN
  /\ links \in Graphs[program]
  /\ v1 = [n \in Node |-> init_c(n)]
  /\ v2 = [n \in Node |-> init_v(n)]
  /\ pri = [n \in Node |-> priority(v2[n], v1[n])]
  /\ msgs = [s \in Shard |-> <<>>]
  /\ iter = [s \in Shard |-> NoIterator]

Used(s) == {i \in DOMAIN Buckets[s] : Buckets[s][i] # 0}
NodesOf(s) == {Buckets[s][i] : i \in Used(s)}

(* accumulateF1 of outputs into the deltas of the nodes of S.               *)
AccumulatedF1(delta, out, S) ==
  [n \in DOMAIN delta |-> IF n \in S \cap DOMAIN out THEN accumulate(delta[n], out[n])
                          ELSE delta[n]]

(* The priorities where these deltas have been accumulated.                 *)
Touched(out, S) == S \cap DOMAIN out

(* accumulateF1 into the delta table for a remote shard with nodes S.       *)
Buffered(buffer, out, S) ==
  [n \in DOMAIN buffer \cup (S \cap DOMAIN out) |->
     IF n \notin DOMAIN out THEN buffer[n]
     ELSE IF n \notin DOMAIN buffer THEN out[n] ELSE accumulate(buffer[n], out[n])]

(* Mutant of HandlePutRequest: the priority is not computed again.          *)
HandlePutRequestKeeps(s) ==
  /\ v1' = AccumulatedF1(v1, msgs[s], NodesOf(s))
  /\ pri' = pri
  /\ msgs' = [msgs EXCEPT ![s] = <<>>]

(* HandlePutRequest: all that arrived is accumulated.                       *)
HandlePutRequest(s) ==
  /\ v1' = AccumulatedF1(v1, msgs[s], NodesOf(s))
  /\ pri' = [n \in Node |-> IF n \in Touched(msgs[s], NodesOf(s))
                            THEN priority(v2[n], v1'[n]) ELSE pri[n]]
  /\ msgs' = [msgs EXCEPT ![s] = <<>>]

(* What the constructor of Iterator may find with its filter on: it looks   *)
(* at random nodes until one has no delta.                                  *)
b_no_change(s, delta) ==
  {b \in BOOLEAN :
     /\ b => \E n \in NodesOf(s) : delta[n] # default_v
     /\ ~b => \E n \in NodesOf(s) : delta[n] = default_v}

(* Mutant of AboveCut: only what is above the threshold.                    *)
AboveCutStrict(top, threshold, p) == p > threshold

(* Is a priority eligible?  The threshold itself is when the cut is the top *)
(* of the sample.                                                           *)
AboveCut(top, threshold, p) ==
  IF CutIndex = 0 \/ top = threshold THEN p >= threshold ELSE p > threshold

(* The constructor of ScheduledIterator: the positions it may schedule.  In *)
(* a small table these are all; otherwise a random sample, sorted by        *)
(* priority, gives the threshold.                                           *)
ScheduledPos(s, delta, prio) ==
  LET P(i) == prio[Buckets[s][i]]
      samples == {f \in [1 .. SampleSize -> Used(s)] :
                    \A i \in 1 .. SampleSize - 1 : P(f[i]) >= P(f[i + 1])}
      chosen(f) ==
        {i \in Used(s) : /\ delta[Buckets[s][i]] # default_v
                         /\ AboveCut(P(f[1]), P(f[CutIndex + 1]), P(i))}
  IN IF Cardinality(Used(s)) <= SampleSize
     THEN {SetToSortSeq(Used(s), <)}
     ELSE {SetToSortSeq(chosen(f), <) : f \in samples}

(* schedule_iterator, to the first iterator, which is taken as it is.       *)
schedule_iterator(s) ==
  /\ HandlePutRequest(s)
  /\ \E at \in ScheduledPos(s, v1', pri') :
       iter' = [iter EXCEPT ![s] = [kind |-> "scheduled", pos |-> 0, at |-> at]]

(* get_iterator, to the first iterator, which is thrown away and made again *)
(* when its filter saw no node without a delta.                             *)
get_iterator(s) ==
  /\ HandlePutRequest(s)
  /\ \E b \in b_no_change(s, v1') :
       iter' = [iter EXCEPT ![s] = [kind |-> IF b THEN "waiting" ELSE "all",
                                    pos |-> 0, at |-> <<>>]]

(* TypedGlobalTable::get_iterator: schedule_portion decides.                *)
get_typed_iterator(s) ==
  /\ iter[s].kind = "none"
  /\ \/ scheduled /\ schedule_iterator(s)
     \/ ~scheduled /\ get_iterator(s)
  /\ UNCHANGED <<program, scheduled, links, v2>>

(* The loop of get_iterator: run_loop asks for no filter, so that the       *)
(* second iterator is taken as it is.                                       *)
waitForPut(s) ==
  /\ iter[s].kind = "waiting"
  /\ HandlePutRequest(s)
  /\ iter' = [iter EXCEPT ![s].kind = "all"]
  /\ UNCHANGED <<program, scheduled, links, v2>>

(* done and Next of the two iterators; the first position is 1, the one     *)
(* behind the last marks that Next returned false.                          *)
Size(s) == IF iter[s].kind = "all" THEN Len(Buckets[s]) ELSE Len(iter[s].at)

done(s) == iter[s].pos = Size(s)

NextPos(s) ==
  IF iter[s].kind = "all"
  THEN Min({i \in Used(s) : i > iter[s].pos} \cup {Size(s) + 1})
  ELSE iter[s].pos + 1

NodeAt(s, pos) ==
  IF iter[s].kind = "all" THEN Buckets[s][pos] ELSE Buckets[s][iter[s].at[pos]]

Looping(s) == iter[s].kind \in {"all", "scheduled"}

(* Mutant of Output: g_func is called after the delta has been reset.       *)
OutputAfterReset(n, delta, value) == g_func(n, default_v, value)

(* The output of a node is made from the delta it had and its new value.    *)
Output(n, delta, value) == g_func(n, delta, value)

(* run_loop's body and run_iter for the next node: its delta goes into its  *)
(* value, the output of g_func is made from the old delta and the new       *)
(* value, the delta is reset, and then the output is accumulated: here or   *)
(* on its way to another shard.                                             *)
run_iter(s) ==
  /\ Looping(s) /\ ~done(s) /\ NextPos(s) <= Size(s)
  /\ LET n == NodeAt(s, NextPos(s))
         value == accumulate(v2[n], v1[n])
         out == Output(n, v1[n], value)
     IN /\ v2' = [v2 EXCEPT ![n] = value]
        /\ v1' = AccumulatedF1([v1 EXCEPT ![n] = default_v], out, NodesOf(s))
        /\ pri' = [m \in Node |-> IF m \in Touched(out, NodesOf(s))
                                  THEN priority(v2'[m], v1'[m])
                                  ELSE IF m = n THEN 0 ELSE pri[m]]
        /\ msgs' = [t \in Shard |-> IF t = s THEN msgs[t]
                                    ELSE Buffered(msgs[t], out, NodesOf(t))]
  /\ iter' = [iter EXCEPT ![s].pos = NextPos(s)]
  /\ UNCHANGED <<program, scheduled, links>>

(* The pass is over: done, or Next has run past the last bucket in use.     *)
endPass(s) ==
  /\ Looping(s) /\ (done(s) \/ NextPos(s) > Size(s))
  /\ iter' = [iter EXCEPT ![s] = NoIterator]
  /\ UNCHANGED <<program, scheduled, links, v1, v2, pri, msgs>>

(* EntirePassIterator: the positions that done and Next lead a loop over.   *)
EntirePass(s) ==
  LET size == Len(Buckets[s])
      walk[pos \in 0 .. size] ==
        LET next == Min({i \in Used(s) : i > pos} \cup {size + 1})
        IN IF pos = size \/ next > size THEN <<>> ELSE <<next>> \o walk[next]
  IN walk[0]

(* Mutant of estimate_prog: the deltas are added.                           *)
estimate_progDeltas(s) ==
  FoldLeft(LAMBDA sum, i : LET v == v1[Buckets[s][i]]
                           IN IF v = default_v THEN sum ELSE sum + v, 0, EntirePass(s))

(* Diff::estimate_prog, which serializeToSnapshot reports for the shard     *)
(* when FlushUpdates checks for termination.                                *)
estimate_prog(s) ==
  FoldLeft(LAMBDA sum, i : LET v == v2[Buckets[s][i]]
                           IN IF v = default_v THEN sum ELSE sum + v, 0, EntirePass(s))

(* A step of the worker of a shard.                                         *)
Step(s) == get_typed_iterator(s) \/ waitForPut(s) \/ run_iter(s) \/ endPass(s)

Next == \E s \in Shard : Step(s)

(* Every worker keeps running its loop.                                     *)
Fairness == \A s \in Shard : WF_vars(Step(s))

Spec == Init /\ [][Next]_vars /\ Fairness

-----------------------------------------------------------------------------
(* What the programs should compute: a fixed point, reached after as many   *)
(* rounds as there are nodes (the graphs of additive programs are acyclic).  *)
Contribution(m, n, v) ==
  CASE program = "pagerank" -> (v * 4) \div (5 * Cardinality(DOMAIN links[m]))
    [] program = "adsorption" -> (v * links[m][n]) \div 10
    [] program = "katz" -> v \div 10
    [] program = "sssp" -> Plus(v, links[m][n])
    [] program = "component" -> v

Into(n) == {m \in Node : n \in DOMAIN links[m]}

Reference ==
  LET round[i \in 0 .. Cardinality(Node)] ==
        [n \in Node |->
           IF i = 0 THEN init_c(n)
           ELSE FoldSet(LAMBDA m, v : accumulate(v, Contribution(m, n, round[i - 1][m])),
                        init_c(n), Into(n))]
  IN round[Cardinality(Node)]

(* The value of a node with all that is on its way into it.                 *)
Potential(n) ==
  LET here == accumulate(v2[n], v1[n])
      on == msgs[ShardOf(n)]
  IN IF n \in DOMAIN on THEN accumulate(here, on[n]) ELSE here

AtMost(a, b) == IF program = "sssp" THEN b <= a ELSE a <= b

(* No delta is lost or counted twice: a node's value with its delta and     *)
(* what is on its way to it is always what it began with and what the       *)
(* nodes that link to it have to contribute with the values they have; and  *)
(* not even with these deltas is it ever better than the result: a distance *)
(* never too short, a label never one of another component, a sum never too *)
(* large.                                                                   *)
NoDeltaLost ==
  \A n \in Node :
    /\ Potential(n) = FoldSet(LAMBDA m, v : accumulate(v, g_func(m, v2[m], v2[m])[n]),
                              init_c(n), Into(n))
    /\ AtMost(Potential(n), Reference[n])

(* The priority kept in a bucket is never stale: it is what the program's   *)
(* priority function says of the bucket's value and delta, although         *)
(* accumulateF2 does not compute it and updateF1 sets it to 0.              *)
PriorityCurrent == \A n \in Node : pri[n] = priority(v2[n], v1[n])

(* The sum of the results of the nodes of a shard.                          *)
FinalProgress(s) ==
  MapThenSumSet(LAMBDA n : IF Reference[n] = default_v THEN 0 ELSE Reference[n], NodesOf(s))

(* The progress a shard reports never goes back and never passes its final  *)
(* value, as termcheck expects of it; distances are left out, whose sum     *)
(* also falls.                                                              *)
Grows(s) ==
  program # "sssp" => /\ estimate_prog(s) <= estimate_prog(s)'
                      /\ estimate_prog(s)' <= FinalProgress(s)
ProgressGrows == [][\A s \in Shard : Grows(s)]_vars

(* Scheduling leaves out connected components: its priorities are 0 for a   *)
(* node with nothing to do and negative for one with something to do, so    *)
(* that the cut can drop these forever.                                     *)
Converged ==
  program # "component" \/ ~scheduled =>
    v2 = Reference /\ \A s \in Shard : estimate_prog(s) = FinalProgress(s)

(* The values reach the result and keep it, whatever nodes are sampled and  *)
(* however the workers interleave.                                          *)
Converges == <>[]Converged
=============================================================================
