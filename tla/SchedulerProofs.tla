-------------------------- MODULE SchedulerProofs ---------------------------
(***************************************************************************)
(* The theorems about the scheduler: the counters of a call, the CHECKs    *)
(* and the LOG(FATAL) of the code, the agreement of the workers about the  *)
(* owners, the use of all alive workers, and that the master implements    *)
(* the calls its clients are promised (KernelRuns). They hold for every    *)
(* number of workers and shards, every set of dead workers but the set of  *)
(* all, every sequence of calls and every time at which tasks are stolen.  *)
(***************************************************************************)
EXTENDS SchedulerInductive

-----------------------------------------------------------------------------
(* The counters                                                             *)

(* get_next and the request: one new active shard for each ready worker.    *)
LEMMA DispatchCounts ==
  ASSUME NEW wk \in WorkType, dispatch_work(wk), Partitioned,
         \A w \in Worker, s \in Shard : wk[w][s] # "none" => s \in shards[w]
  PROVE  \E M \in SUBSET Shard :
           /\ dispatched_' = dispatched_ + Cardinality(M)
           /\ In(work', "finished") = In(wk, "finished")
           /\ In(work', "active") = In(wk, "active") \cup M
           /\ M \cap (In(wk, "finished") \cup In(wk, "active")) = {}
  <1>1. PICK R \in SUBSET Worker : R = Ready(wk)
    BY Zenon DEF Ready
  <1>2. PICK next \in [R -> Shard] :
          /\ \A w \in R : wk[w][next[w]] = "pending"
          /\ work' = [w \in Worker |-> IF w \in R THEN get_next(wk, w, next[w]) ELSE wk[w]]
          /\ dispatched_' = dispatched_ + Cardinality(R)
    BY Zenon, <1>1 DEF dispatch_work
  <1>3. \A w \in Worker : wk[w] \in [Shard -> Status]
    BY DEF WorkType
  <1>4. \A w \in Worker : work'[w] = IF w \in R THEN get_next(wk, w, next[w]) ELSE wk[w]
    BY Zenon, <1>2
  <1>5. \A w \in R : \A s \in Shard :
          get_next(wk, w, next[w])[s] = IF s = next[w] THEN "active" ELSE wk[w][s]
    BY <1>2, <1>3 DEF get_next
  <1>6. \A w \in Worker, s \in Shard :
          /\ w \in R /\ s = next[w] => work'[w][s] = "active" /\ wk[w][s] = "pending"
          /\ ~ (w \in R /\ s = next[w]) => work'[w][s] = wk[w][s]
    <2> SUFFICES ASSUME NEW w \in Worker, NEW s \in Shard
                 PROVE  /\ w \in R /\ s = next[w] => work'[w][s] = "active" /\ wk[w][s] = "pending"
                        /\ ~ (w \in R /\ s = next[w]) => work'[w][s] = wk[w][s]
      BY Zenon
    <2>1. CASE w \in R
      <3>1. work'[w] = get_next(wk, w, next[w])
        BY Zenon, <1>4, <2>1
      <3>2. work'[w][s] = IF s = next[w] THEN "active" ELSE wk[w][s]
        BY ZenonT(30), <1>5, <2>1, <3>1
      <3> QED BY Zenon, <3>2, <2>1, <1>2
    <2>2. CASE w \notin R
      <3>1. work'[w][s] = wk[w][s]
        BY Zenon, <1>4, <2>2
      <3> QED BY Zenon, <3>1, <2>2
    <2> QED BY <2>1, <2>2
  <1> DEFINE M == {next[w] : w \in R}
  <1>7. M \in SUBSET Shard
    BY ZenonT(30), <1>2
  <1>8. ASSUME NEW v \in R, NEW w \in Worker, wk[w][next[v]] # "none" PROVE v = w
    <2>1. next[v] \in Shard /\ wk[v][next[v]] # "none"
      BY <1>2
    <2>2. next[v] \in shards[v] /\ next[v] \in shards[w]
      BY Zenon, <2>1, <1>8
    <2> QED BY Zenon, <2>1, <2>2, OneServer
  <1>9. Cardinality(M) = Cardinality(R)
    <2>1. \A v, w \in R : next[v] = next[w] => v = w
      <3>1. \A w \in R : wk[w][next[w]] # "none"
        BY <1>2
      <3> QED BY Zenon, <1>8, <3>1
    <2>2. next \in Bijection(R, M)
      BY <2>1, <1>2 DEF Bijection, Injection, Surjection, IsInjective
    <2>3. IsFiniteSet(R)
      BY Zenon, WorkersFinite, FS_Subset
    <2> QED BY Zenon, <2>2, <2>3, FS_Bijection DEF ExistsBijection
  <1>10. In(work', "finished") = In(wk, "finished")
    <2>1. \A w \in Worker, s \in Shard : work'[w][s] = "finished" <=> wk[w][s] = "finished"
      BY <1>6
    <2> QED BY Zenon, <2>1 DEF In
  <1>11. In(work', "active") = In(wk, "active") \cup M
    <2>1. \A w \in Worker, s \in Shard :
            work'[w][s] = "active" <=> wk[w][s] = "active" \/ (w \in R /\ s = next[w])
      BY <1>6
    <2>2. ASSUME NEW s \in Shard
          PROVE  (\E w \in Worker : work'[w][s] = "active")
                   <=> (\E w \in Worker : wk[w][s] = "active") \/ s \in M
      <3>1. s \in M <=> \E w \in Worker : w \in R /\ s = next[w]
        BY Zenon
      <3> HIDE DEF M
      <3> QED BY Zenon, <2>1, <3>1
    <2> HIDE DEF M
    <2> QED BY Zenon, <2>2, <1>7 DEF In
  <1>12. M \cap (In(wk, "finished") \cup In(wk, "active")) = {}
    <2> SUFFICES ASSUME NEW v \in R, NEW w \in Worker,
                        wk[w][next[v]] \in {"finished", "active"}
                 PROVE  FALSE
      BY Zenon DEF In
    <2>1. v = w
      BY <1>8
    <2> QED BY <2>1, <1>2
  <1> HIDE DEF M
  <1> QED BY Zenon, <1>2, <1>7, <1>9, <1>10, <1>11, <1>12

(* The sets the counters count are finite.                                 *)
LEMMA BegunFinite ==
  ASSUME NEW wk
  PROVE  /\ Over(wk) \in SUBSET Shard /\ Begun(wk) \in SUBSET Shard
         /\ IsFiniteSet(Over(wk)) /\ IsFiniteSet(Begun(wk))
         /\ Cardinality(Over(wk)) \in 0 .. NumShards
         /\ Cardinality(Begun(wk)) \in 0 .. NumShards
  <1>1. Over(wk) \in SUBSET Shard /\ Begun(wk) \in SUBSET Shard
    BY DEF In, Over, Begun
  <1> QED BY Zenon, <1>1, ShardsFinite

(* dispatch_work adds to dispatched_ the number of tasks it makes active.  *)
LEMMA DispatchKeepsCount ==
  ASSUME NEW wk \in WorkType, dispatch_work(wk), Partitioned,
         \A w \in Worker, s \in Shard : wk[w][s] # "none" => s \in shards[w],
         dispatched_ = Cardinality(Begun(wk))
  PROVE  Over(work') = Over(wk) /\ dispatched_' = Cardinality(Begun(work'))
  <1>1. PICK M \in SUBSET Shard :
           /\ dispatched_' = dispatched_ + Cardinality(M)
           /\ In(work', "finished") = In(wk, "finished")
           /\ In(work', "active") = In(wk, "active") \cup M
           /\ M \cap (In(wk, "finished") \cup In(wk, "active")) = {}
    BY Zenon, DispatchCounts
  <1>2. Begun(work') = Begun(wk) \cup M /\ Begun(wk) \cap M = {}
    BY <1>1 DEF Begun
  <1>3. IsFiniteSet(Begun(wk)) /\ IsFiniteSet(M)
        /\ Cardinality(M) \in 0 .. NumShards /\ Cardinality(Begun(wk)) \in 0 .. NumShards
    BY Zenon, BegunFinite, ShardsFinite
  <1>4. Cardinality(Begun(wk) \cup M) =
          Cardinality(Begun(wk)) + Cardinality(M) - Cardinality(Begun(wk) \cap M)
    BY Zenon, <1>3, FS_Union
  <1>5. Cardinality(Begun(wk) \cap M) = 0
    BY Zenon, <1>2, FS_EmptySet
  <1>6. dispatched_' = Cardinality(Begun(work'))
    <2>1. Cardinality(Begun(work')) =
            Cardinality(Begun(wk)) + Cardinality(M) - Cardinality(Begun(wk) \cap M)
      BY Zenon, <1>2, <1>4
    <2> QED BY <1>1, <1>3, <1>5, <2>1, Constants
  <1> QED BY Zenon, <1>1, <1>6 DEF Over

(* When the loop of barrier() ends, every task of the call is finished.     *)
LEMMA LoopEnds ==
  ASSUME TypeOK, Partitioned, TasksPlaced, Counted, Flush
  PROVE  /\ call > 0 => finished_ = Cardinality(Calls[call])
         /\ \A w \in Worker, s \in Shard : work[w][s] \in {"none", "finished"}
  <1>1. master = "poll" /\ ~ (finished_ < Cardinality(Calls[call]))
    BY DEF Flush, Unfinished
  <1>2. finished_ = Cardinality(Over(work))
    BY <1>1 DEF Counted, Over
  <1>3. Over(work) \subseteq Calls[call]
    BY <1>1 DEF Over, In, TasksPlaced
  <1>4. CASE call = 0
    <2>1. \A w \in Worker, s \in Shard : work[w][s] = "none"
      BY Zenon, <1>4 DEF Partitioned, TasksPlaced
    <2> QED BY <1>4, <2>1
  <1>5. CASE call # 0
    <2>1. Calls[call] \in SUBSET Shard
      BY <1>5, CallsTyped DEF TypeOK
    <2>2. IsFiniteSet(Calls[call]) /\ Cardinality(Calls[call]) \in 0 .. NumShards
      BY Zenon, <2>1, ShardsFinite
    <2>3. Cardinality(Over(work)) <= Cardinality(Calls[call])
          /\ (Cardinality(Calls[call]) = Cardinality(Over(work)) => Calls[call] = Over(work))
      BY Zenon, <2>2, <1>3, FS_Subset
    <2>4. Cardinality(Over(work)) \in 0 .. NumShards
      BY Zenon, BegunFinite
    <2>5. Cardinality(Calls[call]) = Cardinality(Over(work))
      BY <1>1, <1>2, <2>2, <2>3, <2>4, Constants
    <2>6. ASSUME NEW w \in Worker, NEW s \in Shard, work[w][s] # "none"
          PROVE  work[w][s] = "finished"
      <3>1. s \in shards[w] /\ s \in Over(work)
        BY <2>3, <2>5, <2>6, <1>1 DEF TasksPlaced
      <3>2. PICK v \in Worker : work[v][s] = "finished"
        BY Zenon, <3>1 DEF Over, In
      <3>3. s \in shards[v]
        BY <3>2 DEF TasksPlaced
      <3>4. v = w
        BY Zenon, <3>1, <3>3, OneServer
      <3> QED BY Zenon, <3>2, <3>4
    <2> QED BY Zenon, <2>5, <2>6, <1>2
  <1> QED BY <1>4, <1>5

(* The counters are reset with the tasks and change with them.             *)
LEMMA CountedInductive ==
  ASSUME TypeOK, Partitioned, TasksPlaced, ActiveOnce, NothingLeft, Counted, [Next]_vars
  PROVE  Counted'
  <1>1. CASE Run
    BY <1>1 DEF Run, Counted
  <1>2. CASE AssignTasks
    <2>1. assign_tasks \in WorkType
      BY Zenon, WorkTyped
    <2>2. \A w \in Worker, s \in Shard :
            /\ assign_tasks[w][s] \in {"none", "pending"}
            /\ assign_tasks[w][s] # "none" => s \in shards[w]
      <3>1. \A w \in Worker, s \in Shard :
              /\ assign_tasks[w][s] \in {"none", "pending"}
              /\ assign_tasks[w][s] = "pending" <=> s \in Calls[call] /\ s \in shards[w]
        BY Zenon, NewTasks
      <3> QED BY <3>1
    <2>3. Over(assign_tasks) = {} /\ Begun(assign_tasks) = {}
      BY <2>2 DEF Over, Begun, In
    <2>4. dispatched_ = Cardinality(Begun(assign_tasks))
      <3>1. dispatched_ = 0
        BY <1>2 DEF AssignTasks, Counted
      <3> QED BY Zenon, <3>1, <2>3, FS_EmptySet
    <2>5. Over(work') = {} /\ dispatched_' = Cardinality(Begun(work'))
      BY Zenon, <1>2, <2>1, <2>2, <2>3, <2>4, DispatchKeepsCount DEF AssignTasks
    <2>6. finished_' = Cardinality(Over(work'))
      <3>1. finished_' = 0
        BY <1>2 DEF AssignTasks, Counted
      <3> QED BY Zenon, <2>5, <3>1, FS_EmptySet
    <2>7. master' = "poll"
      BY <1>2 DEF AssignTasks
    <2> QED BY <2>5, <2>6, <2>7 DEF Counted, Over, Begun, In
  <1>3. CASE reap_one_task
    <2>1. PICK w \in Worker, s \in Shard :
            /\ <<w, s>> \in done
            /\ \A v \in Worker, t \in Shard :
                 work'[v][t] = IF v = w /\ t = s THEN "finished" ELSE work[v][t]
      BY Zenon, <1>3, WorkTyped, ReapEffect
    <2>2. work[w][s] = "active"
      BY Zenon, <2>1 DEF ActiveOnce
    <2>3. s \notin Over(work)
      <3> SUFFICES ASSUME NEW v \in Worker, work[v][s] = "finished" PROVE FALSE
        BY Zenon DEF Over, In
      <3>1. s \in shards[v] /\ s \in shards[w]
        BY <2>2 DEF TasksPlaced
      <3>2. v = w
        BY Zenon, <3>1, OneServer
      <3> QED BY <2>2, <3>2
    <2>4. Over(work') = Over(work) \cup {s}
      <3>1. \A v \in Worker, t \in Shard :
              work'[v][t] = "finished" <=> work[v][t] = "finished" \/ (v = w /\ t = s)
        BY Zenon, <2>1
      <3> QED BY Zenon, <3>1 DEF Over, In
    <2>5. Begun(work') = Begun(work)
      <3>1. ASSUME NEW v \in Worker, NEW t \in Shard
            PROVE  work'[v][t] = "finished" \/ work'[v][t] = "active"
                     <=> work[v][t] = "finished" \/ work[v][t] = "active"
        BY <2>1, <2>2
      <3>2. ASSUME NEW wk
            PROVE  Begun(wk) = {t \in Shard : \E v \in Worker :
                                  wk[v][t] = "finished" \/ wk[v][t] = "active"}
        BY Zenon DEF Begun, In
      <3> QED BY Zenon, <3>1, <3>2
    <2>6. finished_' = Cardinality(Over(work'))
      <3>1. Cardinality(Over(work')) = Cardinality(Over(work)) + 1
        BY ZenonT(30), <2>3, <2>4, BegunFinite, FS_AddElement
      <3>2. finished_' = finished_ + 1 /\ finished_ = Cardinality(Over(work))
        BY <1>3 DEF reap_one_task, Counted
      <3> QED BY Zenon, <3>1, <3>2
    <2>7. dispatched_' = Cardinality(Begun(work'))
      <3>1. dispatched_' = dispatched_ /\ dispatched_ = Cardinality(Begun(work))
        BY <1>3 DEF reap_one_task, Counted
      <3> QED BY Zenon, <2>5, <3>1
    <2>8. master' \in {"steal", "dispatch"}
      BY <1>3 DEF reap_one_task
    <2> QED BY <2>6, <2>7, <2>8 DEF Counted, Over, Begun, In
  <1>4. CASE steal_work
    <2>1. PICK s \in Shard, src \in Worker, dst \in Worker : Stolen(s, src, dst)
      BY Zenon, <1>4, WorkTyped, StealEffect
    <2>2. ASSUME NEW w \in Worker, NEW t \in Shard
          PROVE  /\ work'[w][t] = "finished" <=> work[w][t] = "finished"
                 /\ work'[w][t] = "active" <=> work[w][t] = "active"
      <3>1. work'[w][t] = IF t = s /\ w = dst THEN "pending"
                          ELSE IF t = s /\ w = src THEN "none" ELSE work[w][t]
        BY Zenon, <2>1 DEF Stolen
      <3>2. work[src][s] = "pending" /\ work[dst][s] \notin {"finished", "active"}
        <4>1. s \in shards[src] /\ work[src][s] = "pending" /\ src # dst
          BY <2>1 DEF Stolen, TasksPlaced
        <4>2. work[dst][s] = "none"
          <5> SUFFICES ASSUME work[dst][s] # "none" PROVE FALSE
            BY Zenon
          <5>1. s \in shards[dst]
            BY Zenon DEF TasksPlaced
          <5> QED BY Zenon, <4>1, <5>1, OneServer
        <4> QED BY <4>1, <4>2
      <3> QED BY <3>1, <3>2
    <2>3. Over(work') = Over(work) /\ Begun(work') = Begun(work)
      BY Zenon, <2>2 DEF Over, Begun, In
    <2>4. UNCHANGED <<finished_, dispatched_>> /\ master = "steal" /\ master' = "steal"
      BY <1>4 DEF steal_work
    <2>5. finished_ = Cardinality(Over(work)) /\ dispatched_ = Cardinality(Begun(work))
      BY <2>4 DEF Counted
    <2>6. finished_' = Cardinality(Over(work')) /\ dispatched_' = Cardinality(Begun(work'))
      BY Zenon, <2>3, <2>4, <2>5
    <2> QED BY <2>4, <2>6 DEF Counted, Over, Begun, In
  <1>5. CASE Dispatch
    <2>1. master = "dispatch" /\ master' = "poll" /\ UNCHANGED finished_
      BY <1>5 DEF Dispatch
    <2>2. finished_ = Cardinality(Over(work)) /\ dispatched_ = Cardinality(Begun(work))
      BY <2>1 DEF Counted
    <2>3. CASE dispatch_work(work)
      <3>1. work \in WorkType
        BY Zenon, WorkTyped
      <3>2. \A w \in Worker, s \in Shard : work[w][s] # "none" => s \in shards[w]
        BY Zenon DEF TasksPlaced
      <3>3. Over(work') = Over(work) /\ dispatched_' = Cardinality(Begun(work'))
        BY Zenon, <2>2, <2>3, <3>1, <3>2, DispatchKeepsCount
      <3>4. finished_' = Cardinality(Over(work'))
        BY Zenon, <2>1, <2>2, <3>3
      <3> QED BY <2>1, <3>3, <3>4 DEF Counted, Over, Begun, In
    <2>4. CASE UNCHANGED <<work, dispatched_>>
      BY <2>1, <2>2, <2>4 DEF Counted, Over, Begun, In
    <2>5. dispatch_work(work) \/ UNCHANGED <<work, dispatched_>>
      BY <1>5 DEF Dispatch
    <2> QED BY <2>3, <2>4, <2>5
  <1>6. CASE Flush
    <2>1. UNCHANGED <<call, work, finished_, dispatched_>> /\ master = "poll" /\ master' = "flush"
      BY <1>6 DEF Flush, taskVars
    <2>2. call > 0 => finished_ = Cardinality(Calls[call])
      BY Zenon, <1>6, LoopEnds
    <2> QED BY <2>1, <2>2 DEF Counted, Over, Begun, In
  <1>7. CASE AssignmentKept /\ TasksKept /\ PhaseKept
    <2>1. UNCHANGED <<call, work, finished_, dispatched_>>
      BY Zenon, <1>7 DEF AssignmentKept, TasksKept
    <2>2. /\ finished_' = IF master' = "assign" THEN 0 ELSE Cardinality(Over(work))
          /\ dispatched_' = IF master' = "assign" THEN 0 ELSE Cardinality(Begun(work))
      BY Zenon, <1>7, <2>1 DEF Counted, PhaseKept
    <2>3. master' \in {"flush", "apply", "ready"} /\ call' > 0 =>
            finished_' = Cardinality(Calls[call'])
      BY Zenon, <1>7, <2>1 DEF Counted, PhaseKept
    <2> QED BY Zenon, <2>1, <2>2, <2>3 DEF Counted, Over, Begun, In
  <1> QED BY ZenonT(30), <1>1, <1>2, <1>3, <1>4, <1>5, <1>6, <1>7, Steps

(* The barrier comes when all tasks are finished, and new ones are made by *)
(* the next call only.                                                     *)
LEMMA LeftInductive ==
  ASSUME TypeOK, Partitioned, TasksPlaced, Counted, NothingLeft, [Next]_vars
  PROVE  NothingLeft'
  <1>1. CASE Flush
    <2>1. \A w \in Worker, s \in Shard : work[w][s] \in {"none", "finished"}
      BY Zenon, <1>1, LoopEnds
    <2>2. work' = work
      BY <1>1 DEF Flush, taskVars
    <2> QED BY Zenon, <2>1, <2>2 DEF NothingLeft
  <1> DEFINE Between == {"flush", "apply", "ready", "assign"}
  <1>2. CASE AssignTasks \/ reap_one_task \/ steal_work \/ Dispatch
    <2>1. master' \notin Between
      BY <1>2 DEF AssignTasks, reap_one_task, steal_work, Dispatch
    <2> QED BY Zenon, <2>1 DEF NothingLeft
  <1>3. CASE work' = work /\ (master' \in Between => master \in Between)
    BY Zenon, <1>3 DEF NothingLeft
  <1>4. Run => master \in Between
    BY DEF Run
  <1>5. TasksKept /\ PhaseKept => work' = work /\ (master' \in Between => master \in Between)
    BY DEF TasksKept, PhaseKept
  <1> HIDE DEF Between
  <1> QED BY ZenonT(30), <1>1, <1>2, <1>3, <1>4, <1>5, Steps

-----------------------------------------------------------------------------
(* The theorems                                                             *)

(* The first step of the master is a call.                                 *)
LEMMA CalledInductive ==
  ASSUME TypeOK, Called, [Next]_vars
  PROVE  Called'
  <1>0. call \in Nat
    BY CallsTyped DEF TypeOK
  <1>1. CASE Run
    BY <1>0, <1>1 DEF Run, Called
  <1>2. CASE call' = call /\ (master' # "ready" => master # "ready")
    BY Zenon, <1>2 DEF Called
  <1>3. AssignmentKept => call' = call
    BY Zenon DEF AssignmentKept
  <1>4. AssignTasks \/ reap_one_task \/ Dispatch \/ steal_work \/ Flush => master # "ready"
    BY DEF AssignTasks, reap_one_task, Dispatch, steal_work, Flush
  <1>5. PhaseKept => (master' # "ready" => master # "ready")
    BY Zenon DEF PhaseKept
  <1> QED BY ZenonT(30), <1>1, <1>2, <1>3, <1>4, <1>5, Steps

(* The invariant holds before the first call.                              *)
LEMMA InitIInv == Init => IInv
  <1> SUFFICES ASSUME Init PROVE IInv
    BY SMTT(30)
  <1> USE DEF Init
  <1>0. NumWorkers \in Nat /\ NumShards \in Nat /\ Len(Calls) \in Nat
    BY SMTT(30), Constants, CallsTyped
  <1>1. TypeOK
    <2>1. dirty_tables_ \in [Worker -> BOOLEAN] /\ need_update \in BOOLEAN
      BY Zenon
    <2>2. /\ call \in 0 .. Len(Calls) /\ turn \in 0 .. NumWorkers /\ shard_calls \in Nat
          /\ finished_ \in 0 .. NumShards /\ dispatched_ \in 0 .. NumShards
      BY <1>0
    <2>3. /\ shards \in [Worker -> SUBSET Shard] /\ dirty \in [Worker -> SUBSET Shard]
          /\ tainted \in [Worker -> SUBSET Shard]
          /\ sync \in [Worker -> {"sent", "replied"}]
          /\ pc \in [Worker -> {"idle", "clear", "run"}]
      OBVIOUS
    <2>4. /\ work \in [Worker -> [Shard -> {"none", "pending", "active", "finished"}]]
          /\ owner \in [Worker -> [Shard -> Worker \cup {NoWorker}]]
          /\ running \in [Worker -> Shard \cup {NoShard}]
      OBVIOUS
    <2>5. loads \in LoadCalls /\ state \in [Worker -> SUBSET Shard] /\ crashed \subseteq Worker
      OBVIOUS
    <2> QED BY SMTT(30), <2>1, <2>2, <2>3, <2>4, <2>5 DEF TypeOK
  <1>2. Called /\ Partitioned /\ TasksPlaced /\ NothingLeft
    BY DEF Called, Partitioned, TasksPlaced, NothingLeft
  <1>3. ActiveOnce /\ RunsAKernel
    BY <1>0 DEF ActiveOnce, RunsAKernel, NoShard, Shard
  <1>4. Informed /\ RequestsServable /\ DirtyOwned /\ AllServe
    BY DEF Informed, RequestsServable, DirtyOwned, AllServe
  <1>5. Counted
    <2>1. Over(work) = {} /\ Begun(work) = {}
      BY DEF Over, Begun, In
    <2>2. finished_ = Cardinality(Over(work)) /\ dispatched_ = Cardinality(Begun(work))
      BY Zenon, <2>1, FS_EmptySet
    <2> QED BY <2>2 DEF Counted
  <1> QED BY Zenon, <1>1, <1>2, <1>3, <1>4, <1>5 DEF IInv

(* Every step of the master and of the workers preserves the invariant.     *)
THEOREM Invariance == Spec => []IInv
  <1>1. IInv /\ [Next]_vars => IInv'
    <2> SUFFICES ASSUME IInv, [Next]_vars PROVE IInv'
      OBVIOUS
    <2> USE DEF IInv
    <2>1. Counted'
      BY Zenon, CountedInductive
    <2>2. finished_' \in 0 .. NumShards /\ dispatched_' \in 0 .. NumShards
      <3>1. finished_' = 0 \/ finished_' = Cardinality(Over(work'))
        BY Zenon, <2>1 DEF Counted, Over, In
      <3>2. dispatched_' = 0 \/ dispatched_' = Cardinality(Begun(work'))
        BY Zenon, <2>1 DEF Counted, Begun, In
      <3>3. /\ 0 \in 0 .. NumShards /\ Cardinality(Over(work')) \in 0 .. NumShards
            /\ Cardinality(Begun(work')) \in 0 .. NumShards
        <4>1. 0 \in 0 .. NumShards
          BY Constants
        <4> QED BY Zenon, <4>1, BegunFinite
      <3> QED BY Zenon, <3>1, <3>2, <3>3
    <2>3. TypeOK'
      BY Zenon, <2>2, TypeInductive
    <2>4. Called' /\ Partitioned' /\ TasksPlaced' /\ ActiveOnce'
      BY Zenon, CalledInductive, PartitionInductive, PlacedInductive, ActiveInductive
    <2>5. RunsAKernel' /\ NothingLeft' /\ Informed' /\ RequestsServable'
      BY Zenon, RunsInductive, LeftInductive, InformedInductive, RequestsInductive
    <2>6. DirtyOwned' /\ AllServe'
      BY Zenon, DirtyInductive, ServeInductive
    <2> QED BY Zenon, <2>1, <2>3, <2>4, <2>5, <2>6
  <1> QED BY <1>1, InitIInv, PTL DEF Spec

(* The CHECKs of set_finished and the LOG(FATAL) of KernelLoop never fire,  *)
(* however tasks and shards are stolen.                                     *)
THEOREM ChecksNeverFire == Spec => []ChecksHold
  <1>1. IInv => ChecksHold
    <2> SUFFICES ASSUME IInv PROVE ChecksHold
      OBVIOUS
    <2>1. \A d \in done : work[d[1]][d[2]] = "active"
      BY DEF IInv, TypeOK, ActiveOnce
    <2> QED BY Zenon, <2>1 DEF IInv, ChecksHold, DoneIsActive
  <1> QED BY <1>1, Invariance, PTL

(* Every shard has one server, which all workers know whenever no           *)
(* assignment is being broadcast.                                           *)
THEOREM OneOwner == Spec => []ViewsAgree
  <1>1. IInv => ViewsAgree
    <2> SUFFICES ASSUME IInv, call > 0, NEW s \in Shard
                 PROVE  \E w \in Worker :
                          /\ \A v \in Worker : s \in shards[v] <=> v = w
                          /\ Synced /\ master # "steal" => \A v \in Worker : owner[v][s] = w
      BY Zenon DEF ViewsAgree
    <2>1. call # 0
      BY DEF IInv
    <2>2. PICK w \in Worker : \A v \in Worker : s \in shards[v] <=> v = w
      BY Zenon, <2>1 DEF IInv, Partitioned, Serves
    <2>3. ASSUME Synced, master # "steal", NEW v \in Worker PROVE owner[v][s] = w
      <3>1. ~ Outdated(v)
        BY <2>3 DEF Outdated, Synced
      <3> QED BY Zenon, <2>2, <3>1 DEF IInv, Informed
    <2> QED BY Zenon, <2>2, <2>3
  <1> QED BY <1>1, Invariance, PTL

(* finished_ and dispatched_ count the tasks of the call, and the CHECK_EQ  *)
(* of run() finds them all finished.                                        *)
THEOREM CountersRight == Spec => []CountersMatch
  <1>1. IInv => CountersMatch
    BY DEF IInv, CountersMatch, Counted, Over, Begun, In
  <1> QED BY <1>1, Invariance, PTL

(* With enough shards the alive workers, and no others, serve some.         *)
THEOREM NobodyIdle == Spec => []AllServe
  <1>1. IInv => AllServe
    BY DEF IInv
  <1> QED BY <1>1, Invariance, PTL

-----------------------------------------------------------------------------
(* The master implements the calls of KernelRuns                            *)

(* A task that has not been read by its worker.                             *)
Waiting(w, s) == work[w][s] = "pending" \/ <<w, s>> \in kernels

busy == {running[w] : w \in Worker} \ {NoShard}

(* todo is the set of the waiting tasks.                                   *)
LEMMA TodoIs ==
  /\ master = "assign" => todo = Calls[call]
  /\ master # "assign" => todo = {s \in Shard : \E w \in Worker : Waiting(w, s)}
  BY Zenon DEF todo, Waiting

(* A step after which the same shards wait leaves todo alone.              *)
LEMMA TodoSame ==
  ASSUME master # "assign", master' # "assign",
         \A s \in Shard : (\E w \in Worker : Waiting(w, s)') <=> \E w \in Worker : Waiting(w, s)
  PROVE  todo' = todo
  <1>1. todo' = {s \in Shard : \E w \in Worker : Waiting(w, s)'}
    BY Zenon DEF todo, Waiting
  <1>2. todo = {s \in Shard : \E w \in Worker : Waiting(w, s)}
    BY Zenon, TodoIs
  <1> QED BY Zenon, <1>1, <1>2

(* A waiting or running task is where its shard is served.                  *)
LEMMA WaitingServed ==
  ASSUME IInv, NEW w \in Worker, NEW s \in Shard, Waiting(w, s) \/ running[w] = s
  PROVE  s \in shards[w] /\ ~ (Waiting(w, s) /\ running[w] = s)
  <1>1. work[w][s] = "pending" \/ work[w][s] = "active"
    BY Zenon DEF IInv, ActiveOnce, Waiting
  <1>2. s \in shards[w]
    BY <1>1 DEF IInv, TasksPlaced
  <1>3. ~ (Waiting(w, s) /\ running[w] = s)
    BY DEF IInv, ActiveOnce, Waiting
  <1> QED BY Zenon, <1>2, <1>3

(* Run makes the next call once nothing of the last one is left.            *)
LEMMA RunIsStart ==
  ASSUME IInv, Run
  PROVE  Runs!Start
  <1>1. \A w \in Worker, s \in Shard : ~ Waiting(w, s) /\ running[w] # s
    <2>1. \A w \in Worker, s \in Shard : work[w][s] # "pending" /\ work[w][s] # "active"
      BY DEF Run, IInv, NothingLeft
    <2> QED BY ZenonT(30), <2>1 DEF IInv, ActiveOnce, Waiting
  <1>2. todo = {}
    <2>1. master # "assign"
      BY DEF Run
    <2> QED BY Zenon, <1>1, <2>1, TodoIs
  <1>3. busy = {}
    <2>1. \A w \in Worker : running[w] \in Shard \cup {NoShard}
      BY DEF IInv, TypeOK
    <2> QED BY ZenonT(30), <1>1, <2>1 DEF busy
  <1>4. todo' = Calls[call + 1] /\ call' = call + 1 /\ call < Len(Calls)
    BY DEF Run, todo
  <1>5. busy' = busy
    BY DEF Run, loopVars, busy
  <1> QED BY SMTT(30), <1>2, <1>3, <1>4, <1>5 DEF Runs!Start, busy

(* The tasks of a call are its shards.                                      *)
LEMMA AssignIsSilent ==
  ASSUME IInv, AssignTasks
  PROVE  todo' = todo
  <1>1. master = "assign" /\ master' # "assign" /\ call # 0
    BY DEF AssignTasks, IInv, Called
  <1>2. Calls[call] \in SUBSET Shard
    BY <1>1, CallsTyped DEF IInv, TypeOK
  <1>3. ASSUME NEW w \in Worker, NEW s \in Shard
        PROVE  Waiting(w, s)' <=> s \in Calls[call] /\ s \in shards[w]
    <2>1. <<w, s>> \notin kernels
      <3>1. work[w][s] # "active"
        BY <1>1 DEF IInv, NothingLeft
      <3> QED BY Zenon, <3>1 DEF IInv, ActiveOnce
    <2>2. Dispatched(assign_tasks, w, s)
      BY Zenon, DispatchStep DEF IInv
    <2>3. "active" # "pending"
      OBVIOUS
    <2>4. Waiting(w, s)' <=> assign_tasks[w][s] = "pending"
      BY Zenon, <2>1, <2>2, <2>3 DEF Dispatched, Waiting
    <2> QED BY Zenon, <2>4, NewTasks
  <1>4. \A s \in Shard : \E w \in Worker : s \in shards[w]
    BY Zenon, <1>1 DEF IInv, Partitioned, Serves
  <1>5. todo' = {s \in Shard : \E w \in Worker : Waiting(w, s)'}
    BY Zenon, <1>1 DEF todo, Waiting
  <1>6. todo = Calls[call]
    BY Zenon, <1>1, TodoIs
  <1> QED BY ZenonT(30), <1>2, <1>3, <1>4, <1>5, <1>6

(* Dispatching, reaping and stealing leave a waiting shard waiting.         *)
LEMMA MasterIsSilent ==
  ASSUME IInv, Dispatch \/ reap_one_task \/ steal_work
  PROVE  todo' = todo
  <1>1. master # "assign" /\ master' # "assign"
    BY DEF Dispatch, reap_one_task, steal_work
  <1>2. CASE Dispatch
    <2>1. ASSUME NEW w \in Worker, NEW s \in Shard PROVE Waiting(w, s)' <=> Waiting(w, s)
      <3>1. Dispatched(work, w, s)
        BY Zenon, <1>2, DispatchStep DEF IInv
      <3> QED BY Zenon, <3>1 DEF Dispatched, Waiting
    <2> QED BY Zenon, <1>1, <2>1, TodoSame
  <1>3. CASE reap_one_task
    <2>1. PICK v \in Worker, t \in Shard :
            /\ <<v, t>> \in done
            /\ \A w \in Worker, s \in Shard :
                 work'[w][s] = IF w = v /\ s = t THEN "finished" ELSE work[w][s]
      BY Zenon, <1>3, WorkTyped, ReapEffect DEF IInv
    <2>2. work[v][t] = "active" /\ kernels' = kernels
      BY Zenon, <1>3, <2>1 DEF reap_one_task, IInv, ActiveOnce
    <2>3. ASSUME NEW w \in Worker, NEW s \in Shard PROVE Waiting(w, s)' <=> Waiting(w, s)
      <3>1. work'[w][s] = "pending" <=> work[w][s] = "pending"
        BY <2>1, <2>2
      <3> QED BY Zenon, <2>2, <3>1 DEF Waiting
    <2> QED BY Zenon, <1>1, <2>3, TodoSame
  <1>4. CASE steal_work
    <2>1. PICK r \in Shard, src \in Worker, dst \in Worker : Stolen(r, src, dst)
      BY Zenon, <1>4, WorkTyped, StealEffect DEF IInv
    <2>2. \A w \in Worker, s \in Shard :
            work'[w][s] = IF s = r /\ w = dst THEN "pending"
                          ELSE IF s = r /\ w = src THEN "none" ELSE work[w][s]
      BY ZenonT(30), <2>1 DEF Stolen
    <2>3. kernels' = kernels /\ work[src][r] = "pending"
      BY <1>4, <2>1 DEF steal_work, netVars, Stolen
    <2>4. ASSUME NEW s \in Shard
          PROVE  (\E w \in Worker : Waiting(w, s)') <=> \E w \in Worker : Waiting(w, s)
      <3>1. CASE s = r
        <4>1. Waiting(dst, s)' /\ Waiting(src, s)
          BY Zenon, <2>2, <2>3, <3>1 DEF Waiting
        <4> QED BY Zenon, <4>1
      <3>2. CASE s # r
        <4>1. \A w \in Worker : work'[w][s] = work[w][s]
          BY Zenon, <2>2, <3>2
        <4> QED BY Zenon, <2>3, <4>1 DEF Waiting
      <3> QED BY <3>1, <3>2
    <2> QED BY Zenon, <1>1, <2>4, TodoSame
  <1> QED BY SMTT(30), <1>2, <1>3, <1>4

(* A worker that reads a request starts a kernel that was still to be run. *)
LEMMA StartIsBegin ==
  ASSUME IInv, NEW v \in Worker, StartKernel(v)
  PROVE  \E t \in todo : Runs!Begin(t)
  <1>1. PICK t \in Shard : /\ <<v, t>> \in kernels /\ kernels' = kernels \ {<<v, t>>}
                           /\ running' = [running EXCEPT ![v] = t]
    BY ZenonT(30) DEF StartKernel
  <1>2. UNCHANGED <<work, master, call>>
    BY DEF StartKernel, taskVars, runVars
  <1>3. work[v][t] = "active" /\ Waiting(v, t) /\ t \in shards[v]
    <2>1. work[v][t] = "active" /\ Waiting(v, t)
      BY Zenon, <1>1 DEF IInv, ActiveOnce, Waiting
    <2> QED BY Zenon, <2>1, WaitingServed
  <1>4. master # "assign"
    BY <1>3 DEF IInv, NothingLeft
  <1>5. ASSUME NEW w \in Worker, NEW s \in Shard
        PROVE  Waiting(w, s)' <=> Waiting(w, s) /\ s # t
    <2>1. <<w, s>> \in kernels' <=> <<w, s>> \in kernels /\ ~ (w = v /\ s = t)
      BY <1>1
    <2>2. CASE s # t
      BY Zenon, <1>2, <2>1, <2>2 DEF Waiting
    <2>3. CASE s = t
      <3>1. CASE w = v
        <4>1. work'[w][s] # "pending"
          BY <1>2, <1>3, <2>3, <3>1
        <4> QED BY ZenonT(30), <2>1, <2>3, <3>1, <4>1 DEF Waiting
      <3>2. CASE w # v
        <4>1. ~ Waiting(w, s)
          BY ZenonT(30), <1>3, <2>3, <3>2, WaitingServed, OneServer DEF IInv
        <4> QED BY ZenonT(30), <1>2, <2>1, <2>3, <4>1 DEF Waiting
      <3> QED BY <3>1, <3>2
    <2> QED BY <2>2, <2>3
  <1>6. todo = {s \in Shard : \E w \in Worker : Waiting(w, s)}
    BY Zenon, <1>4, TodoIs
  <1>7. todo' = {s \in Shard : \E w \in Worker : Waiting(w, s)'}
    BY Zenon, <1>2, <1>4 DEF todo, Waiting
  <1>8. t \in todo
    BY Zenon, <1>3, <1>6
  <1>9. todo' = todo \ {t}
    BY Zenon, <1>5, <1>6, <1>7
  <1>10. busy' = busy \cup {t}
    <2>0. t # NoShard
      BY Constants DEF NoShard, Shard
    <2>1. running[v] = NoShard
      <3>1. pc[v] # "run"
        BY SMTT(30) DEF StartKernel
      <3> QED BY Zenon, <3>1 DEF IInv, RunsAKernel
    <2>2. \A w \in Worker : running'[w] = IF w = v THEN t ELSE running[w]
      BY <1>1 DEF IInv, TypeOK
    <2> QED BY Zenon, <2>0, <2>1, <2>2 DEF busy
  <1>11. Runs!Begin(t)
    BY ZenonT(30), <1>2, <1>8, <1>9, <1>10 DEF Runs!Begin, busy
  <1> QED BY Zenon, <1>8, <1>11

(* A kernel that returns ends one that was running, and only that one.     *)
LEMMA DoneIsEnd ==
  ASSUME IInv, NEW v \in Worker, KernelDone(v)
  PROVE  \E t \in busy : Runs!End(t)
  <1>1. PICK t \in Shard : t = running[v]
    BY DEF KernelDone, IInv, RunsAKernel, TypeOK
  <1>2. UNCHANGED <<work, master, call, kernels>>
    <2>1. UNCHANGED runVars /\ UNCHANGED taskVars /\ UNCHANGED kernels
      BY Zenon DEF KernelDone
    <2> QED BY Zenon, <2>1 DEF taskVars, runVars
  <1>3. \A w \in Worker : running'[w] = IF w = v THEN NoShard ELSE running[w]
    BY DEF KernelDone, IInv, TypeOK
  <1>4. t # NoShard
    BY Constants DEF NoShard, Shard
  <1>5. ASSUME NEW w \in Worker, w # v PROVE running[w] # t
    BY ZenonT(30), <1>1, <1>5, WaitingServed, OneServer DEF IInv
  <1>6. t \in busy
    BY Zenon, <1>1, <1>4 DEF busy
  <1>7. busy' = busy \ {t}
    BY Zenon, <1>1, <1>3, <1>4, <1>5 DEF busy
  <1>8. todo' = todo
    BY Zenon, <1>2 DEF todo
  <1>9. Runs!End(t)
    BY Zenon, <1>2, <1>6, <1>7, <1>8 DEF Runs!End, busy
  <1> QED BY ZenonT(30), <1>6, <1>9

(* Every call runs its kernel once on each of its shards, whoever steals    *)
(* them, and returns before the next is made.                               *)
THEOREM RunsImplemented == Spec => ImplementsRuns
  <1>1. Init => Runs!Init
    <2> SUFFICES ASSUME Init PROVE call = 0 /\ todo = {} /\ busy = {}
      BY ZenonT(30) DEF Runs!Init, busy
    <2>1. todo = {}
      BY Zenon DEF Init, todo
    <2>2. \A w \in Worker : running[w] = NoShard
      BY Zenon DEF Init
    <2> QED BY Zenon, <2>1, <2>2 DEF Init, busy
  <1>2. IInv /\ [Next]_vars => [Runs!Next]_(Runs!vars)
    <2> SUFFICES ASSUME IInv, [Next]_vars
                 PROVE  Runs!Next \/ UNCHANGED <<call, todo, busy>>
      BY Zenon DEF Runs!vars, busy
    <2>1. CASE Run
      BY Zenon, <2>1, RunIsStart DEF Runs!Next
    <2>2. CASE AssignTasks \/ Dispatch \/ reap_one_task \/ steal_work
      <3>1. todo' = todo
        BY Zenon, <2>2, AssignIsSilent, MasterIsSilent
      <3>2. UNCHANGED <<call, running>>
        BY Zenon, <2>2 DEF AssignTasks, Dispatch, reap_one_task, steal_work, loopVars
      <3> QED BY Zenon, <3>1, <3>2 DEF busy
    <2>3. ASSUME NEW v \in Worker, StartKernel(v) PROVE Runs!Next
      BY Zenon, <2>3, StartIsBegin DEF Runs!Next
    <2>4. ASSUME NEW v \in Worker, KernelDone(v) PROVE Runs!Next
      BY Zenon, <2>4, DoneIsEnd DEF Runs!Next, busy
    <2>5. CASE AssignmentKept /\ TasksKept /\ RequestsKept /\ (Flush \/ PhaseKept)
      <3>1. UNCHANGED <<call, work, kernels, running>>
        BY Zenon, <2>5 DEF AssignmentKept, TasksKept, RequestsKept
      <3>2. master' = "assign" <=> master = "assign"
        BY <2>5 DEF PhaseKept, Flush
      <3> QED BY Zenon, <3>1, <3>2 DEF todo, busy
    <2>6. TypeOK
      BY Zenon DEF IInv
    <2> QED BY ZenonT(30), <2>1, <2>2, <2>3, <2>4, <2>5, <2>6, Steps
  <1> QED BY <1>1, <1>2, Invariance, PTL DEF Spec, ImplementsRuns, Runs!Spec

=============================================================================
