------------------------- MODULE SchedulerInductive -------------------------
(***************************************************************************)
(* Each conjunct of the inductive invariant about tasks, shards, requests  *)
(* and what the workers know is preserved by every step of the master and  *)
(* the workers. The proofs have one case for each action that can disturb  *)
(* the conjunct; the frames of SchedulerLemmas (Steps) deal with the       *)
(* others.                                                                 *)
(***************************************************************************)
EXTENDS SchedulerLemmas

-----------------------------------------------------------------------------
(* Types                                                                    *)

(* The variables have their types after every step; that the counters stay  *)
(* in their range is shown with Counted.                                    *)
LEMMA TypeInductive ==
  ASSUME TypeOK, Partitioned, DirtyOwned, RunsAKernel, [Next]_vars,
         finished_' \in 0 .. NumShards, dispatched_' \in 0 .. NumShards
  PROVE  TypeOK'
  <1> USE DEF TypeOK
  <1>w. Worker = 0 .. NumWorkers - 1 /\ NumWorkers \in Nat
    BY Constants DEF Worker
  <1>a. shards \in Assignment /\ work \in WorkType
    BY DEF Assignment, WorkType, Status
  <1>b. Assignment = [Worker -> SUBSET Shard] /\
        WorkType = [Worker -> [Shard -> {"none", "pending", "active", "finished"}]]
    BY DEF Assignment, WorkType, Status
  <1>1. CASE Run
    <2>1. call + 1 \in 0 .. Len(Calls)
      BY <1>1, CallsTyped DEF Run
    <2>2. assigned[NumShards] \in [Worker -> SUBSET Shard]
      BY Zenon, <1>b, FirstAssignment
    <2>3. shards' \in [Worker -> SUBSET Shard] /\ sync' \in [Worker -> {"sent", "replied"}]
      BY <1>1, <2>2 DEF Run, assign_tables, Broadcast
    <2> QED BY <1>1, <2>1, <2>3 DEF Run, viewVars, loopVars, tableVars
  <1>2. CASE AssignTasks
    <2>1. assign_tasks \in WorkType
      BY <1>b DEF assign_tasks
    <2>2. work' \in WorkType /\ kernels' \subseteq Worker \X Shard
      BY Zenon, <1>2, <2>1, DispatchEffect DEF AssignTasks
    <2> QED BY <1>2, <1>b, <2>2 DEF AssignTasks, viewVars, loopVars, tableVars
  <1>3. CASE reap_one_task
    <2>1. work' \in WorkType /\ done' \subseteq Worker \X Shard
      BY Zenon, <1>3, <1>a, ReapEffect
    <2>2. turn' \in 0 .. NumWorkers /\ shard_calls' \in Nat
      BY SMTT(30), <1>3, <1>w DEF reap_one_task
    <2> QED BY ZenonT(30), <1>3, <1>b, <2>1, <2>2 DEF reap_one_task, viewVars, loopVars,
                 tableVars
  <1>4. CASE steal_work
    <2>1. PICK s \in Shard, src \in Worker, dst \in Worker : Stolen(s, src, dst)
      BY Zenon, <1>4, <1>a, StealEffect
    <2>2. work' \in WorkType /\ stolen' \subseteq Shard
      BY <2>1 DEF Stolen
    <2>3. shards' \in [Worker -> SUBSET Shard]
      BY <2>1 DEF Stolen
    <2>4. turn + 1 \in 0 .. NumWorkers
      BY <1>4, <1>w DEF steal_work
    <2> QED BY SMTT(30), <1>4, <1>b, <2>2, <2>3, <2>4 DEF steal_work, viewVars, loopVars, netVars,
                 tableVars
  <1>5. CASE NextWorker
    BY SMTT(30), <1>5, <1>w DEF NextWorker, taskVars, viewVars, loopVars, netVars, tableVars
  <1>6. CASE EndSteal \/ TablesUpdated \/ Flush \/ Apply \/ EndBarrier
    BY <1>6 DEF EndSteal, TablesUpdated, Flush, Apply, EndBarrier, Broadcast,
                taskVars, viewVars, loopVars, netVars, tableVars
  <1>7. CASE Dispatch
    <2>1. work' \in WorkType /\ kernels' \subseteq Worker \X Shard
      BY Zenon, <1>7, <1>a, DispatchEffect DEF Dispatch
    <2> QED BY <1>7, <1>b, <2>1 DEF Dispatch, viewVars, loopVars, tableVars
  <1>8. CASE Receive
    BY SMTT(30), <1>8 DEF Receive, runVars, taskVars, viewVars, loopVars, tableVars
  <1>9. ASSUME NEW w \in Worker, HandleShardAssignment(w) PROVE TypeOK'
    <2>1. \A s \in Shard : NewOwner(w, s) \in Worker \cup {NoWorker}
      <3>1. \A s \in Shard : owner[w][s] \in Worker \cup {NoWorker}
        OBVIOUS
      <3> QED BY ZenonT(30), <3>1, NewOwnerIs
    <2>2. owner' \in [Worker -> [Shard -> Worker \cup {NoWorker}]]
      BY <1>9, <2>1 DEF HandleShardAssignment
    <2> QED BY <1>9, <2>2 DEF HandleShardAssignment, runVars, taskVars, loopVars, tableVars
  <1>s. ASSUME NEW w \in Worker, SendUpdates(w)
        PROVE  wire' \subseteq Worker \X Shard /\ crashed' \subseteq Worker
    <2>1. \A S \in SUBSET dirty[w] : PutsFor(w, S) \subseteq Worker \X Shard
      BY DEF PutsFor, DirtyOwned
    <2>2. \E S \in SUBSET dirty[w] : wire' = wire \cup PutsFor(w, S)
      BY <1>s DEF SendUpdates, Lost
    <2>3. crashed' \subseteq Worker
      BY <1>s DEF SendUpdates
    <2> QED BY Zenon, <2>1, <2>2, <2>3
  <1>p. ASSUME NEW w \in Worker, HandlePutRequest(w)
        PROVE  puts' \subseteq Worker \X Shard /\ tainted' \in [Worker -> SUBSET Shard]
    BY <1>p DEF HandlePutRequest
  <1>10. ASSUME NEW w \in Worker, HandleFlush(w) PROVE TypeOK'
    BY SMTT(30), <1>10, <1>s DEF HandleFlush, runVars, taskVars, viewVars, loopVars
  <1>11. ASSUME NEW w \in Worker, HandleApply(w) PROVE TypeOK'
    BY SMTT(30), <1>11, <1>p DEF HandleApply, runVars, taskVars, loopVars, tableVars
  <1>12. ASSUME NEW w \in Worker, CheckNetwork(w) PROVE TypeOK'
    BY SMTT(30), <1>12, <1>s, <1>p DEF CheckNetwork, runVars, taskVars
  <1>13. ASSUME NEW w \in Worker, ClearDirty(w) PROVE TypeOK'
    BY SMTT(30), <1>13 DEF ClearDirty, runVars, taskVars, netVars, tableVars
  <1>14. ASSUME NEW w \in Worker, StartKernel(w) PROVE TypeOK'
    BY SMTT(30), <1>14 DEF StartKernel, runVars, taskVars, viewVars, tableVars
  <1>15. ASSUME NEW w \in Worker, KernelDone(w) PROVE TypeOK'
    <2>1. running[w] \in Shard
      BY SMTT(30), <1>15 DEF KernelDone, RunsAKernel
    <2> QED BY SMTT(30), <1>15, <2>1, <1>p DEF KernelDone, runVars, taskVars, tableVars
  <1>16. CASE UNCHANGED vars
    BY SMTT(30), <1>16 DEF vars, runVars, taskVars, viewVars, loopVars, netVars, tableVars
  <1>17. ASSUME NEW w \in Worker, InitStateTable(w) PROVE TypeOK'
    BY SMTT(30), <1>17 DEF InitStateTable, Local, runVars, taskVars, viewVars, loopVars, netVars
  <1>18. ASSUME NEW w \in Worker, NullPartition(w) PROVE TypeOK'
    BY <1>18 DEF NullPartition, runVars, taskVars, viewVars, loopVars, netVars
  <1> QED BY ZenonT(30), <1>1, <1>2, <1>3, <1>4, <1>5, <1>6, <1>7, <1>8, <1>9, <1>10, <1>11,
             <1>12, <1>13, <1>14, <1>15, <1>16, <1>17, <1>18
             DEF Next, Master, KernelLoop, Callback

(* No shard has two servers.                                                *)
LEMMA OneServer ==
  ASSUME Partitioned, NEW v \in Worker, NEW w \in Worker, NEW s \in Shard,
         s \in shards[v], s \in shards[w]
  PROVE  v = w /\ Serves(v, s) /\ call # 0
  <1>1. call # 0
    BY Zenon DEF Partitioned
  <1>2. PICK u \in Worker : Serves(u, s)
    BY Zenon, <1>1 DEF Partitioned
  <1>3. v = u /\ w = u
    BY Zenon, <1>2 DEF Serves
  <1> QED BY Zenon, <1>1, <1>2, <1>3

(* Every shard keeps one server: the first call hands each shard out once, *)
(* and a theft takes it from one worker and gives it to one.               *)
LEMMA PartitionInductive ==
  ASSUME TypeOK, Partitioned, TasksPlaced, [Next]_vars
  PROVE  Partitioned'
  <1>1. CASE Run /\ call = 0
    <2>1. call' # 0 /\ shards' = assigned[NumShards] /\ dead \in DeadWorkers
      BY <1>1 DEF Run, assign_tables, TypeOK
    <2>2. \A s \in Shard : \E w \in Worker : \A v \in Worker :
            s \in assigned[NumShards][v] <=> v = w
      BY Zenon, <2>1, FirstAssignment
    <2> QED BY Zenon, <2>1, <2>2 DEF Partitioned, Serves
  <1>2. CASE steal_work
    <2>1. shards \in Assignment /\ work \in WorkType /\ turn \in 0 .. NumWorkers
      BY DEF TypeOK, Assignment, WorkType, Status
    <2>2. PICK s \in Shard, src \in Worker, dst \in Worker : Stolen(s, src, dst)
      BY Zenon, <1>2, <2>1, StealEffect
    <2>3. \A w \in Worker : shards'[w] = IF w = dst THEN shards[w] \cup {s}
                                        ELSE IF w = src THEN shards[w] \ {s} ELSE shards[w]
      BY Zenon, <2>2 DEF Stolen
    <2>4. s \in shards[src] /\ src # dst
      BY <2>2 DEF Stolen, TasksPlaced
    <2>5. call' = call /\ call # 0 /\ Serves(src, s)
      BY Zenon, <1>2, <2>4, OneServer DEF steal_work
    <2>6. \A v \in Worker : s \in shards'[v] <=> v = dst
      BY Zenon, <2>3, <2>4, <2>5 DEF Serves
    <2>7. ASSUME NEW t \in Shard, t # s
          PROVE  \E w \in Worker : \A v \in Worker : t \in shards'[v] <=> v = w
      <3>1. PICK w \in Worker : Serves(w, t)
        BY Zenon, <2>5 DEF Partitioned
      <3>2. \A v \in Worker : t \in shards'[v] <=> t \in shards[v]
        BY Zenon, <2>3, <2>7
      <3> QED BY Zenon, <3>1, <3>2 DEF Serves
    <2>8. \A t \in Shard : \E w \in Worker : \A v \in Worker : t \in shards'[v] <=> v = w
      BY Zenon, <2>6, <2>7
    <2> QED BY Zenon, <2>5, <2>8 DEF Partitioned, Serves
  <1>3. CASE Run /\ call # 0
    <2>1. call' # 0 /\ shards' = shards
      BY <1>3 DEF Run, TypeOK
    <2> QED BY Zenon, <1>3, <2>1 DEF Partitioned, Serves
  <1>4. CASE AssignmentKept
    BY Zenon, <1>4 DEF Partitioned, Serves, AssignmentKept
  <1> QED BY Zenon, <1>1, <1>2, <1>3, <1>4, Steps

(* A thief is alive and takes one of two shards.                            *)
LEMMA ServeInductive ==
  ASSUME TypeOK, TasksPlaced, AllServe, [Next]_vars
  PROVE  AllServe'
  <1>0. call \in Nat /\ dead \in DeadWorkers
    BY CallsTyped DEF TypeOK
  <1>1. CASE Run /\ call = 0
    <2>1. dead' = dead /\ shards' = assigned[NumShards]
      BY <1>1 DEF Run, assign_tables
    <2>2. NumShards >= Cardinality(Worker \ dead) =>
            \A w \in Worker : w \notin dead <=> assigned[NumShards][w] # {}
      BY Zenon, <1>0, FirstAssignment DEF alive
    <2> QED BY Zenon, <2>1, <2>2 DEF AllServe, alive
  <1>2. CASE steal_work
    <2>1. shards \in Assignment /\ work \in WorkType /\ turn \in 0 .. NumWorkers
      BY DEF TypeOK, Assignment, WorkType, Status
    <2>2. PICK s \in Shard, src \in Worker, dst \in Worker : Stolen(s, src, dst)
      BY Zenon, <1>2, <2>1, StealEffect
    <2>3. \A w \in Worker : shards'[w] = IF w = dst THEN shards[w] \cup {s}
                                        ELSE IF w = src THEN shards[w] \ {s} ELSE shards[w]
      BY Zenon, <2>2 DEF Stolen
    <2>4. PICK t \in Shard : t # s /\ work[src][t] = "pending"
      BY Zenon, <2>2 DEF Stolen
    <2>5. t \in shards[src] /\ s \in shards[src] /\ src # dst /\ dst \notin dead
      BY <2>2, <2>4 DEF Stolen, TasksPlaced, alive
    <2>6. s \in shards'[dst] /\ t \in shards'[src]
      BY Zenon, <2>3, <2>4, <2>5
    <2>7. \A w \in Worker : w # src /\ w # dst => shards'[w] = shards[w]
      BY Zenon, <2>3
    <2>8. call' = call /\ dead' = dead
      BY <1>2 DEF steal_work
    <2>9. ASSUME \A w \in Worker : w \notin dead <=> shards[w] # {}
          PROVE  \A w \in Worker : w \notin dead <=> shards'[w] # {}
      BY Zenon, <2>5, <2>6, <2>7, <2>9
    <2> QED BY Zenon, <2>8, <2>9 DEF AllServe, alive
  <1>3. CASE Run /\ call # 0
    <2>1. call > 0 /\ shards' = shards /\ dead' = dead
      BY <1>0, <1>3 DEF Run
    <2> QED BY Zenon, <2>1 DEF AllServe, alive
  <1>4. CASE AssignmentKept
    BY Zenon, <1>4 DEF AllServe, alive, AssignmentKept
  <1> QED BY Zenon, <1>1, <1>2, <1>3, <1>4, Steps

(* The types of the tasks, in the form the lemmas on operations use.       *)
LEMMA WorkTyped ==
  ASSUME TypeOK
  PROVE  /\ work \in WorkType /\ shards \in Assignment /\ turn \in 0 .. NumWorkers
         /\ kernels \subseteq Worker \X Shard /\ done \subseteq Worker \X Shard
         /\ assign_tasks \in WorkType
  BY DEF TypeOK, Assignment, WorkType, Status, assign_tasks

(* Only shards of the call that w serves become tasks of w.                 *)
LEMMA NewTasks ==
  ASSUME NEW w \in Worker, NEW s \in Shard
  PROVE  /\ assign_tasks[w][s] \in {"none", "pending"}
         /\ assign_tasks[w][s] = "pending" <=> s \in Calls[call] /\ s \in shards[w]
  BY DEF assign_tasks

(* A task after dispatch_work, whether or not it was new.                   *)
Dispatched(wk, w, s) ==
  \/ work'[w][s] = wk[w][s] /\ (<<w, s>> \in kernels' <=> <<w, s>> \in kernels)
  \/ wk[w][s] = "pending" /\ work'[w][s] = "active" /\ <<w, s>> \in kernels'

(* That is what AssignTasks and Dispatch do to every task.                 *)
LEMMA DispatchStep ==
  ASSUME TypeOK
  PROVE  /\ AssignTasks => \A w \in Worker, s \in Shard : Dispatched(assign_tasks, w, s)
         /\ Dispatch => \A w \in Worker, s \in Shard : Dispatched(work, w, s)
  <1>1. ASSUME NEW wk \in WorkType, dispatch_work(wk)
        PROVE  \A w \in Worker, s \in Shard : Dispatched(wk, w, s)
    <2>1. kernels \subseteq Worker \X Shard
      BY Zenon, WorkTyped
    <2> QED BY Zenon, <1>1, <2>1, DispatchEffect DEF Dispatched
  <1>2. ASSUME UNCHANGED <<work, kernels>>
        PROVE  \A w \in Worker, s \in Shard : Dispatched(work, w, s)
    BY Zenon, <1>2 DEF Dispatched
  <1>3. work \in WorkType /\ assign_tasks \in WorkType
    BY Zenon, WorkTyped
  <1>4. Dispatch => dispatch_work(work) \/ UNCHANGED <<work, kernels>>
    BY DEF Dispatch
  <1>5. AssignTasks => dispatch_work(assign_tasks)
    BY DEF AssignTasks
  <1> QED BY Zenon, <1>1, <1>2, <1>3, <1>4, <1>5

(* A task stays with the server of its shard: a theft moves both.          *)
LEMMA PlacedInductive ==
  ASSUME TypeOK, Partitioned, TasksPlaced, ActiveOnce, [Next]_vars
  PROVE  TasksPlaced'
  <1> SUFFICES ASSUME NEW w \in Worker, NEW s \in Shard, work'[w][s] # "none"
               PROVE  s \in shards'[w] /\ (master' # "assign" => s \in Calls[call'])
    BY Zenon DEF TasksPlaced
  <1>1. CASE Run
    <2>1. work' = work /\ master' = "assign" /\ (call # 0 => shards' = shards)
      BY <1>1 DEF Run
    <2>2. s \in shards[w]
      BY Zenon, <2>1 DEF TasksPlaced
    <2>3. call # 0
      BY Zenon, <2>2 DEF Partitioned
    <2> QED BY Zenon, <2>1, <2>2, <2>3
  <1>2. CASE AssignTasks
    <2>1. assign_tasks[w][s] # "none"
      <3>1. \/ work'[w][s] = assign_tasks[w][s]
            \/ assign_tasks[w][s] = "pending"
        BY Zenon, <1>2, DispatchStep DEF Dispatched
      <3> QED BY <3>1
    <2>2. s \in Calls[call] /\ s \in shards[w]
      BY Zenon, <2>1, NewTasks
    <2> QED BY Zenon, <1>2, <2>2 DEF AssignTasks
  <1>3. CASE reap_one_task
    <2>1. PICK v \in Worker, t \in Shard :
            /\ <<v, t>> \in done
            /\ work'[w][s] = IF w = v /\ s = t THEN "finished" ELSE work[w][s]
      BY Zenon, <1>3, WorkTyped, ReapEffect
    <2>2. work[v][t] # "none"
      BY <2>1 DEF ActiveOnce
    <2>3. work[w][s] # "none"
      BY Zenon, <2>1, <2>2
    <2> QED BY Zenon, <1>3, <2>3 DEF reap_one_task, TasksPlaced
  <1>4. CASE steal_work
    <2>1. PICK r \in Shard, src \in Worker, dst \in Worker : Stolen(r, src, dst)
      BY Zenon, <1>4, WorkTyped, StealEffect
    <2>2. shards'[w] = IF w = dst THEN shards[w] \cup {r}
                       ELSE IF w = src THEN shards[w] \ {r} ELSE shards[w]
      BY Zenon, <2>1 DEF Stolen
    <2>3. work'[w][s] = IF s = r /\ w = dst THEN "pending"
                        ELSE IF s = r /\ w = src THEN "none" ELSE work[w][s]
      BY Zenon, <2>1 DEF Stolen
    <2>4. master' = "steal" /\ master = "steal" /\ call' = call /\ src # dst
          /\ work[src][r] = "pending"
      BY <1>4, <2>1 DEF steal_work, Stolen
    <2>5. r \in Calls[call]
      BY <2>4 DEF TasksPlaced
    <2>6. CASE s = r
      <3>1. w = dst \/ (w # src /\ work[w][s] # "none")
        BY Zenon, <2>3, <2>6
      <3>2. w = dst \/ (w # src /\ s \in shards[w])
        BY Zenon, <3>1 DEF TasksPlaced
      <3> QED BY <2>2, <2>4, <2>5, <2>6, <3>2
    <2>7. CASE s # r
      <3>1. work[w][s] # "none"
        BY Zenon, <2>3, <2>7
      <3>2. s \in shards[w] /\ s \in Calls[call]
        BY <2>4, <3>1 DEF TasksPlaced
      <3> QED BY <2>2, <2>4, <2>7, <3>2
    <2> QED BY <2>6, <2>7
  <1>5. CASE Dispatch
    <2>1. work[w][s] # "none"
      <3>1. \/ work'[w][s] = work[w][s]
            \/ work[w][s] = "pending"
        BY Zenon, <1>5, DispatchStep DEF Dispatched
      <3> QED BY <3>1
    <2>2. UNCHANGED <<shards, call>> /\ master = "dispatch"
      BY <1>5 DEF Dispatch
    <2> QED BY <2>1, <2>2 DEF TasksPlaced
  <1>6. CASE AssignmentKept /\ TasksKept /\ (Flush \/ PhaseKept)
    <2>1. UNCHANGED <<work, shards, call>> /\ (master' # "assign" => master # "assign")
      BY <1>6 DEF AssignmentKept, TasksKept, PhaseKept, Flush
    <2> QED BY Zenon, <2>1 DEF TasksPlaced
  <1> QED BY ZenonT(30), <1>1, <1>2, <1>3, <1>4, <1>5, <1>6, Steps

(* A task becomes active with its request, and finished with the answer; a *)
(* theft only moves pending tasks.                                         *)
LEMMA ActiveInductive ==
  ASSUME TypeOK, ActiveOnce, RunsAKernel, NothingLeft, [Next]_vars
  PROVE  ActiveOnce'
  <1> DEFINE Once(w, s) ==
        /\ work[w][s] = "active" <=>
             <<w, s>> \in kernels \/ running[w] = s \/ <<w, s>> \in done
        /\ ~ (<<w, s>> \in kernels /\ running[w] = s)
        /\ ~ (<<w, s>> \in kernels /\ <<w, s>> \in done)
        /\ ~ (running[w] = s /\ <<w, s>> \in done)
  <1>0. \A w \in Worker, s \in Shard : Once(w, s)
    BY Zenon DEF ActiveOnce
  <1> SUFFICES ASSUME NEW w \in Worker, NEW s \in Shard PROVE Once(w, s)'
    BY Zenon DEF ActiveOnce
  <1>1. CASE AssignTasks
    <2>1. UNCHANGED <<running, done>> /\ work[w][s] # "active"
      BY <1>1 DEF AssignTasks, NothingLeft, loopVars
    <2>2. assign_tasks[w][s] # "active" /\ Dispatched(assign_tasks, w, s)
      <3>1. assign_tasks[w][s] \in {"none", "pending"} /\ Dispatched(assign_tasks, w, s)
        BY Zenon, <1>1, DispatchStep, NewTasks
      <3> QED BY <3>1
    <2> QED BY Zenon, <1>0, <2>1, <2>2 DEF Dispatched
  <1>2. CASE Dispatch
    <2>1. UNCHANGED <<running, done>>
      BY <1>2 DEF Dispatch, loopVars
    <2>2. Dispatched(work, w, s)
      BY Zenon, <1>2, DispatchStep
    <2>3. "pending" # "active"
      OBVIOUS
    <2> QED BY Zenon, <1>0, <2>1, <2>2, <2>3 DEF Dispatched
  <1>3. CASE reap_one_task
    <2>1. PICK v \in Worker, t \in Shard :
            /\ <<v, t>> \in done /\ done' = done \ {<<v, t>>}
            /\ work'[w][s] = IF w = v /\ s = t THEN "finished" ELSE work[w][s]
      BY ZenonT(30), <1>3, WorkTyped, ReapEffect
    <2>2. UNCHANGED <<running, kernels>>
      BY <1>3 DEF reap_one_task, loopVars
    <2>3. <<w, s>> \in done' <=> <<w, s>> \in done /\ ~ (w = v /\ s = t)
      BY <2>1
    <2>4. "finished" # "active"
      OBVIOUS
    <2> QED BY Zenon, <1>0, <2>1, <2>2, <2>3, <2>4
  <1>4. CASE steal_work
    <2>1. PICK r \in Shard, src \in Worker, dst \in Worker : Stolen(r, src, dst)
      BY Zenon, <1>4, WorkTyped, StealEffect
    <2>2. work'[w][s] = IF s = r /\ w = dst THEN "pending"
                        ELSE IF s = r /\ w = src THEN "none" ELSE work[w][s]
      BY Zenon, <2>1 DEF Stolen
    <2>3. work[src][r] = "pending" /\ work[dst][r] \in {"none", "finished"}
      BY Zenon, <2>1 DEF Stolen
    <2>4. UNCHANGED <<running, kernels, done>>
      BY <1>4 DEF steal_work, loopVars, netVars
    <2>5. work'[w][s] = "active" <=> work[w][s] = "active"
      BY <2>2, <2>3
    <2> QED BY Zenon, <1>0, <2>4, <2>5
  <1>5. ASSUME NEW v \in Worker, StartKernel(v) PROVE Once(w, s)'
    <2>1. PICK t \in Shard : /\ <<v, t>> \in kernels /\ kernels' = kernels \ {<<v, t>>}
                             /\ running' = [running EXCEPT ![v] = t]
      BY Zenon, <1>5 DEF StartKernel
    <2>2. UNCHANGED <<work, done>>
      BY <1>5 DEF StartKernel, taskVars
    <2>3. <<w, s>> \in kernels' <=> <<w, s>> \in kernels /\ ~ (w = v /\ s = t)
      BY <2>1
    <2>4. running'[w] = IF w = v THEN t ELSE running[w]
      BY <2>1 DEF TypeOK
    <2>5. running[v] = NoShard /\ NoShard # s
      BY <1>5, Constants DEF StartKernel, RunsAKernel, NoShard, Shard
    <2>6. Once(w, s) /\ Once(v, t)
      BY Zenon, <1>0
    <2>7. CASE w = v /\ s = t
      BY ZenonT(30), <2>1, <2>2, <2>3, <2>4, <2>6, <2>7
    <2>8. CASE w # v
      BY Zenon, <2>2, <2>3, <2>4, <2>6, <2>8
    <2>9. CASE w = v /\ s # t
      BY Zenon, <2>2, <2>3, <2>4, <2>5, <2>6, <2>9
    <2> QED BY Zenon, <2>7, <2>8, <2>9
  <1>6. ASSUME NEW v \in Worker, KernelDone(v) PROVE Once(w, s)'
    <2>1. PICK t \in Shard : t = running[v]
      BY SMTT(30), <1>6 DEF KernelDone, RunsAKernel, TypeOK
    <2>2. UNCHANGED <<work, kernels>>
      BY ZenonT(30), <1>6 DEF KernelDone, taskVars
    <2>3. <<w, s>> \in done' <=> <<w, s>> \in done \/ (w = v /\ s = t)
      BY ZenonT(30), <1>6, <2>1 DEF KernelDone
    <2>4. running'[w] = IF w = v THEN NoShard ELSE running[w]
      BY <1>6 DEF TypeOK, KernelDone
    <2>5. NoShard # s
      BY Constants DEF NoShard, Shard
    <2> QED BY ZenonT(30), <1>0, <2>1, <2>2, <2>3, <2>4, <2>5
  <1>7. CASE work' = work /\ RequestsKept
    BY ZenonT(30), <1>0, <1>7 DEF RequestsKept
  <1>8. TasksKept => work' = work
    BY Zenon DEF TasksKept
  <1> QED BY ZenonT(30), <1>1, <1>2, <1>3, <1>4, <1>5, <1>6, <1>7, <1>8, Steps

(* running is set and cleared with pc.                                     *)
LEMMA RunsInductive ==
  ASSUME TypeOK, RunsAKernel, [Next]_vars
  PROVE  RunsAKernel'
  <1>1. ASSUME NEW v \in Worker, StartKernel(v) PROVE RunsAKernel'
    <2>1. PICK t \in Shard : running' = [running EXCEPT ![v] = t]
      BY Zenon, <1>1 DEF StartKernel
    <2>2. t # NoShard /\ pc' = [pc EXCEPT ![v] = "run"]
      BY SMTT(30), <1>1, Constants DEF StartKernel, NoShard, Shard
    <2> QED BY <2>1, <2>2 DEF RunsAKernel, TypeOK
  <1>2. ASSUME NEW v \in Worker, KernelDone(v) PROVE RunsAKernel'
    BY <1>2 DEF KernelDone, RunsAKernel, TypeOK
  <1>3. CASE RequestsKept
    BY Zenon, <1>3 DEF RunsAKernel, RequestsKept
  <1>4. CASE AssignTasks \/ reap_one_task \/ Dispatch
    BY Zenon, <1>4 DEF AssignTasks, reap_one_task, Dispatch, loopVars, RunsAKernel
  <1> QED BY Zenon, <1>1, <1>2, <1>3, <1>4, Steps

(* A shard becomes dirty when a worker learns that another one serves it.  *)
LEMMA DirtyInductive ==
  ASSUME TypeOK, Partitioned, DirtyOwned, [Next]_vars
  PROVE  DirtyOwned'
  <1>1. ASSUME NEW w \in Worker, HandleShardAssignment(w) PROVE DirtyOwned'
    <2> SUFFICES ASSUME NEW v \in Worker, NEW s \in dirty'[v] PROVE owner'[v][s] \in Worker
      BY Zenon DEF DirtyOwned
    <2>1. CASE v # w
      <3>1. dirty'[v] = dirty[v] /\ owner'[v] = owner[v]
        BY <1>1, <2>1 DEF HandleShardAssignment, TypeOK
      <3> QED BY ZenonT(30), <3>1 DEF DirtyOwned
    <2>2. CASE v = w
      <3>1. /\ \A t \in Shard : owner'[w][t] = NewOwner(w, t)
            /\ \/ s \in dirty[w]
               \/ s \in Shard /\ owner[w][s] = w /\ NewOwner(w, s) # w
        BY SMTT(30), <1>1, <2>2 DEF HandleShardAssignment, TypeOK
      <3>2. s \in Shard
        BY <3>1 DEF TypeOK
      <3>3. NewOwner(w, s) \in Worker \/ NewOwner(w, s) = owner[w][s]
        BY ZenonT(30), <3>2, NewOwnerIs
      <3> QED BY ZenonT(30), <2>2, <3>1, <3>2, <3>3 DEF DirtyOwned
    <2> QED BY <2>1, <2>2
  <1>2. CASE ViewsKept
    BY Zenon, <1>2 DEF DirtyOwned, ViewsKept
  <1> QED BY Zenon, <1>1, <1>2, Steps

(* A new assignment makes every worker outdated, and handling the          *)
(* broadcast makes the worker informed.                                    *)
LEMMA InformedInductive ==
  ASSUME TypeOK, Partitioned, Informed, [Next]_vars
  PROVE  Informed'
  <1>0. call \in Nat
    BY CallsTyped DEF TypeOK
  <1>1. CASE Run /\ call = 0
    <2>1. \A v \in Worker : Outdated(v)'
      BY <1>1 DEF Run, Broadcast, Outdated
    <2> QED BY Zenon, <2>1 DEF Informed
  <1>2. CASE Run /\ call # 0 /\ ViewsKept
    <2>1. UNCHANGED <<shards, owner>> /\ call > 0
      BY <1>0, <1>2 DEF Run, ViewsKept
    <2>2. \A v \in Worker : ~ Outdated(v)
      BY <1>2 DEF Run, Outdated
    <2> QED BY Zenon, <2>1, <2>2 DEF Informed
  <1>3. CASE steal_work
    <2>1. \A v \in Worker : Outdated(v)'
      BY <1>3 DEF steal_work, Outdated
    <2> QED BY Zenon, <2>1 DEF Informed
  <1>4. ASSUME NEW u \in Worker, HandleShardAssignment(u), AssignmentKept PROVE Informed'
    <2> SUFFICES ASSUME NEW v \in Worker, call' > 0, ~ Outdated(v)',
                        NEW w \in Worker, NEW s \in shards'[w]
                 PROVE  owner'[v][s] = w
      BY Zenon DEF Informed
    <2>1. call > 0 /\ s \in Shard /\ s \in shards[w]
      BY <1>4 DEF AssignmentKept, TypeOK
    <2>2. CASE v = u
      <3>1. owner'[v][s] = NewOwner(v, s)
        BY <1>4, <2>1, <2>2 DEF HandleShardAssignment, TypeOK
      <3>2. Serves(w, s)
        BY Zenon, <2>1, OneServer
      <3> QED BY ZenonT(30), <2>1, <3>1, <3>2, NewOwnerIs
    <2>3. CASE v # u
      <3>1. owner'[v] = owner[v] /\ sync'[v] = sync[v] /\ UNCHANGED <<master, need_update>>
        BY <1>4, <2>3 DEF HandleShardAssignment, TypeOK, runVars
      <3>2. ~ Outdated(v)
        BY Zenon, <3>1 DEF Outdated
      <3>3. owner[v][s] = w
        BY Zenon, <2>1, <3>2 DEF Informed
      <3> QED BY ZenonT(30), <3>1, <3>3
    <2> QED BY <2>2, <2>3
  <1>5. CASE AssignmentKept /\ ViewsKept /\ NewsKept
    <2>1. UNCHANGED <<call, shards, owner>> /\ \A v \in Worker : Outdated(v) => Outdated(v)'
      BY Zenon, <1>5 DEF AssignmentKept, ViewsKept, NewsKept
    <2> QED BY Zenon, <2>1 DEF Informed
  <1> QED BY ZenonT(30), <1>1, <1>2, <1>3, <1>4, <1>5, Steps

(* A request is sent when the broadcasts have been answered, and no theft  *)
(* takes the shard while the request waits: the worker that reads it owns  *)
(* the shard.                                                              *)
LEMMA RequestsInductive ==
  ASSUME TypeOK, Partitioned, TasksPlaced, ActiveOnce, Informed, RequestsServable,
         [Next]_vars
  PROVE  RequestsServable'
  <1>0. call \in Nat /\ kernels \subseteq Worker \X Shard
    BY CallsTyped DEF TypeOK
  <1>k. ASSUME kernels' \subseteq kernels, owner' = owner PROVE RequestsServable'
    BY <1>k DEF RequestsServable
  <1>n. ASSUME NEW w \in Worker, NEW s \in Shard, s \in shards[w], ~ Outdated(w)
        PROVE  owner[w][s] = w
    <2>1. call > 0
      BY <1>0, <1>n DEF Partitioned
    <2> QED BY Zenon, <1>n, <2>1 DEF Informed
  <1>1. ASSUME NEW wk, wk \in WorkType, dispatch_work(wk), owner' = owner,
               \A w \in Worker, s \in Shard : wk[w][s] = "pending" => s \in shards[w],
               \A w \in Worker : ~ Outdated(w)
        PROVE  RequestsServable'
    <2> SUFFICES ASSUME NEW k \in kernels' PROVE owner'[k[1]][k[2]] = k[1]
      BY Zenon DEF RequestsServable
    <2>1. k \in Worker \X Shard
      BY Zenon, <1>0, <1>1, DispatchEffect
    <2>2. PICK w \in Worker, s \in Shard : k = <<w, s>>
      BY <2>1
    <2>3. <<w, s>> \in kernels \/ wk[w][s] = "pending"
      <3>1. \A v \in Worker, t \in Shard :
              \/ /\ work'[v][t] = wk[v][t]
                 /\ <<v, t>> \in kernels' <=> <<v, t>> \in kernels
              \/ /\ wk[v][t] = "pending" /\ work'[v][t] = "active"
                 /\ <<v, t>> \in kernels'
        BY ZenonT(30), <1>0, <1>1, DispatchEffect
      <3> QED BY Zenon, <2>2, <3>1
    <2>4. <<w, s>> \in kernels => owner[w][s] = w
      BY DEF RequestsServable
    <2>5. owner[w][s] = w
      BY Zenon, <2>3, <2>4, <1>1, <1>n
    <2> QED BY <2>2, <2>5, <1>1
  <1>2. CASE AssignTasks
    <2>1. owner' = owner /\ dispatch_work(assign_tasks) /\ \A w \in Worker : ~ Outdated(w)
      BY <1>2 DEF AssignTasks, viewVars, Synced, Outdated
    <2>2. assign_tasks \in WorkType
      BY Zenon, WorkTyped
    <2>3. \A w \in Worker, s \in Shard : assign_tasks[w][s] = "pending" => s \in shards[w]
      BY Zenon, NewTasks
    <2> QED BY ZenonT(30), <1>1, <2>1, <2>2, <2>3
  <1>3. CASE Dispatch
    <2>1. owner' = owner /\ \A w \in Worker : ~ Outdated(w)
      BY <1>3 DEF Dispatch, viewVars, Outdated
    <2>2. work \in WorkType
      BY Zenon, WorkTyped
    <2>3. \A w \in Worker, s \in Shard : work[w][s] = "pending" => s \in shards[w]
      BY DEF TasksPlaced
    <2>4. dispatch_work(work) \/ kernels' = kernels
      BY <1>3 DEF Dispatch
    <2> QED BY ZenonT(30), <1>1, <1>k, <2>1, <2>2, <2>3, <2>4
  <1>4. ASSUME NEW v \in Worker, HandleShardAssignment(v) PROVE RequestsServable'
    <2> SUFFICES ASSUME NEW k \in kernels' PROVE owner'[k[1]][k[2]] = k[1]
      BY Zenon DEF RequestsServable
    <2>1. kernels' = kernels
      BY <1>4 DEF HandleShardAssignment
    <2>2. PICK w \in Worker, s \in Shard : k = <<w, s>>
      BY SMTT(30), <1>0, <2>1
    <2>3. s \in shards[w]
      BY <2>1, <2>2 DEF ActiveOnce, TasksPlaced
    <2>4. NewOwner(w, s) = w
      BY ZenonT(30), <2>3, OneServer, NewOwnerIs
    <2>5. owner'[w][s] = IF w = v THEN NewOwner(w, s) ELSE owner[w][s]
      BY SMTT(30), <1>4 DEF HandleShardAssignment, TypeOK
    <2>6. owner[w][s] = w
      BY <2>1, <2>2 DEF RequestsServable
    <2> QED BY <2>2, <2>4, <2>5, <2>6
  <1>5. CASE RequestsKept /\ ViewsKept
    <2>1. kernels' \subseteq kernels /\ owner' = owner
      BY Zenon, <1>5 DEF RequestsKept, ViewsKept
    <2> QED BY Zenon, <2>1, <1>k
  <1>6. ASSUME reap_one_task, ViewsKept PROVE RequestsServable'
    <2>1. kernels' \subseteq kernels /\ owner' = owner
      BY Zenon, <1>6 DEF reap_one_task, ViewsKept
    <2> QED BY Zenon, <2>1, <1>k
  <1>7. ASSUME NEW v \in Worker, StartKernel(v) \/ KernelDone(v), ViewsKept
        PROVE  RequestsServable'
    <2>1. kernels' \subseteq kernels /\ owner' = owner
      BY Zenon, <1>7 DEF StartKernel, KernelDone, ViewsKept
    <2> QED BY Zenon, <2>1, <1>k
  <1> QED BY ZenonT(30), <1>2, <1>3, <1>4, <1>5, <1>6, <1>7, Steps

=============================================================================
