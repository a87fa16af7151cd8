-------------------------- MODULE SchedulerLemmas ---------------------------
(***************************************************************************)
(* The facts behind the proofs about the scheduler of                      *)
(* src/master/master.cc, for any number of workers, shards and calls: the  *)
(* inductive invariant, what the first assignment, dispatching, stealing   *)
(* and reaping do to the tasks, and what each step leaves alone.           *)
(*                                                                         *)
(* The properties themselves are not inductive. That the CHECKs of         *)
(* set_finished hold needs to know where the request of an active task is  *)
(* (ActiveOnce); that a request reaches a worker that owns the shard needs *)
(* to know that a shard has one server (Partitioned), that its task is     *)
(* kept there (TasksPlaced) and when the workers know of it (Informed);    *)
(* that the counters are right at the end of a call needs to know that no  *)
(* task is left between two calls (NothingLeft).                           *)
(***************************************************************************)
EXTENDS Scheduler, FiniteSetTheorems, WellFoundedInduction, TLAPS

-----------------------------------------------------------------------------
(* The inductive invariant                                                  *)

(* w is the only worker that serves s.                                      *)
Serves(w, s) == \A v \in Worker : s \in shards[v] <=> v = w

(* Before the first call nobody serves anything; then every shard has one   *)
(* server.                                                                  *)
Partitioned ==
  IF call = 0 THEN \A w \in Worker : shards[w] = {}
  ELSE \A s \in Shard : \E w \in Worker : Serves(w, s)

(* A task is kept where its shard is served, and made for the current call. *)
TasksPlaced ==
  \A w \in Worker, s \in Shard : work[w][s] # "none" =>
    /\ s \in shards[w]
    /\ master # "assign" => s \in Calls[call]

(* The request of an active task is under way, being run, or answered, and  *)
(* never two of these.                                                      *)
ActiveOnce ==
  \A w \in Worker, s \in Shard :
    /\ work[w][s] = "active" <=>
         <<w, s>> \in kernels \/ running[w] = s \/ <<w, s>> \in done
    /\ ~ (<<w, s>> \in kernels /\ running[w] = s)
    /\ ~ (<<w, s>> \in kernels /\ <<w, s>> \in done)
    /\ ~ (running[w] = s /\ <<w, s>> \in done)

(* A worker is in the kernel exactly while it has a shard to run it on.    *)
RunsAKernel == \A w \in Worker : pc[w] = "run" <=> running[w] # NoShard

(* Between two calls no task is left.                                       *)
NothingLeft ==
  master \in {"flush", "apply", "ready", "assign"} =>
    \A w \in Worker, s \in Shard : work[w][s] \in {"none", "finished"}

(* v may be told of an assignment that has changed.                         *)
Outdated(v) ==
  \/ master \in {"assign", "update"} /\ sync[v] = "sent"
  \/ master = "steal" /\ need_update

(* A worker that is not outdated knows the server of every shard.          *)
Informed ==
  \A v \in Worker : call > 0 /\ ~ Outdated(v) =>
    \A w \in Worker : \A s \in shards[w] : owner[v][s] = w

(* A shard that was lost has a new owner.                                   *)
DirtyOwned == \A w \in Worker : \A s \in dirty[w] : owner[w][s] \in Worker

(* The shards with a task in this state, the finished tasks, and those      *)
(* handed out.                                                              *)
In(wk, status) == {s \in Shard : \E w \in Worker : wk[w][s] = status}
Over(wk) == In(wk, "finished")
Begun(wk) == In(wk, "finished") \cup In(wk, "active")

(* The counters count the tasks of the call, and a call ends with all.      *)
Counted ==
  /\ finished_ = IF master = "assign" THEN 0 ELSE Cardinality(Over(work))
  /\ dispatched_ = IF master = "assign" THEN 0 ELSE Cardinality(Begun(work))
  /\ master \in {"flush", "apply", "ready"} /\ call > 0 =>
       finished_ = Cardinality(Calls[call])

(* Tables are assigned by the first call.                                   *)
Called == master # "ready" => call # 0

(* All of them together: the inductive invariant.                          *)
IInv ==
  /\ TypeOK /\ Called /\ Partitioned /\ TasksPlaced /\ ActiveOnce /\ RunsAKernel
  /\ NothingLeft /\ Informed /\ RequestsServable /\ DirtyOwned /\ Counted
  /\ AllServe
-----------------------------------------------------------------------------
(* Facts about finite sets and numbers                                      *)

(* What the proofs use of SchedulerAssumption: there are workers, and not  *)
(* all of them are dead.                                                   *)
LEMMA Constants ==
  /\ NumWorkers \in Nat /\ NumWorkers > 0 /\ NumShards \in Nat
  /\ \A d \in DeadWorkers : \E w \in Worker : w \notin d
  <1>1. \A d \in DeadWorkers : d \subseteq Worker /\ d # Worker
    BY Zenon, SchedulerAssumption
  <1>2. \A d \in DeadWorkers : \E w \in Worker : w \notin d
    BY Zenon, <1>1
  <1>3. NumWorkers \in Nat \ {0} /\ NumShards \in Nat \ {0}
    BY ZenonT(30), SchedulerAssumption
  <1> QED BY <1>2, <1>3

(* A set of shards is finite and has at most NumShards elements.           *)
LEMMA ShardsFinite ==
  ASSUME NEW S \in SUBSET Shard
  PROVE  /\ IsFiniteSet(S) /\ Cardinality(S) \in 0 .. NumShards
         /\ Cardinality(Shard) = NumShards
  <1>1. IsFiniteSet(Shard) /\ Cardinality(Shard) = NumShards
    <2>1. 0 \in Int /\ NumShards - 1 \in Int
      BY Constants
    <2>2. /\ IsFiniteSet(0 .. NumShards - 1)
          /\ Cardinality(0 .. NumShards - 1) =
               IF 0 > NumShards - 1 THEN 0 ELSE NumShards - 1 - 0 + 1
      BY Zenon, <2>1, FS_Interval
    <2> QED BY <2>2, Constants DEF Shard
  <1>2. IsFiniteSet(S) /\ Cardinality(S) <= NumShards
    BY Zenon, <1>1, FS_Subset
  <1>3. Cardinality(S) \in Nat
    BY Zenon, <1>2, FS_CardinalityType
  <1> QED BY <1>1, <1>2, <1>3, Constants

(* There are finitely many workers.                                        *)
LEMMA WorkersFinite == IsFiniteSet(Worker)
  <1>1. 0 \in Int /\ NumWorkers - 1 \in Int
    BY Constants
  <1> QED BY Zenon, <1>1, FS_Interval DEF Worker

(* Every non-empty set of natural numbers has a least element.              *)
LEMMA LeastExists ==
  ASSUME NEW T \in SUBSET Nat, T # {}
  PROVE  \E x \in T : \A y \in T : x <= y
  <1>1. IsWellFoundedOn(OpToRel(<, Nat), Nat)
    BY NatLessThanWellFounded
  <1>2. PICK x \in T : \A y \in T : ~ (<<y, x>> \in OpToRel(<, Nat))
    BY <1>1, WFMin, Zenon
  <1>3. \A y \in T : y < x => <<y, x>> \in OpToRel(<, Nat)
    BY DEF OpToRel
  <1>4. \A y \in T : ~ (y < x)
    BY <1>2, <1>3, Zenon
  <1> QED BY <1>4

(* Induction, for the set of the numbers that have the property in question.*)
LEMMA SetInduction ==
  ASSUME NEW S, 0 \in S, \A n \in Nat : n \in S => n + 1 \in S
  PROVE  Nat \subseteq S
  <1> DEFINE T == Nat \ S
  <1> SUFFICES ASSUME T # {} PROVE FALSE
    OBVIOUS
  <1>1. PICK x \in T : \A y \in T : x <= y
    BY Zenon, LeastExists
  <1>2. x - 1 \in Nat /\ x - 1 \in S
    BY <1>1
  <1> QED BY <1>2

-----------------------------------------------------------------------------
(* The first assignment                                                     *)

Assignment == [Worker -> SUBSET Shard]

(* assign_worker finds an alive worker, and none with fewer shards.         *)
LEMMA BestExists ==
  ASSUME dead \in DeadWorkers, NEW sh \in Assignment
  PROVE  /\ Best(sh) \in Worker /\ alive(Best(sh))
         /\ \A v \in Worker : alive(v) =>
              Cardinality(sh[Best(sh)]) <= Cardinality(sh[v])
  <1> DEFINE size(w) == Cardinality(sh[w])
             A == {w \in Worker : alive(w)}
             Sizes == {size(w) : w \in A}
  <1>1. \A w \in Worker : size(w) \in Nat
    <2>1. \A w \in Worker : sh[w] \in SUBSET Shard
      BY DEF Assignment
    <2>2. \A w \in Worker : size(w) \in 0 .. NumShards
      BY Zenon, <2>1, ShardsFinite
    <2> QED BY <2>2, Constants
  <1>2. Worker \subseteq Nat
    BY Constants DEF Worker
  <1> HIDE DEF size
  <1>3. A # {}
    BY Zenon, Constants DEF alive
  <1>4. Sizes \in SUBSET Nat /\ Sizes # {}
    BY Zenon, <1>1, <1>3
  <1>5. PICK c \in Sizes : \A d \in Sizes : c <= d
    BY Zenon, <1>4, LeastExists
  <1> DEFINE F == {w \in A : size(w) = c}
  <1>6. F \in SUBSET Nat /\ F # {}
    BY Zenon, <1>2, <1>5
  <1>7. PICK w \in F : \A v \in F : w <= v
    BY Zenon, <1>6, LeastExists
  <1>8. ASSUME NEW v \in Worker, alive(v)
        PROVE  size(w) < size(v) \/ (size(w) = size(v) /\ w <= v)
    <2>1. size(v) \in Sizes /\ size(w) = c /\ c <= size(v)
      BY Zenon, <1>5, <1>7, <1>8
    <2>2. CASE v \in F
      BY Zenon, <1>7, <2>1, <2>2
    <2>3. CASE v \notin F
      <3>1. size(v) # c
        BY Zenon, <2>3, <1>8
      <3>2. size(v) \in Nat /\ c \in Nat
        BY Zenon, <1>1, <1>4
      <3> HIDE DEF F
      <3> QED BY <2>1, <3>1, <3>2
    <2> QED BY <2>2, <2>3
  <1> DEFINE IsBest(b) ==
         /\ alive(b)
         /\ \A v \in Worker : alive(v) =>
              \/ Cardinality(sh[b]) < Cardinality(sh[v])
              \/ Cardinality(sh[b]) = Cardinality(sh[v]) /\ b <= v
  <1>9. w \in Worker /\ IsBest(w)
    BY Zenon, <1>7, <1>8 DEF size
  <1>10. Best(sh) \in Worker /\ IsBest(Best(sh))
    <2> HIDE DEF IsBest
    <2>1. \E b \in Worker : IsBest(b)
      BY Zenon, <1>9
    <2>2. Best(sh) = CHOOSE b \in Worker : IsBest(b)
      BY Zenon DEF Best, IsBest
    <2> QED BY Zenon, <2>1, <2>2
  <1>11. \A v \in Worker : Cardinality(sh[v]) \in Nat
    BY Zenon, <1>1 DEF size
  <1> QED BY <1>10, <1>11

(* assign_tables is well defined, one shard after the other.                *)
LEMMA AssignedSteps ==
  ASSUME dead \in DeadWorkers
  PROVE  /\ \A n \in 0 .. NumShards : assigned[n] \in Assignment
         /\ assigned[0] = [w \in Worker |-> {}]
         /\ \A n \in Shard : assigned[n + 1] = assign_worker(assigned[n], n)
  <1> DEFINE N == NumShards
             None == [w \in Worker |-> {}]
             Upto(m, f) ==
               /\ f \in [0 .. N -> Assignment] /\ f[0] = None
               /\ \A n \in Shard : n < m => f[n + 1] = assign_worker(f[n], n)
             S == {m \in Nat : \E f : Upto(m, f)}
  <1>0. ASSUME NEW sh \in Assignment, NEW s \in Shard
        PROVE  assign_worker(sh, s) \in Assignment
    <2>1. Best(sh) \in Worker
      BY Zenon, BestExists
    <2> QED BY <2>1 DEF assign_worker, Assignment
  <1>a. N \in Nat /\ Shard = 0 .. N - 1
    BY Constants DEF Shard
  <1>b. None \in Assignment
    BY DEF Assignment
  <1> HIDE DEF N, None
  <1>1. 0 \in S
    <2>1. Upto(0, [n \in 0 .. N |-> None])
      BY <1>a, <1>b
    <2> HIDE DEF Upto
    <2> QED BY <2>1
  <1>2. ASSUME NEW m \in Nat, m \in S PROVE m + 1 \in S
    <2>1. PICK f : Upto(m, f)
      BY <1>2, Zenon
    <2>2. CASE m >= N
      <3>1. Upto(m + 1, f)
        BY <2>1, <2>2, <1>a
      <3> HIDE DEF Upto
      <3> QED BY <3>1
    <2>3. CASE m < N
      <3>1. m \in Shard /\ f[m] \in Assignment
        BY <2>1, <2>3, <1>a
      <3>2. PICK t \in Assignment : t = assign_worker(f[m], m)
        BY Zenon, <3>1, <1>0
      <3> DEFINE g == [f EXCEPT ![m + 1] = t]
      <3>3. /\ g \in [0 .. N -> Assignment]
            /\ \A n \in 0 .. N : g[n] = IF n = m + 1 THEN t ELSE f[n]
        BY Zenon, <2>1, <2>3, <3>2
      <3>4. m + 1 \in 0 .. N /\ 0 \in 0 .. N /\ 0 # m + 1 /\ m \in 0 .. N /\ m # m + 1
        BY <2>3, <1>a
      <3> HIDE DEF g
      <3>5. ASSUME NEW n \in Shard, n < m + 1
            PROVE  g[n + 1] = assign_worker(g[n], n)
        <4>1. CASE n = m
          BY Zenon, <4>1, <3>2, <3>3, <3>4
        <4>2. CASE n < m
          <5>1. n \in 0 .. N /\ n + 1 \in 0 .. N /\ n # m + 1 /\ n + 1 # m + 1
            BY <4>2, <1>a
          <5> QED BY Zenon, <2>1, <3>3, <4>2, <5>1
        <4>3. n = m \/ n < m
          BY <3>5, <1>a
        <4> QED BY <4>1, <4>2, <4>3
      <3>6. Upto(m + 1, g)
        BY Zenon, <2>1, <3>3, <3>4, <3>5
      <3> HIDE DEF Upto
      <3> QED BY <3>6
    <2> HIDE DEF S
    <2> QED BY <2>2, <2>3, <1>a
  <1>3. PICK f : Upto(N, f)
    <2> HIDE DEF Upto
    <2>1. Nat \subseteq S
      <3> HIDE DEF S
      <3> QED BY Zenon, <1>1, <1>2, SetInduction
    <2> QED BY Zenon, <2>1, <1>a
  <1> DEFINE Equation(h) ==
        h = [n \in 0 .. NumShards |->
               IF n = 0 THEN [w \in Worker |-> {}]
               ELSE assign_worker(h[n - 1], n - 1)]
  <1>4. Equation(f)
    <2>1. ASSUME NEW n \in 0 .. N
          PROVE  f[n] = IF n = 0 THEN None ELSE assign_worker(f[n - 1], n - 1)
      <3>1. CASE n = 0
        BY Zenon, <3>1, <1>3
      <3>2. CASE n # 0
        <4>1. n - 1 \in Shard /\ n - 1 < N /\ (n - 1) + 1 = n
          BY <3>2, <1>a
        <4> QED BY Zenon, <3>2, <4>1, <1>3
      <3> QED BY <3>1, <3>2
    <2>2. f = [n \in 0 .. N |->
                 IF n = 0 THEN None ELSE assign_worker(f[n - 1], n - 1)]
      BY Zenon, <2>1, <1>3
    <2> QED BY Zenon, <2>2 DEF N, None
  <1>5. Equation(assigned)
    <2> HIDE DEF Equation
    <2>1. assigned = CHOOSE h : Equation(h)
      BY Zenon DEF assigned, Equation
    <2> QED BY Zenon, <2>1, <1>4
  <1>6. \A n \in 0 .. N : assigned[n] =
          IF n = 0 THEN None ELSE assign_worker(assigned[n - 1], n - 1)
    BY Zenon, <1>5 DEF N, None
  <1>7. assigned[0] = None
    <2>1. 0 \in 0 .. N
      BY <1>a
    <2> QED BY Zenon, <2>1, <1>6
  <1>8. ASSUME NEW n \in Shard
        PROVE  assigned[n + 1] = assign_worker(assigned[n], n)
    <2>1. n + 1 \in 0 .. N /\ n + 1 # 0 /\ (n + 1) - 1 = n
      BY <1>a
    <2> QED BY Zenon, <2>1, <1>6
  <1> DEFINE T == {n \in Nat : n <= N => assigned[n] \in Assignment}
  <1>9. Nat \subseteq T
    <2>1. 0 \in T
      BY Zenon, <1>7, <1>b
    <2>2. ASSUME NEW n \in Nat, n \in T PROVE n + 1 \in T
      <3>0. n + 1 \in Nat
        OBVIOUS
      <3> SUFFICES ASSUME n + 1 <= N PROVE assigned[n + 1] \in Assignment
        BY Zenon, <3>0
      <3>1. n \in Shard /\ n <= N
        BY <1>a
      <3> QED BY Zenon, <3>1, <2>2, <1>0, <1>8
    <2> HIDE DEF T
    <2> QED BY Zenon, <2>1, <2>2, SetInduction
  <1>10. \A n \in 0 .. N : n \in Nat /\ n <= N
    BY <1>a
  <1> QED BY Zenon, <1>7, <1>8, <1>9, <1>10 DEF N, None

(* What assign_tables keeps while it hands out the first n shards: each has *)
(* one server, which is alive, and no worker gets two while another has     *)
(* none.                                                                    *)
Spread(n, sh) ==
  /\ \A w \in Worker : sh[w] \subseteq 0 .. n - 1
  /\ \A s \in 0 .. n - 1 : \E w \in Worker : \A v \in Worker : s \in sh[v] <=> v = w
  /\ \A w \in Worker : ~ alive(w) => sh[w] = {}
  /\ (\E w \in Worker : alive(w) /\ sh[w] = {}) =>
       \A v \in Worker : \A s, t \in sh[v] : s = t

(* assign_worker gives the next shard to one alive worker, one with the    *)
(* fewest shards, so Spread is kept.                                       *)
LEMMA SpreadStep ==
  ASSUME dead \in DeadWorkers, NEW sh \in Assignment, NEW n \in Shard, Spread(n, sh)
  PROVE  Spread(n + 1, assign_worker(sh, n))
  <1>1. PICK b \in Worker : b = Best(sh) /\ alive(b) /\
          \A v \in Worker : alive(v) => Cardinality(sh[b]) <= Cardinality(sh[v])
    BY Zenon, BestExists
  <1>2. PICK t : t = assign_worker(sh, n)
    OBVIOUS
  <1>3. \A w \in Worker : t[w] = IF w = b THEN sh[w] \cup {n} ELSE sh[w]
    BY <1>1, <1>2 DEF assign_worker, Assignment
  <1>4. n \in Nat /\ 0 .. n = 0 .. (n + 1) - 1 /\ n \notin 0 .. n - 1
        /\ 0 .. n = (0 .. n - 1) \cup {n}
    BY Constants DEF Shard
  <1>5. \A w \in Worker : t[w] \subseteq 0 .. n
    BY ZenonT(30), <1>3, <1>4 DEF Spread
  <1>6. ASSUME NEW s \in 0 .. n
        PROVE  \E w \in Worker : \A v \in Worker : s \in t[v] <=> v = w
    <2>1. CASE s = n
      <3>1. \A v \in Worker : n \notin sh[v]
        BY Zenon, <1>4 DEF Spread
      <3>2. \A v \in Worker : n \in t[v] <=> v = b
        BY Zenon, <3>1, <1>3
      <3> QED BY Zenon, <2>1, <3>2
    <2>2. CASE s \in 0 .. n - 1
      <3>1. s # n
        BY Zenon, <2>2, <1>4
      <3>2. PICK w \in Worker : \A v \in Worker : s \in sh[v] <=> v = w
        BY Zenon, <2>2 DEF Spread
      <3>3. \A v \in Worker : s \in t[v] <=> v = w
        BY Zenon, <3>1, <3>2, <1>3
      <3> QED BY Zenon, <3>3
    <2> QED BY Zenon, <2>1, <2>2, <1>4
  <1>7. \A w \in Worker : ~ alive(w) => t[w] = {}
    BY ZenonT(30), <1>1, <1>3 DEF Spread
  <1>8. ASSUME NEW w \in Worker, alive(w), t[w] = {}
        PROVE  \A v \in Worker : \A r, s \in t[v] : r = s
    <2>1. w # b /\ sh[w] = {}
      BY Zenon, <1>3, <1>8
    <2>2. sh[b] = {}
      <3>1. sh[b] \in SUBSET Shard
        BY DEF Assignment
      <3>2. Cardinality(sh[b]) <= 0 /\ IsFiniteSet(sh[b]) /\ Cardinality(sh[b]) \in 0 .. NumShards
        BY Zenon, <3>1, <2>1, <1>1, <1>8, ShardsFinite, FS_EmptySet
      <3>3. Cardinality(sh[b]) = 0
        BY <3>2, Constants
      <3> QED BY Zenon, <3>2, <3>3, FS_EmptySet
    <2>3. \A v \in Worker : \A r, s \in sh[v] : r = s
      BY Zenon, <1>8, <2>1 DEF Spread
    <2>4. t[b] = {n}
      BY Zenon, <2>2, <1>3
    <2>5. \A v \in Worker : v # b => t[v] = sh[v]
      BY Zenon, <1>3
    <2> SUFFICES ASSUME NEW v \in Worker, NEW r \in t[v], NEW s \in t[v] PROVE r = s
      BY Zenon
    <2>6. CASE v = b
      BY <2>4, <2>6
    <2>7. CASE v # b
      <3>1. r \in sh[v] /\ s \in sh[v]
        BY Zenon, <2>5, <2>7
      <3> QED BY Zenon, <3>1, <2>3
    <2> QED BY <2>6, <2>7
  <1>9. Spread(n + 1, t)
    <2>1. \A w \in Worker : t[w] \subseteq 0 .. (n + 1) - 1
      BY Zenon, <1>4, <1>5
    <2>2. \A s \in 0 .. (n + 1) - 1 :
            \E w \in Worker : \A v \in Worker : s \in t[v] <=> v = w
      BY Zenon, <1>4, <1>6
    <2> QED BY Zenon, <2>1, <2>2, <1>7, <1>8 DEF Spread
  <1> QED BY Zenon, <1>2, <1>9

(* After assign_tables every shard has one server, the dead workers serve   *)
(* nothing, and if there are enough shards the alive ones all serve some.   *)
LEMMA FirstAssignment ==
  ASSUME dead \in DeadWorkers
  PROVE  /\ assigned[NumShards] \in Assignment
         /\ \A s \in Shard : \E w \in Worker : \A v \in Worker :
              s \in assigned[NumShards][v] <=> v = w
         /\ NumShards >= Cardinality(Worker \ dead) =>
              \A w \in Worker : alive(w) <=> assigned[NumShards][w] # {}
  <1> DEFINE N == NumShards
             T == {n \in Nat : n <= N => Spread(n, assigned[n])}
  <1>a. N \in Nat /\ Shard = 0 .. N - 1
    BY Constants DEF Shard
  <1>1. Nat \subseteq T
    <2>1. 0 \in T
      <3>1. assigned[0] = [w \in Worker |-> {}]
        BY Zenon, AssignedSteps
      <3>2. PICK sh : sh = assigned[0]
        OBVIOUS
      <3>3. \A w \in Worker : sh[w] = {}
        BY <3>1, <3>2
      <3>4. Spread(0, sh)
        BY <3>3 DEF Spread
      <3> QED BY Zenon, <3>2, <3>4
    <2>2. ASSUME NEW n \in Nat, n \in T PROVE n + 1 \in T
      <3>0. n + 1 \in Nat
        OBVIOUS
      <3> SUFFICES ASSUME n + 1 <= N PROVE Spread(n + 1, assigned[n + 1])
        BY Zenon, <3>0
      <3>1. n \in Shard /\ n <= N /\ n \in 0 .. NumShards
        BY <1>a
      <3>2. assigned[n] \in Assignment /\ assigned[n + 1] = assign_worker(assigned[n], n)
        BY Zenon, <3>1, AssignedSteps
      <3> QED BY Zenon, <3>1, <3>2, <2>2, SpreadStep
    <2> HIDE DEF T
    <2> QED BY Zenon, <2>1, <2>2, SetInduction
  <1>2. PICK sh : sh = assigned[NumShards]
    OBVIOUS
  <1>3. N <= N /\ N \in 0 .. NumShards
    BY <1>a
  <1>4. sh \in Assignment /\ Spread(N, sh)
    BY Zenon, <1>1, <1>2, <1>3, <1>a, AssignedSteps
  <1>5. \A s \in Shard : \E w \in Worker : \A v \in Worker : s \in sh[v] <=> v = w
    BY Zenon, <1>4, <1>a DEF Spread
  <1>6. ASSUME NumShards >= Cardinality(Worker \ dead), NEW w \in Worker, alive(w), sh[w] = {}
        PROVE  FALSE
    <2> DEFINE server(s) == CHOOSE v \in Worker : s \in sh[v]
               A == (Worker \ dead) \ {w}
               f == [s \in Shard |-> server(s)]
    <2>1. \A s \in Shard : server(s) \in Worker /\ s \in sh[server(s)]
      BY Zenon, <1>5
    <2> HIDE DEF server
    <2>2. \A s \in Shard : server(s) \in A
      BY Zenon, <2>1, <1>4, <1>6 DEF Spread, alive
    <2>3. \A r, s \in Shard : server(r) = server(s) => r = s
      BY Zenon, <2>1, <1>4, <1>6 DEF Spread
    <2>4. f \in Injection(Shard, A)
      BY Zenon, <2>2, <2>3 DEF Injection, IsInjective
    <2>5. IsFiniteSet(Worker \ dead)
      BY Zenon, WorkersFinite, FS_Difference
    <2>6. /\ IsFiniteSet(A)
          /\ Cardinality(A) = Cardinality(Worker \ dead) - 1
      BY Zenon, <2>5, <1>6, FS_RemoveElement DEF alive
    <2>7. Cardinality(Shard) <= Cardinality(A)
      BY Zenon, <2>4, <2>6, FS_Injection
    <2>8. Cardinality(Shard) = NumShards
      BY Zenon, ShardsFinite
    <2>9. Cardinality(Worker \ dead) \in Nat
      BY Zenon, <2>5, FS_CardinalityType
    <2> QED BY <2>6, <2>7, <2>8, <2>9, <1>6, Constants
  <1>7. \A w \in Worker : ~ alive(w) => sh[w] = {}
    BY Zenon, <1>4 DEF Spread
  <1> QED BY Zenon, <1>2, <1>4, <1>5, <1>6, <1>7

-----------------------------------------------------------------------------
(* What the operations do                                                   *)

Status == {"none", "pending", "active", "finished"}
WorkType == [Worker -> [Shard -> Status]]

(* Every call names shards of the table.                                   *)
LEMMA CallsTyped ==
  Len(Calls) \in Nat /\ \A n \in 1 .. Len(Calls) : Calls[n] \in SUBSET Shard
  <1>1. Calls \in Seq(SUBSET Shard)
    BY Zenon, SchedulerAssumption
  <1> QED BY <1>1

(* dispatch_work leaves a task as it is, or makes a pending one active and  *)
(* sends the request for it.                                                *)
LEMMA DispatchEffect ==
  ASSUME NEW wk \in WorkType, kernels \subseteq Worker \X Shard, dispatch_work(wk)
  PROVE  /\ work' \in WorkType
         /\ kernels' \subseteq Worker \X Shard
         /\ \A w \in Worker, s \in Shard :
              \/ /\ work'[w][s] = wk[w][s]
                 /\ <<w, s>> \in kernels' <=> <<w, s>> \in kernels
              \/ /\ wk[w][s] = "pending" /\ work'[w][s] = "active"
                 /\ <<w, s>> \in kernels'
  <1>1. PICK R \in SUBSET Worker : R = Ready(wk)
    BY Zenon DEF Ready
  <1>2. PICK next \in [R -> Shard] :
          /\ \A w \in R : wk[w][next[w]] = "pending"
          /\ work' = [w \in Worker |-> IF w \in R THEN get_next(wk, w, next[w]) ELSE wk[w]]
          /\ kernels' = kernels \cup {<<w, next[w]>> : w \in R}
    BY Zenon, <1>1 DEF dispatch_work
  <1>3. \A w \in Worker : wk[w] \in [Shard -> Status]
    BY DEF WorkType
  <1>4. \A w \in Worker : work'[w] = IF w \in R THEN get_next(wk, w, next[w]) ELSE wk[w]
    BY Zenon, <1>2
  <1>5. \A w \in R : get_next(wk, w, next[w]) \in [Shard -> Status]
    BY <1>2, <1>3 DEF get_next, Status
  <1>6. \A w \in R : \A s \in Shard :
          get_next(wk, w, next[w])[s] = IF s = next[w] THEN "active" ELSE wk[w][s]
    BY <1>2, <1>3 DEF get_next
  <1>7. work' \in WorkType
    BY Zenon, <1>2, <1>3, <1>5 DEF WorkType
  <1>8. kernels' \subseteq Worker \X Shard
    BY <1>2
  <1>9. ASSUME NEW w \in Worker, NEW s \in Shard
        PROVE  <<w, s>> \in kernels' <=> <<w, s>> \in kernels \/ (w \in R /\ s = next[w])
    BY <1>2
  <1>10. ASSUME NEW w \in Worker, NEW s \in Shard, w \in R, s = next[w]
         PROVE  /\ wk[w][s] = "pending" /\ work'[w][s] = "active"
                /\ <<w, s>> \in kernels'
    BY Zenon, <1>2, <1>4, <1>6, <1>9, <1>10
  <1>11. ASSUME NEW w \in Worker, NEW s \in Shard, ~ (w \in R /\ s = next[w])
         PROVE  /\ work'[w][s] = wk[w][s]
                /\ <<w, s>> \in kernels' <=> <<w, s>> \in kernels
    <2>1. ASSUME w \in R PROVE work'[w][s] = wk[w][s]
      <3>1. s # next[w]
        BY Zenon, <2>1, <1>11
      <3>2. get_next(wk, w, next[w])[s] = wk[w][s]
        BY Zenon, <2>1, <3>1, <1>6
      <3> QED BY Zenon, <2>1, <3>2, <1>4
    <2>2. w \notin R => work'[w][s] = wk[w][s]
      BY Zenon, <1>4
    <2>3. <<w, s>> \in kernels' <=> <<w, s>> \in kernels
      BY Zenon, <1>9, <1>11
    <2> QED BY Zenon, <2>1, <2>2, <2>3
  <1> QED BY Zenon, <1>7, <1>8, <1>10, <1>11

(* num_pending, num_active and num_finished count sets of shards.          *)
LEMMA TasksFinite ==
  ASSUME NEW wk, NEW w, NEW status
  PROVE  /\ Tasks(wk, w, status) \in SUBSET Shard
         /\ IsFiniteSet(Tasks(wk, w, status))
         /\ num(wk, w, status) \in 0 .. NumShards
  <1>1. Tasks(wk, w, status) \in SUBSET Shard
    BY DEF Tasks
  <1> QED BY Zenon, <1>1, ShardsFinite DEF num

(* max_element finds a worker.                                              *)
LEMMA MostPendingExists == MostPending \in Worker
  <1> DEFINE size(w) == num(work, w, "pending")
             room(w) == NumShards - size(w)
             Rooms == {room(w) : w \in Worker}
  <1>1. \A w \in Worker : size(w) \in Nat /\ room(w) \in Nat
    <2>1. \A w \in Worker : size(w) \in 0 .. NumShards
      BY Zenon, TasksFinite
    <2> HIDE DEF size
    <2> QED BY <2>1, Constants
  <1>2. Worker \subseteq Nat /\ Worker # {}
    BY Constants DEF Worker
  <1> HIDE DEF room
  <1>3. Rooms \in SUBSET Nat /\ Rooms # {}
    BY Zenon, <1>1, <1>2
  <1>4. PICK c \in Rooms : \A d \in Rooms : c <= d
    BY Zenon, <1>3, LeastExists
  <1> DEFINE F == {w \in Worker : room(w) = c}
  <1>5. F \in SUBSET Nat /\ F # {}
    BY Zenon, <1>2, <1>4
  <1>6. PICK w \in F : \A v \in F : w <= v
    BY Zenon, <1>5, LeastExists
  <1> HIDE DEF size
  <1>7. ASSUME NEW v \in Worker
        PROVE  size(v) < size(w) \/ (~ (size(w) < size(v)) /\ w <= v)
    <2>1. room(v) \in Rooms /\ room(w) = c /\ c <= room(v) /\ w \in Worker
      BY Zenon, <1>4, <1>6
    <2>2. CASE v \in F
      <3>1. w <= v /\ room(v) = c
        BY Zenon, <1>6, <2>2
      <3> HIDE DEF F
      <3> QED BY <3>1, <2>1, <1>1, Constants DEF room
    <2>3. CASE v \notin F
      <3>1. room(v) # c
        BY Zenon, <2>3
      <3> HIDE DEF F
      <3> QED BY <2>1, <3>1, <1>1, Constants DEF room
    <2> QED BY <2>2, <2>3
  <1> DEFINE IsMost(b) ==
         \A v \in Worker :
           \/ PendingCompare(v, b)
           \/ ~ PendingCompare(b, v) /\ b <= v
  <1>8. w \in Worker /\ IsMost(w)
    <2>1. \A v \in Worker : size(v) < size(w) \/ (~ (size(w) < size(v)) /\ w <= v)
      BY Zenon, <1>7
    <2> QED BY Zenon, <1>6, <2>1 DEF PendingCompare, size
  <1> HIDE DEF IsMost
  <1>9. MostPending = CHOOSE b \in Worker : IsMost(b)
    BY Zenon DEF MostPending, IsMost
  <1> QED BY Zenon, <1>8, <1>9

(* steal_work moves one of at least two pending tasks, and its shard, from  *)
(* src to a worker dst that is alive and has nothing to do.                 *)
Stolen(s, src, dst) ==
  /\ src # dst /\ alive(dst)
  /\ work[src][s] = "pending"
  /\ \E t \in Shard : t # s /\ work[src][t] = "pending"
  /\ \A t \in Shard : work[dst][t] \in {"none", "finished"}
  /\ shards' = [w \in Worker |-> IF w = dst THEN shards[w] \cup {s}
                                 ELSE IF w = src THEN shards[w] \ {s} ELSE shards[w]]
  /\ work' \in WorkType
  /\ \A w \in Worker, t \in Shard :
       work'[w][t] = IF t = s /\ w = dst THEN "pending"
                     ELSE IF t = s /\ w = src THEN "none" ELSE work[w][t]
  /\ stolen' = stolen \cup {s}

(* Every steal_work is such a move.                                        *)
LEMMA StealEffect ==
  ASSUME shards \in Assignment, work \in WorkType, turn \in 0 .. NumWorkers, steal_work
  PROVE  \E s \in Shard, src, dst \in Worker : Stolen(s, src, dst)
  <1>1. PICK src \in Worker : src = MostPending
    BY Zenon, MostPendingExists
  <1>2. PICK dst \in Worker : dst = turn
    BY Constants DEF steal_work, Worker
  <1>3. PICK s \in Stealable(src) :
          stolen' = stolen \cup {s} /\ MoveShard(s, src) /\ MoveTask(s, src)
    BY Zenon, <1>1 DEF steal_work
  <1>4. num(work, src, "pending") >= 2 /\ s \in Tasks(work, src, "pending")
    <2>1. ~ (num(work, src, "pending") < 2)
      BY Zenon, <1>3 DEF Stealable
    <2>2. num(work, src, "pending") \in 0 .. NumShards
      BY Zenon, TasksFinite
    <2>3. num(work, src, "pending") >= 2
      BY <2>1, <2>2, Constants
    <2> QED BY Zenon, <2>1, <2>3, <1>3 DEF Stealable
  <1>5. s \in Shard /\ work[src][s] = "pending"
    BY Zenon, <1>4 DEF Tasks
  <1>6. \E t \in Shard : t # s /\ work[src][t] = "pending"
    <2> DEFINE P == Tasks(work, src, "pending")
    <2>1. IsFiniteSet(P) /\ Cardinality(P) \in 0 .. NumShards /\ Cardinality(P) >= 2
      BY Zenon, TasksFinite, <1>4 DEF num
    <2>2. Cardinality(P \ {s}) = Cardinality(P) - 1
      BY Zenon, <2>1, <1>4, FS_RemoveElement
    <2> HIDE DEF P
    <2>3. Cardinality(P \ {s}) # 0
      BY <2>1, <2>2, Constants
    <2>4. P \ {s} # {}
      BY Zenon, <2>3, FS_EmptySet
    <2>5. PICK t \in P : t # s
      BY Zenon, <2>4
    <2> QED BY Zenon, <2>5 DEF P, Tasks
  <1>7. alive(dst) /\ \A t \in Shard : work[dst][t] \in {"none", "finished"}
    BY Zenon, <1>2 DEF steal_work, Idle
  <1>8. src # dst
    <2>1. work[dst][s] # "pending"
      BY <1>5, <1>7
    <2> QED BY Zenon, <2>1, <1>5
  <1>9. shards' = [w \in Worker |-> IF w = dst THEN shards[w] \cup {s}
                                 ELSE IF w = src THEN shards[w] \ {s} ELSE shards[w]]
    BY Zenon, <1>2, <1>3, <1>8 DEF MoveShard, Assignment
  <1>10. /\ work' \in WorkType
         /\ \A w \in Worker, t \in Shard :
              work'[w][t] = IF t = s /\ w = dst THEN "pending"
                            ELSE IF t = s /\ w = src THEN "none" ELSE work[w][t]
    <2>1. work' = [work EXCEPT ![dst][s] = "pending", ![src][s] = "none"]
      BY Zenon, <1>2, <1>3 DEF MoveTask
    <2> QED BY Zenon, <2>1, <1>5, <1>8 DEF WorkType, Status
  <1>11. stolen' = stolen \cup {s}
    BY Zenon, <1>3
  <1>12. Stolen(s, src, dst)
    BY Zenon, <1>5, <1>6, <1>7, <1>8, <1>9, <1>10, <1>11 DEF Stolen
  <1> QED BY Zenon, <1>5, <1>12

(* reap_one_task marks the task of one KERNEL_DONE finished.                *)
LEMMA ReapEffect ==
  ASSUME work \in WorkType, done \subseteq Worker \X Shard, reap_one_task
  PROVE  /\ work' \in WorkType /\ done' \subseteq Worker \X Shard
         /\ \E w \in Worker, s \in Shard :
              /\ <<w, s>> \in done /\ done' = done \ {<<w, s>>}
              /\ \A v \in Worker, t \in Shard :
                   work'[v][t] = IF v = w /\ t = s THEN "finished" ELSE work[v][t]
  <1>1. PICK d \in done : done' = done \ {d} /\ set_finished(d[1], d[2])
    BY Zenon DEF reap_one_task
  <1>2. PICK w \in Worker, s \in Shard : d = <<w, s>>
    BY <1>1
  <1>3. done' = done \ {<<w, s>>} /\ work' = [work EXCEPT ![w][s] = "finished"]
    BY <1>1, <1>2 DEF set_finished
  <1>4. work' \in WorkType
    BY <1>3 DEF WorkType, Status
  <1>5. \A v \in Worker, t \in Shard :
          work'[v][t] = IF v = w /\ t = s THEN "finished" ELSE work[v][t]
    BY <1>3 DEF WorkType
  <1>6. done' \subseteq Worker \X Shard
    BY Zenon, <1>3
  <1> QED BY Zenon, <1>1, <1>2, <1>3, <1>4, <1>5, <1>6

(* A worker learns the server of a shard; without one it keeps its owner.   *)
LEMMA NewOwnerIs ==
  ASSUME NEW w \in Worker, NEW s \in Shard
  PROVE  /\ \A v \in Worker : Serves(v, s) => NewOwner(w, s) = v
         /\ Partitioned => NewOwner(w, s) \in Worker \/ NewOwner(w, s) = owner[w][s]
         /\ call > 0 /\ Partitioned => NewOwner(w, s) \in Worker
  <1> DEFINE serving == {v \in Worker : s \in shards[v]}
  <1>1. NewOwner(w, s) = IF serving = {} THEN owner[w][s]
                         ELSE CHOOSE v \in serving : \A u \in serving : u <= v
    BY Zenon DEF NewOwner
  <1>2. ASSUME NEW v \in Worker, Serves(v, s)
        PROVE  NewOwner(w, s) = v
    <2>1. serving = {v}
      BY Zenon, <1>2 DEF Serves
    <2>2. v <= v
      BY Constants DEF Worker
    <2>3. NewOwner(w, s) = CHOOSE x \in {v} : \A u \in {v} : u <= x
      BY Zenon, <1>1, <2>1
    <2>4. \E x \in {v} : \A u \in {v} : u <= x
      BY Zenon, <2>2
    <2>5. NewOwner(w, s) \in {v}
      BY Zenon, <2>3, <2>4
    <2> QED BY Zenon, <2>5
  <1>3. ASSUME Partitioned, call = 0
        PROVE  NewOwner(w, s) = owner[w][s]
    <2>1. serving = {}
      BY Zenon, <1>3 DEF Partitioned
    <2> QED BY Zenon, <1>1, <2>1
  <1>4. ASSUME Partitioned, call # 0
        PROVE  NewOwner(w, s) \in Worker
    BY Zenon, <1>2, <1>4 DEF Partitioned
  <1>5. call > 0 => call # 0
    OBVIOUS
  <1> QED BY Zenon, <1>2, <1>3, <1>4, <1>5

-----------------------------------------------------------------------------
(* The steps, by what they leave alone                                      *)

(* What a step may leave alone: the assignment of the shards; the tasks    *)
(* and their counters; what the workers know of the assignment; the kernel *)
(* requests.                                                               *)
AssignmentKept == UNCHANGED <<dead, call, shards>>
TasksKept == UNCHANGED <<work, finished_, dispatched_>>
ViewsKept == UNCHANGED <<owner, dirty>>
RequestsKept ==
  /\ UNCHANGED <<kernels, done, running>>
  /\ \A w \in Worker : pc'[w] = "run" <=> pc[w] = "run"

(* The master neither comes to "assign" or leaves it nor ends a call.       *)
PhaseKept ==
  /\ master' = "assign" <=> master = "assign"
  /\ master' \in {"flush", "apply", "ready"} => master \in {"flush", "apply", "ready"}
  /\ master' # "ready" => master # "ready"

(* A worker that is up to date after the step was so before.                *)
NewsKept == \A v \in Worker : Outdated(v) => Outdated(v)'

(* The steps of the master that change tasks or shards leave what the      *)
(* workers know alone.                                                     *)
LEMMA MasterFrames ==
  /\ Run => work' = work /\ ViewsKept /\ RequestsKept
  /\ AssignTasks => AssignmentKept /\ ViewsKept /\ NewsKept
  /\ reap_one_task => AssignmentKept /\ ViewsKept /\ NewsKept
  /\ steal_work => ViewsKept /\ RequestsKept /\ call' = call
  /\ Dispatch => AssignmentKept /\ ViewsKept /\ NewsKept
  <1> USE DEF AssignmentKept, ViewsKept, RequestsKept, NewsKept, Outdated
  <1>1. Run => work' = work /\ ViewsKept /\ RequestsKept
    BY Zenon DEF Run, viewVars, loopVars
  <1>2. AssignTasks => AssignmentKept /\ ViewsKept /\ NewsKept
    BY DEF AssignTasks, viewVars, Synced
  <1>3. reap_one_task => AssignmentKept /\ ViewsKept /\ NewsKept
    BY DEF reap_one_task, viewVars
  <1>4. steal_work => ViewsKept /\ RequestsKept /\ call' = call
    BY Zenon DEF steal_work, viewVars, loopVars, netVars
  <1>5. Dispatch => AssignmentKept /\ ViewsKept /\ NewsKept
    BY DEF Dispatch, viewVars
  <1> QED BY <1>1, <1>2, <1>3, <1>4, <1>5

(* Running a kernel changes neither the tasks the master keeps nor what a  *)
(* worker knows.                                                           *)
LEMMA KernelFrames ==
  ASSUME NEW w \in Worker, StartKernel(w) \/ KernelDone(w)
  PROVE  AssignmentKept /\ TasksKept /\ ViewsKept /\ PhaseKept /\ NewsKept
  <1>1. UNCHANGED <<master, need_update, dead, call, taskVars, owner, dirty, sync>>
    BY Zenon DEF StartKernel, KernelDone, runVars, viewVars
  <1>2. PhaseKept /\ NewsKept
    BY Zenon, <1>1 DEF PhaseKept, NewsKept, Outdated
  <1> QED BY Zenon, <1>1, <1>2 DEF AssignmentKept, TasksKept, ViewsKept, taskVars

(* HandleShardAssignment changes only what one worker knows.               *)
LEMMA HandlerFrames ==
  ASSUME NEW w \in Worker, HandleShardAssignment(w)
  PROVE  AssignmentKept /\ TasksKept /\ RequestsKept /\ PhaseKept
  <1>1. UNCHANGED <<runVars, taskVars, loopVars, kernels, done>>
    BY Zenon DEF HandleShardAssignment
  <1> QED BY Zenon, <1>1 DEF AssignmentKept, TasksKept, RequestsKept, PhaseKept,
             runVars, taskVars, loopVars

(* The other steps of the master send broadcasts and wait for the replies.  *)
LEMMA BroadcastFrames ==
  ASSUME EndSteal \/ TablesUpdated \/ Flush \/ Apply \/ EndBarrier
  PROVE  /\ AssignmentKept /\ TasksKept /\ ViewsKept /\ RequestsKept /\ NewsKept
         /\ Flush \/ PhaseKept
  <1>1. UNCHANGED <<dead, call, need_update, taskVars, viewVars, loopVars, kernels, done>>
    BY Zenon DEF EndSteal, TablesUpdated, Flush, Apply, EndBarrier, netVars
  <1>2. /\ master \in {"steal", "update", "poll", "flush", "apply"}
        /\ Flush \/ PhaseKept
    BY DEF EndSteal, TablesUpdated, Flush, Apply, EndBarrier, PhaseKept
  <1>3. ASSUME EndSteal PROVE NewsKept
    BY <1>3 DEF EndSteal, Broadcast, NewsKept, Outdated
  <1>4. ASSUME TablesUpdated PROVE NewsKept
    BY <1>4 DEF TablesUpdated, Synced, NewsKept, Outdated
  <1>5. ASSUME Flush \/ Apply \/ EndBarrier PROVE NewsKept
    BY <1>5 DEF Flush, Apply, EndBarrier, NewsKept, Outdated
  <1>6. NewsKept
    BY Zenon, <1>3, <1>4, <1>5
  <1> QED BY Zenon, <1>1, <1>2, <1>6 DEF AssignmentKept, TasksKept, ViewsKept,
             RequestsKept, taskVars, viewVars, loopVars

(* The steps of a worker that only concern tainted data, its partitions or  *)
(* its end.                                                                 *)
LEMMA OtherFrames ==
  ASSUME TypeOK, NextWorker \/ Receive \/ UNCHANGED vars \/
           \E w \in Worker : \/ HandleFlush(w) \/ HandleApply(w)
                             \/ CheckNetwork(w) \/ ClearDirty(w)
                             \/ InitStateTable(w) \/ NullPartition(w)
  PROVE  AssignmentKept /\ TasksKept /\ ViewsKept /\ RequestsKept /\ PhaseKept /\ NewsKept
  <1> DEFINE Kept == UNCHANGED <<dead, call, master, need_update, taskVars, owner, dirty,
                                 running, kernels, done>>
             PcKept == \A w \in Worker : pc'[w] = "run" <=> pc[w] = "run"
             SyncKept == \A v \in Worker : sync'[v] = sync[v] \/ master \in {"flush", "apply"}
  <1>1. ASSUME NextWorker \/ Receive \/ UNCHANGED vars PROVE Kept /\ PcKept /\ SyncKept
    BY Zenon, <1>1 DEF NextWorker, Receive, vars, runVars, viewVars, loopVars, netVars
  <1>2. ASSUME NEW w \in Worker, HandleFlush(w) \/ HandleApply(w) PROVE Kept /\ PcKept /\ SyncKept
    BY Zenon, <1>2 DEF HandleFlush, HandleApply, runVars, viewVars, loopVars
  <1>t. ASSUME NEW w \in Worker, InitStateTable(w) \/ NullPartition(w)
        PROVE  Kept /\ PcKept /\ SyncKept
    BY Zenon, <1>t DEF InitStateTable, NullPartition, runVars, viewVars, loopVars, netVars
  <1>3. ASSUME NEW w \in Worker, CheckNetwork(w) \/ ClearDirty(w) PROVE Kept /\ PcKept /\ SyncKept
    <2>1. Kept /\ SyncKept
      BY Zenon, <1>3 DEF CheckNetwork, ClearDirty, runVars, netVars
    <2>2. PICK p \in {"idle", "clear"} : pc[w] # "run" /\ pc' = [pc EXCEPT ![w] = p]
      BY <1>3 DEF CheckNetwork, ClearDirty
    <2>3. PcKept
      BY <2>2 DEF TypeOK
    <2> QED BY Zenon, <2>1, <2>3
  <1>4. ASSUME Kept, PcKept, SyncKept
        PROVE  AssignmentKept /\ TasksKept /\ ViewsKept /\ RequestsKept /\ PhaseKept /\ NewsKept
    <2>1. NewsKept
      BY <1>4 DEF NewsKept, Outdated
    <2> QED BY Zenon, <1>4, <2>1
               DEF AssignmentKept, TasksKept, ViewsKept, RequestsKept, PhaseKept, taskVars
  <1> HIDE DEF Kept, PcKept, SyncKept
  <1> QED BY Zenon, <1>1, <1>2, <1>t, <1>3, <1>4

(* Every step is one of these.                                             *)
LEMMA Steps ==
  ASSUME TypeOK, [Next]_vars
  PROVE  \/ Run /\ work' = work /\ ViewsKept /\ RequestsKept
         \/ /\ AssignTasks \/ reap_one_task \/ Dispatch
            /\ AssignmentKept /\ ViewsKept /\ NewsKept
         \/ steal_work /\ ViewsKept /\ RequestsKept /\ call' = call
         \/ \E w \in Worker :
              /\ HandleShardAssignment(w)
              /\ AssignmentKept /\ TasksKept /\ RequestsKept /\ PhaseKept
         \/ \E w \in Worker :
              /\ StartKernel(w) \/ KernelDone(w)
              /\ AssignmentKept /\ TasksKept /\ ViewsKept /\ PhaseKept /\ NewsKept
         \/ /\ AssignmentKept /\ TasksKept /\ ViewsKept /\ RequestsKept /\ NewsKept
            /\ Flush \/ PhaseKept
  BY Zenon, MasterFrames, KernelFrames, HandlerFrames, BroadcastFrames, OtherFrames
     DEF Next, Master, KernelLoop, Callback

=============================================================================
