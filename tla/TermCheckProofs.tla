-------------------------- MODULE TermCheckProofs ---------------------------
(***************************************************************************)
(* Proofs about TermCheck, for any number of workers, any reporters, any   *)
(* progress and any threshold. That two collections stand behind a         *)
(* termination needs to know which reports are still unread when the flags *)
(* are reset (the reports have numbers, and the number behind the          *)
(* remembered sum is not used again while it is remembered); that a worker *)
(* without a shard blocks the check needs only that its flag is never set. *)
(* The sum of the reports is defined by recursion, and what is known of it *)
(* is proved by induction over the number of workers.                      *)
(***************************************************************************)
EXTENDS TermCheck, WellFoundedInduction, TLAPS

-----------------------------------------------------------------------------
(* Facts about numbers and sums                                             *)

(* Every non-empty set of natural numbers has a least element.              *)
LEMMA LeastExists ==
  ASSUME NEW T \in SUBSET Nat, T # {}
  PROVE  \E x \in T : \A y \in T : x <= y
  <1>1. IsWellFoundedOn(OpToRel(<, Nat), Nat)
    BY NatLessThanWellFounded
  <1>2. PICK x \in T : \A y \in T : ~ (<<y, x>> \in OpToRel(<, Nat))
    BY <1>1, WFMin, Zenon
  <1>3. \A y \in T : y < x => <<y, x>> \in OpToRel(<, Nat)
    BY DEF OpToRel
  <1>4. \A y \in T : ~ (y < x)
    BY <1>2, <1>3, Zenon
  <1> QED BY <1>4

(* Induction, for the set of the numbers that have the property in question.*)
LEMMA SetInduction ==
  ASSUME NEW S, 0 \in S, \A n \in Nat : n \in S => n + 1 \in S
  PROVE  Nat \subseteq S
  <1> DEFINE T == Nat \ S
  <1> SUFFICES ASSUME T # {} PROVE FALSE
    OBVIOUS
  <1>1. PICK x \in T : \A y \in T : x <= y
    BY Zenon, LeastExists
  <1>2. x - 1 \in Nat /\ x - 1 \in S
    BY <1>1
  <1> QED BY <1>2

(* The sum over the first workers exists, whatever is added up.             *)
LEMMA PartialSums ==
  ASSUME NEW N \in Nat, NEW f \in [0 .. N - 1 -> Nat]
  PROVE  \E s \in [0 .. N -> Nat] :
           s[0] = 0 /\ \A n \in 1 .. N : s[n] = s[n - 1] + f[n - 1]
  <1> DEFINE Upto(m, s) == /\ s \in [0 .. N -> Nat] /\ s[0] = 0
                           /\ \A n \in 1 .. N : n <= m => s[n] = s[n - 1] + f[n - 1]
             S == {m \in Nat : \E s : Upto(m, s)}
  <1>1. 0 \in S
    <2>1. Upto(0, [n \in 0 .. N |-> 0])
      OBVIOUS
    <2> HIDE DEF Upto
    <2> QED BY <2>1
  <1>2. ASSUME NEW m \in Nat, m \in S PROVE m + 1 \in S
    <2>1. PICK s : Upto(m, s)
      BY <1>2, Zenon
    <2>2. CASE m + 1 > N
      <3>1. Upto(m + 1, s)
        BY <2>1, <2>2
      <3> HIDE DEF Upto
      <3> QED BY <3>1
    <2>3. CASE m + 1 <= N
      <3> DEFINE t == [s EXCEPT ![m + 1] = s[m] + f[m]]
      <3>1. /\ t \in [0 .. N -> Nat]
            /\ \A n \in 0 .. N : t[n] = IF n = m + 1 THEN s[m] + f[m] ELSE s[n]
        BY <2>1, <2>3
      <3> HIDE DEF t
      <3>2. ASSUME NEW n \in 1 .. N, n <= m + 1
            PROVE  t[n] = t[n - 1] + f[n - 1]
        <4>1. CASE n = m + 1
          <5>1. n - 1 = m /\ m \in 0 .. N /\ n \in 0 .. N /\ m # n
            BY <2>3, <4>1
          <5> QED BY Zenon, <3>1, <4>1, <5>1
        <4>2. CASE n <= m
          BY <2>1, <3>1, <4>2
        <4> QED BY <3>2, <4>1, <4>2
      <3>3. Upto(m + 1, t)
        BY <2>1, <3>1, <3>2
      <3> HIDE DEF Upto
      <3> QED BY <3>3
    <2> HIDE DEF S
    <2> QED BY <2>2, <2>3
  <1>3. N \in S
    <2> HIDE DEF S
    <2> QED BY Zenon, <1>1, <1>2, SetInduction
  <1>4. PICK s : Upto(N, s)
    BY <1>3, Zenon
  <1>5. \A n \in 1 .. N : s[n] = s[n - 1] + f[n - 1]
    BY <1>4
  <1> QED BY <1>4, <1>5, Zenon

(* What the recursive function of Total computes.                           *)
LEMMA TotalSteps ==
  ASSUME NEW f \in [Worker -> Nat]
  PROVE  \E s : /\ s[0] = 0 /\ s[NumWorkers] = Total(f)
                /\ \A n \in 1 .. NumWorkers : s[n] = s[n - 1] + f[n - 1]
  <1> DEFINE IsSum(t) == t = [n \in 0 .. NumWorkers |->
                                IF n = 0 THEN 0 ELSE t[n - 1] + f[n - 1]]
             sum == CHOOSE t : IsSum(t)
  <1>0. NumWorkers \in Nat
    BY TermCheckAssumption
  <1>1. PICK s \in [0 .. NumWorkers -> Nat] :
          s[0] = 0 /\ \A n \in 1 .. NumWorkers : s[n] = s[n - 1] + f[n - 1]
    BY Zenon, <1>0, PartialSums DEF Worker
  <1>2. IsSum(s)
    BY <1>0, <1>1
  <1>3. IsSum(sum)
    <2> HIDE DEF IsSum
    <2> QED BY <1>2, Zenon
  <1>4. Total(f) = sum[NumWorkers]
    BY Zenon DEF Total
  <1>5. PICK t : t = [n \in 0 .. NumWorkers |->
                        IF n = 0 THEN 0 ELSE t[n - 1] + f[n - 1]]
                 /\ Total(f) = t[NumWorkers]
    BY <1>3, <1>4, Zenon
  <1>6. \A n \in 0 .. NumWorkers : t[n] = IF n = 0 THEN 0 ELSE t[n - 1] + f[n - 1]
    BY <1>5, Zenon
  <1>7. t[0] = 0 /\ \A n \in 1 .. NumWorkers : t[n] = t[n - 1] + f[n - 1]
    BY <1>0, <1>6
  <1> QED BY <1>5, <1>7, Zenon

(* A sum of naturals is a natural, and grows with its terms.                *)
LEMMA TotalMonotone ==
  ASSUME NEW f \in [Worker -> Nat], NEW g \in [Worker -> Nat],
         \A w \in Worker : f[w] <= g[w]
  PROVE  Total(f) \in Nat /\ Total(g) \in Nat /\ Total(f) <= Total(g)
  <1>1. PICK s : /\ s[0] = 0 /\ s[NumWorkers] = Total(f)
                 /\ \A n \in 1 .. NumWorkers : s[n] = s[n - 1] + f[n - 1]
    BY TotalSteps, Zenon
  <1>2. PICK t : /\ t[0] = 0 /\ t[NumWorkers] = Total(g)
                 /\ \A n \in 1 .. NumWorkers : t[n] = t[n - 1] + g[n - 1]
    BY TotalSteps, Zenon
  <1>3. NumWorkers \in Nat
    BY TermCheckAssumption
  <1> DEFINE S == {m \in Nat : m <= NumWorkers =>
                                 s[m] \in Nat /\ t[m] \in Nat /\ s[m] <= t[m]}
  <1>4. 0 \in S
    BY <1>1, <1>2
  <1>5. ASSUME NEW m \in Nat, m \in S PROVE m + 1 \in S
    <2>1. CASE m + 1 <= NumWorkers
      <3>1. m \in Worker /\ m + 1 \in 1 .. NumWorkers /\ (m + 1) - 1 = m
        BY <1>3, <2>1 DEF Worker
      <3>2. s[m] \in Nat /\ t[m] \in Nat /\ s[m] <= t[m]
        BY <1>3, <1>5, <2>1
      <3>3. f[m] \in Nat /\ g[m] \in Nat /\ f[m] <= g[m]
        BY <3>1
      <3>4. s[m + 1] = s[m] + f[m] /\ t[m + 1] = t[m] + g[m]
        BY <1>1, <1>2, <3>1
      <3>5. \A a, b, c, d \in Nat :
              a <= c /\ b <= d => a + b \in Nat /\ c + d \in Nat /\ a + b <= c + d
        OBVIOUS
      <3>6. s[m] + f[m] \in Nat /\ t[m] + g[m] \in Nat /\ s[m] + f[m] <= t[m] + g[m]
        BY <3>2, <3>3, <3>5, Zenon
      <3> QED BY <3>4, <3>6
    <2> QED BY <1>3, <2>1
  <1>6. NumWorkers \in S
    <2> HIDE DEF S
    <2> QED BY <1>3, <1>4, <1>5, SetInduction
  <1> QED BY <1>1, <1>2, <1>6

-----------------------------------------------------------------------------
(* Why TwoCollections and SilentBlocks hold                                  *)

(* No two reports of a worker on their way have the same index, and none    *)
(* has the index of one that was read or compared.                          *)
Fresh ==
  \A w \in Worker :
    /\ \A r, q \in wire[w] : r.index = q.index => r = q
    /\ \A r \in wire[w], i \in 1 .. Len(queue[w]) : queue[w][i].index # r.index
    /\ \A r \in Unread(w) : r.index \notin {0, current[w].index, basis[w]}

(* A report counted in this collection is not the one last was made of,     *)
(* apart from those whose flag the reset still has to take back; and last   *)
(* is the initial value or made of a report of every worker.                *)
Collected ==
  /\ \A w \in Worker :
       termchecking[w] /\ ~(pc = "reset" /\ turn <= w) =>
         current[w].index \notin {0, basis[w]}
  /\ last = Lowest \/ \A w \in Worker : basis[w] # 0

(* After terminate_iteration the master does not collect any more.          *)
Decided == terminated_ => pc = "poll" /\ TwoCollections

(* A worker without a shard sends nothing, so no collection gets complete.  *)
Silent ==
  /\ \A w \in Worker \ reporter : /\ ~running[w] /\ ~termchecking[w]
                                    /\ wire[w] = {} /\ queue[w] = <<>>
  /\ reporter # Worker =>
       /\ ~terminated_ /\ stop = {}
       /\ \A w \in Worker : ~terminated[w]
       /\ \A w \in reporter : running[w]

IInv == TypeOK /\ Fresh /\ Collected /\ Decided /\ Silent

-----------------------------------------------------------------------------
(* The invariant is inductive                                               *)

(* The index SendTermcheck chooses is not in use.                           *)
LEMMA SentIsFresh ==
  ASSUME TypeOK, NEW w \in Worker, SendTermcheck(w)
  PROVE  \E i \in Index(w) \ IndicesInUse(w) :
           wire' = [wire EXCEPT ![w] =
                      @ \cup {[index |-> i, delta |-> progress[w]]}]
  <1> DEFINE fresh == CHOOSE i \in Index(w) \ IndicesInUse(w) : TRUE
  <1>1. fresh \in Index(w) \ IndicesInUse(w)
    BY DEF SendTermcheck
  <1>2. wire' = [wire EXCEPT ![w] =
                   @ \cup {[index |-> fresh, delta |-> progress[w]]}]
    BY Zenon DEF SendTermcheck
  <1> HIDE DEF fresh
  <1> QED BY Zenon, <1>1, <1>2

(* A step that leaves the reports and the progress of v alone.              *)
LEMMA BoundedUnchanged ==
  ASSUME NEW v \in Worker, Bounded(v),
         UNCHANGED <<progress[v], wire[v], queue[v], current[v], basis[v]>>
  PROVE  Bounded(v)'
  BY DEF Bounded, Unread

(* The master takes all reports of w from its queue, and keeps one or none. *)
LEMMA QueueEmptied ==
  ASSUME TypeOK, NEW w \in Worker,
         queue' = [queue EXCEPT ![w] = <<>>],
         UNCHANGED <<progress, wire, basis>>,
         current'[w] \in Unread(w) \cup {current[w]},
         \A v \in Worker : v # w => current'[v] = current[v]
  PROVE  queue' \in [Worker -> Seq(Report)] /\ \A v \in Worker : Bounded(v)'
  <1>1. /\ queue' \in [Worker -> Seq(Report)] /\ queue'[w] = <<>>
        /\ \A v \in Worker : v # w => queue'[v] = queue[v]
    BY DEF TypeOK
  <1>2. Unread(w)' \subseteq Unread(w)
    BY <1>1 DEF Unread
  <1>3. \A v \in Worker : Bounded(v)
    BY DEF TypeOK
  <1>4. Bounded(w)'
    BY <1>2, <1>3 DEF Bounded
  <1> QED BY <1>1, <1>3, <1>4, BoundedUnchanged

(* Every step keeps the types, the bounds of the reports and the bound of  *)
(* the remembered sum.                                                     *)
LEMMA TypeInductive ==
  ASSUME TypeOK, [Next]_vars
  PROVE  TypeOK'
  <1> USE DEF workerVars, checkVars
  <1>0. \A v \in Worker : Bounded(v) /\ MaxIndex[v] \in Nat /\ MaxProgress[v] \in Nat
    BY TermCheckAssumption DEF TypeOK
  <1>1. ASSUME NEW w \in Worker, SendTermcheck(w) PROVE TypeOK'
    <2>1. PICK i \in Index(w) \ IndicesInUse(w) :
            wire' = [wire EXCEPT ![w] =
                       @ \cup {[index |-> i, delta |-> progress[w]]}]
      BY <1>1, SentIsFresh
    <2> DEFINE r == [index |-> i, delta |-> progress[w]]
    <2>2. r \in Report /\ r.index \in Index(w) /\ r.delta = progress[w]
      BY <1>0 DEF Report, Index, TypeOK
    <2>3. wire' = [wire EXCEPT ![w] = @ \cup {r}]
      BY <2>1
    <2> HIDE DEF r
    <2>4. /\ wire' \in [Worker -> SUBSET Report]
          /\ wire'[w] = wire[w] \cup {r}
          /\ \A v \in Worker : v # w => wire'[v] = wire[v]
      BY <2>2, <2>3 DEF TypeOK
    <2>5. Bounded(w)'
      BY <1>0, <1>1, <2>2, <2>4 DEF Bounded, Unread, SendTermcheck
    <2>6. \A v \in Worker : Bounded(v)'
      BY <1>0, <1>1, <2>4, <2>5, BoundedUnchanged DEF SendTermcheck
    <2> QED BY <1>1, <2>4, <2>6 DEF SendTermcheck, TypeOK
  <1>2. ASSUME NEW w \in Worker, Pass(w) PROVE TypeOK'
    <2>1. /\ progress' \in [Worker -> Nat]
          /\ \A v \in Worker : progress'[v] <= MaxProgress[v]
      BY <1>0, <1>2 DEF Pass, TypeOK, Bounded
    <2>2. \A v \in Worker : Bounded(v)'
      BY <1>0, <1>2, <2>1 DEF Pass, Bounded, Unread
    <2> QED BY <1>2, <2>1, <2>2 DEF Pass, TypeOK
  <1>3. ASSUME NEW w \in Worker, EndLoop(w) \/ HandleTermNotification(w)
        PROVE  TypeOK'
    <2>1. \A v \in Worker : Bounded(v)'
      BY <1>0, <1>3, BoundedUnchanged DEF EndLoop, HandleTermNotification
    <2> QED BY Zenon, <1>3, <2>1 DEF EndLoop, HandleTermNotification, TypeOK
  <1>4. ASSUME NEW w \in Worker, Receive(w) PROVE TypeOK'
    <2>1. PICK r \in wire[w] : /\ wire' = [wire EXCEPT ![w] = @ \ {r}]
                              /\ queue' = [queue EXCEPT ![w] = Append(@, r)]
      BY Zenon, <1>4 DEF Receive
    <2>2. r \in Report /\ queue[w] \in Seq(Report) /\ Len(queue[w]) \in Nat
      BY DEF TypeOK
    <2>3. /\ Append(queue[w], r) \in Seq(Report)
          /\ Len(Append(queue[w], r)) = Len(queue[w]) + 1
          /\ \A i \in 1 .. Len(queue[w]) + 1 :
               Append(queue[w], r)[i] = IF i <= Len(queue[w]) THEN queue[w][i] ELSE r
      BY <2>2
    <2>4. /\ wire' \in [Worker -> SUBSET Report] /\ queue' \in [Worker -> Seq(Report)]
          /\ wire'[w] = wire[w] \ {r} /\ queue'[w] = Append(queue[w], r)
          /\ \A v \in Worker : v # w => wire'[v] = wire[v] /\ queue'[v] = queue[v]
      BY <2>1, <2>3 DEF TypeOK
    <2>5. Unread(w)' \subseteq Unread(w)
      BY <2>2, <2>3, <2>4 DEF Unread
    <2>6. Bounded(w)'
      BY <1>0, <1>4, <2>5 DEF Bounded, Receive
    <2>7. \A v \in Worker : Bounded(v)'
      BY <1>0, <1>4, <2>4, <2>6, BoundedUnchanged DEF Receive
    <2> QED BY <1>4, <2>4, <2>7 DEF Receive, TypeOK
  <1>5. CASE StartTermcheck \/ TooFew \/ Terminate \/ EndReset
    <2>1. \A v \in Worker : Bounded(v)'
      BY <1>0, <1>5, BoundedUnchanged
         DEF StartTermcheck, TooFew, Terminate, EndReset
    <2>2. /\ pc' \in {"poll", "read", "reset"} /\ stop' \subseteq Worker
          /\ terminated_' \in BOOLEAN
      BY <1>5, Zenon DEF StartTermcheck, TooFew, Terminate, EndReset, TypeOK
    <2>3. turn' = 0 \/ turn' = turn
      BY <1>5 DEF StartTermcheck, TooFew, Terminate, EndReset
    <2>4. turn' \in 0 .. NumWorkers
      BY <2>3, TermCheckAssumption DEF TypeOK
    <2> QED BY <1>5, <2>1, <2>2, <2>4
            DEF StartTermcheck, TooFew, Terminate, EndReset, TypeOK
  <1>6. CASE ReadReports
    <2>1. PICK w \in Worker : w = turn
      BY <1>6, TermCheckAssumption DEF ReadReports, TypeOK, Worker
    <2>2. turn' \in 0 .. NumWorkers
      BY <1>6, TermCheckAssumption DEF ReadReports, TypeOK
    <2>3. /\ current' \in [Worker -> Report] /\ termchecking' \in [Worker -> BOOLEAN]
          /\ current'[w] \in Unread(w) \cup {current[w]}
          /\ \A v \in Worker : v # w => current'[v] = current[v]
      <3>1. CASE queue[w] = <<>>
        BY <1>6, <2>1, <3>1 DEF ReadReports, TypeOK
      <3>2. CASE queue[w] # <<>>
        <4> DEFINE r == queue[w][Len(queue[w])]
        <4>1. Len(queue[w]) \in 1 .. Len(queue[w]) /\ r \in Report
          BY <3>2 DEF TypeOK
        <4>2. r \in Unread(w)
          BY <4>1 DEF Unread
        <4>3. /\ current' = [current EXCEPT ![w] = r]
              /\ termchecking' = [termchecking EXCEPT ![w] = TRUE]
          BY <1>6, <2>1, <3>2 DEF ReadReports
        <4> HIDE DEF r
        <4> QED BY <4>1, <4>2, <4>3 DEF TypeOK
      <3> QED BY <3>1, <3>2
    <2>4. queue' \in [Worker -> Seq(Report)] /\ \A v \in Worker : Bounded(v)'
      BY <1>6, <2>1, <2>3, QueueEmptied, ZenonT(30) DEF ReadReports
    <2> QED BY <1>6, <2>2, <2>3, <2>4 DEF ReadReports, TypeOK
  <1>7. CASE NotYet
    <2>1. TotalCurrent \in Nat /\ Total(MaxProgress) \in Nat
          /\ TotalCurrent <= Total(MaxProgress)
      <3>1. /\ [w \in Worker |-> current[w].delta] \in [Worker -> Nat]
            /\ \A w \in Worker : current[w].delta <= MaxProgress[w]
        BY <1>0 DEF TypeOK, Report, Bounded
      <3> QED BY <3>1, TotalMonotone, TermCheckAssumption DEF TotalCurrent
    <2>2. last' \in Lowest .. Total(MaxProgress)
      BY <1>7, <2>1, TermCheckAssumption DEF NotYet, Lowest
    <2>3. basis' \in [Worker -> Nat] /\ \A v \in Worker : basis'[v] \in Index(v)
      BY <1>0, <1>7 DEF NotYet, TypeOK, Report, Bounded
    <2>4. \A v \in Worker : Bounded(v)'
      BY <1>0, <1>7, <2>3 DEF NotYet, Bounded, Unread
    <2> QED BY <1>7, <2>2, <2>3, <2>4, TermCheckAssumption DEF NotYet, TypeOK
  <1>8. CASE Reset
    <2>1. PICK w \in Worker : w = turn
      BY <1>8, TermCheckAssumption DEF Reset, TypeOK, Worker
    <2>2. turn' \in 0 .. NumWorkers
      BY <1>8, TermCheckAssumption DEF Reset, TypeOK
    <2>3. termchecking' \in [Worker -> BOOLEAN]
      BY <1>8, Zenon DEF Reset, TypeOK
    <2>4. queue' \in [Worker -> Seq(Report)] /\ \A v \in Worker : Bounded(v)'
      BY <1>8, <2>1, QueueEmptied, Zenon DEF Reset
    <2> QED BY <1>8, <2>2, <2>3, <2>4 DEF Reset, TypeOK
  <1>9. CASE Finished \/ UNCHANGED vars
    <2>1. \A v \in Worker : Bounded(v)'
      BY <1>0, <1>9, BoundedUnchanged DEF Finished, vars
    <2> QED BY <1>9, <2>1 DEF Finished, vars, TypeOK
  <1> QED BY <1>1, <1>2, <1>3, <1>4, <1>5, <1>6, <1>7, <1>8, <1>9
          DEF Next, termcheck

(* A report sent gets an index of its own; receiving, reading and throwing  *)
(* away only takes reports away from those on their way.                    *)
LEMMA FreshInductive ==
  ASSUME TypeOK, Fresh, [Next]_vars
  PROVE  Fresh'
  <1> USE DEF workerVars, checkVars
  <1> DEFINE FreshOf(v) ==
        /\ \A r, q \in wire[v] : r.index = q.index => r = q
        /\ \A r \in wire[v], i \in 1 .. Len(queue[v]) : queue[v][i].index # r.index
        /\ \A r \in Unread(v) : r.index \notin {0, current[v].index, basis[v]}
  <1>0. /\ \A v \in Worker : FreshOf(v)
        /\ (\A v \in Worker : FreshOf(v)') => Fresh'
    BY DEF Fresh
  <1>1. ASSUME NEW v \in Worker,
               UNCHANGED <<wire[v], queue[v], current[v], basis[v]>>
        PROVE  FreshOf(v)'
    BY <1>0, <1>1 DEF Unread
  <1> HIDE DEF FreshOf
  <1>2. ASSUME NEW w \in Worker, SendTermcheck(w) PROVE Fresh'
    <2>1. PICK i \in Index(w) \ IndicesInUse(w) :
            wire' = [wire EXCEPT ![w] =
                       @ \cup {[index |-> i, delta |-> progress[w]]}]
      BY <1>2, SentIsFresh
    <2> DEFINE r == [index |-> i, delta |-> progress[w]]
    <2>2. r.index = i
      OBVIOUS
    <2>3. wire' = [wire EXCEPT ![w] = @ \cup {r}]
      BY <2>1
    <2> HIDE DEF r
    <2>4. /\ wire'[w] = wire[w] \cup {r}
          /\ \A v \in Worker : v # w => wire'[v] = wire[v]
      BY <2>3 DEF TypeOK
    <2>5. /\ i \notin {0, current[w].index, basis[w]}
          /\ \A q \in Unread(w) : q.index # i
      BY DEF IndicesInUse
    <2>6. FreshOf(w)'
      BY <1>0, <1>2, <2>2, <2>4, <2>5 DEF SendTermcheck, Unread, FreshOf
    <2> QED BY Zenon, <1>0, <1>1, <1>2, <2>4, <2>6 DEF SendTermcheck
  <1>3. ASSUME NEW w \in Worker, Receive(w) PROVE Fresh'
    <2>1. PICK r \in wire[w] : /\ wire' = [wire EXCEPT ![w] = @ \ {r}]
                              /\ queue' = [queue EXCEPT ![w] = Append(@, r)]
      BY Zenon, <1>3 DEF Receive
    <2>2. r \in Report /\ queue[w] \in Seq(Report) /\ Len(queue[w]) \in Nat
      BY DEF TypeOK
    <2>3. /\ Len(Append(queue[w], r)) = Len(queue[w]) + 1
          /\ \A i \in 1 .. Len(queue[w]) + 1 :
               Append(queue[w], r)[i] = IF i <= Len(queue[w]) THEN queue[w][i] ELSE r
      BY <2>2
    <2>4. /\ wire'[w] = wire[w] \ {r} /\ queue'[w] = Append(queue[w], r)
          /\ \A v \in Worker : v # w => wire'[v] = wire[v] /\ queue'[v] = queue[v]
      BY <2>1 DEF TypeOK
    <2>5. Unread(w)' \subseteq Unread(w)
      BY <2>2, <2>3, <2>4 DEF Unread
    <2>6. ASSUME NEW i \in 1 .. Len(queue'[w]) PROVE queue'[w][i].index # r.index =>
            i \in 1 .. Len(queue[w]) /\ queue'[w][i] = queue[w][i]
      <3>1. i \in 1 .. Len(queue[w]) + 1
        BY <2>3, <2>4
      <3> QED BY <2>2, <2>3, <2>4, <3>1
    <2>7. FreshOf(w)'
      BY <1>0, <1>3, <2>4, <2>5, <2>6 DEF Receive, FreshOf
    <2> QED BY <1>0, <1>1, <1>3, <2>4, <2>7 DEF Receive
  <1>4. CASE ReadReports
    <2>1. PICK w \in Worker : w = turn
      BY <1>4, TermCheckAssumption DEF ReadReports, TypeOK, Worker
    <2>2. /\ queue'[w] = <<>>
          /\ \A v \in Worker : v # w => queue'[v] = queue[v] /\ current'[v] = current[v]
      BY <1>4, <2>1 DEF ReadReports, TypeOK
    <2>3. Unread(w)' = wire[w]
      BY <1>4, <2>2 DEF ReadReports, Unread
    <2>4. \A r \in wire[w] : r.index # current'[w].index
      <3>1. CASE queue[w] = <<>>
        BY <1>0, <1>4, <2>1, <3>1 DEF ReadReports, FreshOf, Unread
      <3>2. CASE queue[w] # <<>>
        <4>1. /\ current'[w] = queue[w][Len(queue[w])]
              /\ Len(queue[w]) \in 1 .. Len(queue[w])
          BY <1>4, <2>1, <3>2 DEF ReadReports, TypeOK
        <4> QED BY <1>0, <4>1 DEF FreshOf
      <3> QED BY <3>1, <3>2
    <2>5. FreshOf(w)'
      BY <1>0, <1>4, <2>2, <2>3, <2>4 DEF ReadReports, FreshOf, Unread
    <2> QED BY <1>0, <1>1, <1>4, <2>2, <2>5 DEF ReadReports
  <1>5. CASE Reset
    <2>1. PICK w \in Worker : w = turn
      BY <1>5, TermCheckAssumption DEF Reset, TypeOK, Worker
    <2>2. /\ queue'[w] = <<>>
          /\ \A v \in Worker : v # w => queue'[v] = queue[v]
      BY <1>5, <2>1 DEF Reset, TypeOK
    <2>3. FreshOf(w)'
      BY <1>0, <1>5, <2>2 DEF Reset, FreshOf, Unread
    <2> QED BY <1>0, <1>1, <1>5, <2>2, <2>3 DEF Reset
  <1>6. CASE NotYet
    <2>1. \A v \in Worker : FreshOf(v)'
      BY <1>0, <1>6 DEF NotYet, FreshOf, Unread
    <2> QED BY <1>0, <2>1
  <1>7. ASSUME NEW w \in Worker, Pass(w) \/ EndLoop(w) \/ HandleTermNotification(w)
        PROVE  Fresh'
    BY <1>0, <1>1, <1>7 DEF Pass, EndLoop, HandleTermNotification
  <1>8. CASE StartTermcheck \/ TooFew \/ Terminate \/ EndReset \/ Finished \/ UNCHANGED vars
    BY <1>0, <1>1, <1>8
       DEF StartTermcheck, TooFew, Terminate, EndReset, Finished, vars
  <1> QED BY <1>2, <1>3, <1>4, <1>5, <1>6, <1>7, <1>8 DEF Next, termcheck

(* Only termcheck changes what the master has collected and compared.       *)
LEMMA OnlyTermcheck ==
  ASSUME [Next]_vars, ~termcheck
  PROVE  UNCHANGED checkVars
  <1>1. ASSUME NEW w \in Worker, SendTermcheck(w) \/ Pass(w) \/ EndLoop(w)
        PROVE  UNCHANGED checkVars
    BY <1>1 DEF SendTermcheck, Pass, EndLoop
  <1>2. ASSUME NEW w \in Worker, HandleTermNotification(w) \/ Receive(w)
        PROVE  UNCHANGED checkVars
    BY <1>2 DEF HandleTermNotification, Receive
  <1>3. CASE Finished \/ UNCHANGED vars
    BY <1>3 DEF Finished, vars
  <1> QED BY SMTT(30), <1>1, <1>2, <1>3 DEF Next

(* What termcheck counts differs from what it compared last.                *)
LEMMA CollectedInductive ==
  ASSUME TypeOK, Fresh, Collected, [Next]_vars
  PROVE  Collected'
  <1> USE DEF workerVars, checkVars
  <1>1. CASE ReadReports
    <2>1. PICK w \in Worker : w = turn
      BY <1>1, TermCheckAssumption DEF ReadReports, TypeOK, Worker
    <2>2. \A v \in Worker : v # w => /\ current'[v] = current[v]
                                    /\ termchecking'[v] = termchecking[v]
      BY <1>1, <2>1 DEF ReadReports, TypeOK
    <2>3. termchecking'[w] => current'[w].index \notin {0, basis[w]}
      <3>1. CASE queue[w] = <<>>
        BY <1>1, <2>1, <3>1 DEF ReadReports, Collected
      <3>2. CASE queue[w] # <<>>
        <4>1. /\ current'[w] = queue[w][Len(queue[w])]
              /\ Len(queue[w]) \in 1 .. Len(queue[w])
          BY <1>1, <2>1, <3>2 DEF ReadReports, TypeOK
        <4> QED BY <4>1 DEF Fresh, Unread
      <3> QED BY <3>1, <3>2
    <2> QED BY <1>1, <2>2, <2>3 DEF ReadReports, Collected
  <1>2. CASE NotYet
    <2>1. \A w \in Worker : current[w].index # 0 /\ basis'[w] = current[w].index
      BY <1>2 DEF NotYet, AllReceived, Collected
    <2>2. \A w \in Worker : 0 <= w
      BY DEF Worker
    <2> QED BY <1>2, <2>1, <2>2 DEF NotYet, Collected
  <1>3. CASE Reset
    <2>1. PICK w \in Worker : w = turn
      BY <1>3, TermCheckAssumption DEF Reset, TypeOK, Worker
    <2>2. /\ termchecking'[w] = FALSE
          /\ \A v \in Worker : v # w => termchecking'[v] = termchecking[v]
      BY <1>3, <2>1, Zenon DEF Reset, TypeOK
    <2>3. \A v \in Worker : v # w /\ ~(turn' <= v) => ~(turn <= v)
      BY <1>3, <2>1 DEF Reset, Worker
    <2> QED BY <1>3, <2>2, <2>3 DEF Reset, Collected
  <1>4. CASE EndReset
    <2>1. \A w \in Worker : ~(turn <= w)
      BY <1>4, TermCheckAssumption DEF EndReset, Worker
    <2> QED BY <1>4, <2>1 DEF EndReset, Collected
  <1>5. CASE StartTermcheck \/ TooFew \/ Terminate
    BY <1>5 DEF StartTermcheck, TooFew, Terminate, Collected
  <1>6. CASE ~termcheck
    BY <1>6, OnlyTermcheck DEF Collected
  <1> QED BY SMTT(30), <1>1, <1>2, <1>3, <1>4, <1>5, <1>6 DEF termcheck

(* TotalCurrent is a number that is not below 0, so no collection is close  *)
(* to the initial value of last.                                            *)
LEMMA CloseToACollection ==
  ASSUME TypeOK, Close
  PROVE  last # Lowest
  <1>1. [w \in Worker |-> current[w].delta] \in [Worker -> Nat]
    BY DEF TypeOK, Report
  <1>2. TotalCurrent \in Nat
    <2>1. \A w \in Worker : [v \in Worker |-> current[v].delta][w]
                             <= [v \in Worker |-> current[v].delta][w]
      BY <1>1
    <2> QED BY <1>1, <2>1, TotalMonotone DEF TotalCurrent
  <1> QED BY <1>2, TermCheckAssumption DEF Close, Lowest

(* The decision is made on a complete collection, and nothing is reset     *)
(* after it.                                                               *)
LEMMA DecidedInductive ==
  ASSUME TypeOK, Collected, Decided, [Next]_vars
  PROVE  Decided'
  <1> USE DEF workerVars, checkVars
  <1>1. CASE Terminate
    <2>1. \A w \in Worker : basis[w] # 0 /\ current[w].index \notin {0, basis[w]}
      BY <1>1, CloseToACollection DEF Terminate, AllReceived, Collected
    <2>2. Close'
      BY <1>1 DEF Terminate, Close, TotalCurrent
    <2> QED BY <1>1, <2>1, <2>2 DEF Terminate, Decided, TwoCollections
  <1>2. CASE termcheck /\ ~Terminate
    <2>1. UNCHANGED terminated_
      BY <1>2 DEF termcheck, StartTermcheck, ReadReports, TooFew, NotYet, Reset,
                  EndReset
    <2>2. ~terminated_
      BY <1>2 DEF Decided, termcheck, StartTermcheck, ReadReports, TooFew, NotYet,
                  Reset, EndReset
    <2> QED BY <2>1, <2>2 DEF Decided
  <1>3. CASE ~termcheck
    <2>1. UNCHANGED <<pc, current, last, basis, terminated_>>
      BY <1>3, OnlyTermcheck
    <2> QED BY <2>1 DEF Decided, TwoCollections, Close, TotalCurrent
  <1> QED BY <1>1, <1>2, <1>3

(* A worker without a shard sends no report.                               *)
LEMMA SilentInductive ==
  ASSUME TypeOK, Silent, [Next]_vars
  PROVE  Silent'
  <1> USE DEF workerVars, checkVars
  <1>0. reporter \subseteq Worker
    BY ZenonT(30), TermCheckAssumption DEF TypeOK
  <1>1. ASSUME NEW w \in Worker, SendTermcheck(w) PROVE Silent'
    <2>1. w \in reporter /\ \A v \in Worker : v # w => wire'[v] = wire[v]
      BY <1>1 DEF SendTermcheck, Silent, TypeOK
    <2> QED BY <1>1, <2>1 DEF SendTermcheck, Silent
  <1>2. ASSUME NEW w \in Worker, Pass(w) PROVE Silent'
    BY Zenon, <1>2 DEF Pass, Silent
  <1>3. ASSUME NEW w \in Worker, EndLoop(w) PROVE Silent'
    BY <1>3 DEF EndLoop, Silent, TypeOK
  <1>4. ASSUME NEW w \in Worker, HandleTermNotification(w) PROVE Silent'
    BY <1>4 DEF HandleTermNotification, Silent
  <1>5. ASSUME NEW w \in Worker, Receive(w) PROVE Silent'
    <2>1. w \in reporter /\ \A v \in Worker : v # w => /\ wire'[v] = wire[v]
                                                    /\ queue'[v] = queue[v]
      BY <1>5 DEF Receive, Silent, TypeOK
    <2> QED BY <1>5, <2>1 DEF Receive, Silent
  <1>6. CASE ReadReports
    <2>1. PICK w \in Worker : w = turn
      BY <1>6, TermCheckAssumption DEF ReadReports, TypeOK, Worker
    <2>2. /\ queue'[w] = <<>>
          /\ queue[w] = <<>> => termchecking'[w] = termchecking[w]
          /\ \A v \in Worker : v # w => /\ queue'[v] = queue[v]
                                        /\ termchecking'[v] = termchecking[v]
      BY <1>6, <2>1 DEF ReadReports, TypeOK
    <2> QED BY <1>6, <2>2 DEF ReadReports, Silent
  <1>7. CASE Terminate
    BY <1>0, <1>7 DEF Terminate, AllReceived, Silent
  <1>8. CASE Reset
    <2>1. PICK w \in Worker : w = turn
      BY <1>8, TermCheckAssumption DEF Reset, TypeOK, Worker
    <2>2. /\ queue'[w] = <<>> /\ termchecking'[w] = FALSE
          /\ \A v \in Worker : v # w => /\ queue'[v] = queue[v]
                                        /\ termchecking'[v] = termchecking[v]
      BY <1>8, <2>1, Zenon DEF Reset, TypeOK
    <2> QED BY <1>8, <2>2 DEF Reset, Silent
  <1>9. CASE StartTermcheck \/ TooFew \/ NotYet \/ EndReset \/ Finished \/ UNCHANGED vars
    BY <1>9 DEF StartTermcheck, TooFew, NotYet, EndReset, Finished, vars, Silent
  <1> QED BY <1>1, <1>2, <1>3, <1>4, <1>5, <1>6, <1>7, <1>8, <1>9
          DEF Next, termcheck

-----------------------------------------------------------------------------
(* The theorems                                                             *)

(* The invariant holds before the first check.                             *)
LEMMA InitIInv == Init => IInv
  <1> SUFFICES ASSUME Init PROVE IInv
    OBVIOUS
  <1>1. TypeOK
    <2>1. \A w \in Worker : [v \in Worker |-> 0][w] <= MaxProgress[w]
      BY TermCheckAssumption
    <2>2. Total(MaxProgress) \in Nat
      BY <2>1, TotalMonotone, TermCheckAssumption
    <2>3. last \in Lowest .. Total(MaxProgress)
      BY <2>2, TermCheckAssumption DEF Init, Lowest
    <2>4. \A w \in Worker : Bounded(w)
      BY TermCheckAssumption DEF Init, Bounded, Unread, Index, NoReport
    <2>5. NoReport \in Report /\ 0 \in 0 .. NumWorkers
      BY TermCheckAssumption DEF Report, NoReport
    <2>6. running \in [Worker -> BOOLEAN]
      <3>1. \A w \in Worker : (w \in reporter) \in BOOLEAN
        OBVIOUS
      <3> QED BY <3>1, Zenon DEF Init
    <2>7. /\ wire \in [Worker -> SUBSET Report] /\ queue \in [Worker -> Seq(Report)]
          /\ current \in [Worker -> Report]
      BY <2>5 DEF Init
    <2>8. /\ terminated \in [Worker -> BOOLEAN] /\ terminated_ \in BOOLEAN
          /\ termchecking \in [Worker -> BOOLEAN]
      BY Zenon DEF Init
    <2> QED BY <2>3, <2>4, <2>5, <2>6, <2>7, <2>8 DEF Init, TypeOK
  <1>2. Fresh
    BY DEF Init, Fresh, Unread
  <1>3. Collected /\ Decided
    BY DEF Init, Collected, Decided
  <1>4. Silent
    <2>1. reporter \subseteq Worker
      BY TermCheckAssumption DEF Init
    <2>2. \A w \in Worker : running[w] <=> w \in reporter
      BY Zenon DEF Init
    <2> QED BY <2>1, <2>2 DEF Init, Silent
  <1> QED BY <1>1, <1>2, <1>3, <1>4 DEF IInv

(* Every state of the check of termination satisfies the invariant.         *)
THEOREM Invariance == Spec => []IInv
  <1>1. IInv /\ [Next]_vars => IInv'
    BY TypeInductive, FreshInductive, CollectedInductive, DecidedInductive,
       SilentInductive DEF IInv
  <1> QED BY InitIInv, <1>1, PTL DEF Spec

(* The reports, the queues and the sums stay within their bounds.           *)
THEOREM TypeCorrect == Spec => []TypeOK
  <1>1. IInv => TypeOK
    BY DEF IInv
  <1> QED BY <1>1, Invariance, PTL

(* Master::termcheck stops the iteration only on two complete collections   *)
(* that are close and share no report, for any number of workers, any       *)
(* delay and any reordering of the reports.                                 *)
THEOREM StopsOnTwoCollections == Spec => []TwoCollections
  <1>1. IInv => TwoCollections
    BY DEF IInv, Decided, TwoCollections
  <1> QED BY <1>1, Invariance, PTL

(* One worker without a shard is enough for the iteration never to end.     *)
THEOREM SilentWorkerBlocks == Spec => []SilentBlocks
  <1>1. IInv => SilentBlocks
    BY DEF IInv, Silent, SilentBlocks
  <1> QED BY <1>1, Invariance, PTL
=============================================================================
