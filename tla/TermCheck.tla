----------------------------- MODULE TermCheck ------------------------------
(***************************************************************************)
(* How MaiterKernel2 comes to an end.  Before each pass over its table a    *)
(* worker may report the progress of its shards (TermCheck, SendTermcheck). *)
(* In barrier() the master now and then collects the reports (termcheck),   *)
(* and when every worker has reported it compares the sum with the last one *)
(* (TermCheckers::Diff).  If they are close it tells all workers to stop    *)
(* (terminate_iteration), otherwise it throws away what has come meanwhile  *)
(* and collects again.                                                      *)
(*                                                                          *)
(* The network thread of the master queues reports while termcheck reads    *)
(* the queues, and that of the worker sends them in another order than they *)
(* were made (pending_sends_ is a stack).                                   *)
(*                                                                          *)
(* Progress is a number up to a bound: a computation that converges.        *)
(***************************************************************************)
EXTENDS Integers, Sequences

CONSTANTS
  NumWorkers,       \* workers_.size()
  Reporters,        \* the sets of workers that may have a shard
  MaxProgress,      \* bound: MaxProgress[w] is the progress of w at the end
  Threshold,        \* FLAGS_termcheck_threshold
  MaxIndex          \* bound: the reports of w are numbered from 1 to MaxIndex[w]

Worker == 0 .. NumWorkers - 1

ASSUME TermCheckAssumption ==
  /\ NumWorkers \in Nat \ {0}
  /\ Reporters \subseteq SUBSET Worker
  /\ MaxProgress \in [Worker -> Nat] /\ Threshold \in Nat
  /\ MaxIndex \in [Worker -> Nat]

(* What termcheck can tell apart of TermcheckDelta: the index stands for    *)
(* snapshot_index, 0 is no report.  Indices are used again when no report   *)
(* with them is left.                                                       *)
Index(w) == 0 .. MaxIndex[w]
Report == [index : Nat, delta : Nat]
NoReport == [index |-> 0, delta |-> 0]

(* -numeric_limits<double>::max(), farther from any sum than Threshold.     *)
Lowest == -1 - Threshold

VARIABLES
  reporter,         \* the workers that iterate over a shard
  progress,         \* progress[w]: estimate_prog over the table of w
  running,          \* running[w]: w is in run_loop
  terminated,       \* terminated[w]: TableBase::terminated_ at w
  wire,             \* wire[w]: reports sent by w, not received
  queue,            \* queue[w]: reports of w the master has received
  stop,             \* MTYPE_TERMINATION under way to these workers
  pc,               \* where barrier() is in termcheck()
  turn,             \* worker_id of the loop it is in
  current,          \* current[w]: WorkerState::current and its index
  termchecking,     \* termchecking[w]: WorkerState::termchecking
  last,             \* Diff::last
  basis,            \* basis[w]: the index of the report of w behind last
  terminated_       \* Master::terminated_

workerVars == <<reporter, progress, running, terminated>>
checkVars  == <<pc, turn, current, termchecking, last, basis, terminated_>>
vars == <<workerVars, checkVars, wire, queue, stop>>

(* The sum of f over the workers, added up from worker 0 on.                *)
Total(f) ==
  LET sum[n \in 0 .. NumWorkers] == IF n = 0 THEN 0 ELSE sum[n - 1] + f[n - 1]
  IN  sum[NumWorkers]

(* The reports of w that the master has not read.                           *)
Unread(w) == wire[w] \cup {queue[w][i] : i \in 1 .. Len(queue[w])}

(* What the bounds leave of the progress and the reports of w.              *)
Bounded(w) ==
  /\ progress[w] <= MaxProgress[w]
  /\ \A r \in Unread(w) \cup {current[w]} :
       r.index \in Index(w) /\ r.delta <= MaxProgress[w]
  /\ basis[w] \in Index(w)

TypeOK ==
  /\ reporter \in Reporters
  /\ progress \in [Worker -> Nat]
  /\ running \in [Worker -> BOOLEAN]
  /\ terminated \in [Worker -> BOOLEAN]
  /\ wire \in [Worker -> SUBSET Report]
  /\ queue \in [Worker -> Seq(Report)]
  /\ stop \subseteq Worker
  /\ pc \in {"poll", "read", "reset"}
  /\ turn \in 0 .. NumWorkers
  /\ current \in [Worker -> Report]
  /\ termchecking \in [Worker -> BOOLEAN]
  /\ last \in Lowest .. Total(MaxProgress)
  /\ basis \in [Worker -> Nat]
  /\ terminated_ \in BOOLEAN
  /\ \A w \in Worker : Bounded(w)

Init ==
  /\ reporter \in Reporters
  /\ progress = [w \in Worker |-> 0]
  /\ running = [w \in Worker |-> w \in reporter]
  /\ terminated = [w \in Worker |-> FALSE]
  /\ wire = [w \in Worker |-> {}]
  /\ queue = [w \in Worker |-> <<>>]
  /\ stop = {}
  /\ pc = "poll" /\ turn = 0
  /\ current = [w \in Worker |-> NoReport]
  /\ termchecking = [w \in Worker |-> FALSE]
  /\ last = Lowest
  /\ basis = [w \in Worker |-> 0]
  /\ terminated_ = FALSE

-----------------------------------------------------------------------------
(* The workers                                                              *)

(* The indices of the reports of w that are unread or remembered.           *)
IndicesInUse(w) == {r.index : r \in Unread(w)} \cup {0, current[w].index, basis[w]}

(* get_iterator: FlushUpdates, and the snapshot_interval has passed.        *)
SendTermcheck(w) ==
  /\ running[w] /\ ~terminated[w]
  /\ Index(w) \ IndicesInUse(w) # {}
  /\ LET fresh == CHOOSE i \in Index(w) \ IndicesInUse(w) : TRUE
     IN  wire' = [wire EXCEPT ![w] = @ \cup {[index |-> fresh, delta |-> progress[w]]}]
  /\ UNCHANGED <<workerVars, checkVars, queue, stop>>

(* A pass over the table makes progress, or nothing has arrived.            *)
Pass(w) ==
  /\ running[w] /\ ~terminated[w]
  /\ progress[w] < MaxProgress[w]
  /\ progress' = [progress EXCEPT ![w] = @ + 1]
  /\ UNCHANGED <<reporter, running, terminated, checkVars, wire, queue, stop>>

(* Mutant of EndLoop: run_loop also ends when nothing changes any more.     *)
EndLoopConverged(w) ==
  /\ running[w] /\ (terminated[w] \/ progress[w] = MaxProgress[w])
  /\ running' = [running EXCEPT ![w] = FALSE]
  /\ UNCHANGED <<reporter, progress, terminated, checkVars, wire, queue, stop>>

(* get_iterator returns NULL and run_loop ends.                             *)
EndLoop(w) ==
  /\ running[w] /\ terminated[w]
  /\ running' = [running EXCEPT ![w] = FALSE]
  /\ UNCHANGED <<reporter, progress, terminated, checkVars, wire, queue, stop>>

HandleTermNotification(w) ==
  /\ w \in stop
  /\ stop' = stop \ {w}
  /\ terminated' = [terminated EXCEPT ![w] = TRUE]
  /\ UNCHANGED <<reporter, progress, running, checkVars, wire, queue>>

(* The network thread of the master takes in one of the reports of w.       *)
Receive(w) ==
  /\ \E r \in wire[w] :
       /\ wire' = [wire EXCEPT ![w] = @ \ {r}]
       /\ queue' = [queue EXCEPT ![w] = Append(@, r)]
  /\ UNCHANGED <<workerVars, checkVars, stop>>

-----------------------------------------------------------------------------
(* Master::termcheck, called from barrier()                                 *)

(* The termcheck_interval has passed.                                       *)
StartTermcheck ==
  /\ pc = "poll" /\ ~terminated_
  /\ \E w \in Worker : running[w]
  /\ pc' = "read" /\ turn' = 0
  /\ UNCHANGED <<workerVars, current, termchecking, last, basis, terminated_,
                 wire, queue, stop>>

(* The first loop: all buffered reports of a worker are read, the last one  *)
(* stays.                                                                   *)
ReadReports ==
  /\ pc = "read" /\ turn < NumWorkers
  /\ turn' = turn + 1
  /\ queue' = [queue EXCEPT ![turn] = <<>>]
  /\ IF queue[turn] = <<>> THEN UNCHANGED <<current, termchecking>>
     ELSE /\ current' = [current EXCEPT ![turn] = queue[turn][Len(queue[turn])]]
          /\ termchecking' = [termchecking EXCEPT ![turn] = TRUE]
  /\ UNCHANGED <<workerVars, pc, last, basis, terminated_, wire, stop>>

AllReceived == \A w \in Worker : termchecking[w]

(* received_num < workers_.size(): what was read is kept for the next time. *)
TooFew ==
  /\ pc = "read" /\ turn = NumWorkers /\ ~AllReceived
  /\ pc' = "poll"
  /\ UNCHANGED <<workerVars, turn, current, termchecking, last, basis,
                 terminated_, wire, queue, stop>>

(* Mutant of TotalCurrent: Diff::curr is not set to 0 before the loop.      *)
TotalCurrentUnreset ==
  Total([w \in Worker |-> current[w].delta]) + IF last = Lowest THEN 0 ELSE last

(* Diff::curr, the sum of the reports.                                      *)
TotalCurrent == Total([w \in Worker |-> current[w].delta])

(* Mutant of Close: < for <=.                                               *)
CloseStrict == TotalCurrent - last \in 1 - Threshold .. Threshold - 1

(* Diff::terminate.                                                         *)
Close == TotalCurrent - last \in -Threshold .. Threshold

(* terminate() holds: terminate_iteration tells every worker.               *)
Terminate ==
  /\ pc = "read" /\ turn = NumWorkers /\ AllReceived /\ Close
  /\ pc' = "poll"
  /\ terminated_' = TRUE
  /\ stop' = Worker
  /\ UNCHANGED <<workerVars, turn, current, termchecking, last, basis, wire,
                 queue>>

(* terminate() does not hold: the sum is remembered, and the reset begins.  *)
NotYet ==
  /\ pc = "read" /\ turn = NumWorkers /\ AllReceived /\ ~Close
  /\ pc' = "reset" /\ turn' = 0
  /\ last' = TotalCurrent
  /\ basis' = [w \in Worker |-> current[w].index]
  /\ UNCHANGED <<workerVars, current, termchecking, terminated_, wire, queue,
                 stop>>

(* Mutant of Reset: the flags are kept.                                     *)
ResetKeeps ==
  /\ pc = "reset" /\ turn < NumWorkers
  /\ turn' = turn + 1
  /\ queue' = [queue EXCEPT ![turn] = <<>>]
  /\ UNCHANGED <<workerVars, pc, current, termchecking, last, basis,
                 terminated_, wire, stop>>

(* The second loop: the reports that came since are thrown away.            *)
Reset ==
  /\ pc = "reset" /\ turn < NumWorkers
  /\ turn' = turn + 1
  /\ termchecking' = [termchecking EXCEPT ![turn] = FALSE]
  /\ queue' = [queue EXCEPT ![turn] = <<>>]
  /\ UNCHANGED <<workerVars, pc, current, last, basis, terminated_, wire, stop>>

EndReset ==
  /\ pc = "reset" /\ turn = NumWorkers
  /\ pc' = "poll"
  /\ UNCHANGED <<workerVars, turn, current, termchecking, last, basis,
                 terminated_, wire, queue, stop>>

termcheck == \/ StartTermcheck \/ ReadReports \/ TooFew \/ Terminate \/ NotYet
             \/ Reset \/ EndReset

(* The loops have ended and the network is empty.                           *)
Finished ==
  /\ pc = "poll" /\ stop = {}
  /\ \A w \in Worker : ~running[w] /\ wire[w] = {}
  /\ UNCHANGED vars
-----------------------------------------------------------------------------
Next ==
  \/ termcheck \/ Finished
  \/ \E w \in Worker : \/ SendTermcheck(w) \/ Pass(w) \/ EndLoop(w)
                       \/ HandleTermNotification(w) \/ Receive(w)

Spec == Init /\ [][Next]_vars

(* The master keeps checking, the network delivers every report, a worker   *)
(* reports again and again (the interval passes again and again) and goes   *)
(* on with its passes.                                                      *)
Fairness ==
  /\ WF_vars(termcheck)
  /\ \A w \in Worker : /\ WF_vars(Receive(w)) /\ WF_vars(Pass(w))
                       /\ WF_vars(EndLoop(w)) /\ WF_vars(HandleTermNotification(w))
                       /\ SF_vars(SendTermcheck(w))

FairSpec == Spec /\ Fairness

-----------------------------------------------------------------------------
(* Properties                                                               *)

(* The iteration is stopped only when two complete collections of reports   *)
(* were close: each worker has two different reports in the comparison,     *)
(* however reports were delayed, reordered, read late or thrown away.       *)
TwoCollections ==
  terminated_ =>
    /\ Close
    /\ \A w \in Worker : basis[w] # 0 /\ current[w].index \notin {0, basis[w]}

(* A worker that never reports, because it is in dead_workers or serves no  *)
(* shard, keeps all others iterating for ever (master.cc, line 421).        *)
SilentBlocks == reporter # Worker => ~terminated_ /\ \A w \in reporter : running[w]

(* If every worker iterates and the computation converges, MaiterKernel2    *)
(* ends on all workers.                                                     *)
Stops == reporter = Worker => <>(\A w \in Worker : ~running[w])
=============================================================================
