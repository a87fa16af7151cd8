---------------------------- MODULE MCScheduler -----------------------------
(* Instances of Scheduler for TLC.                                          *)
EXTENDS Scheduler

(* Worker 0 serves shards 0, 2 and 4, worker 1 the others.  In the first    *)
(* call, of run_all, worker 1 may steal, also while worker 0 runs a kernel; *)
(* in the second worker 0 may steal, also the shard it lost.                *)
MCThereAndBack == <<0 .. 4, {1, 3, 4}>>

(* A job without a state table, as gengraph, or one whose first call loads  *)
(* it, as run_maiter.                                                       *)
MCLoadCalls == {{}, {1}}

(* All workers alive, or only worker 0.                                     *)
MCDeadWorkers == {{}, {1}}
=============================================================================
