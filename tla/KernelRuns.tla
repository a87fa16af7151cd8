----------------------------- MODULE KernelRuns -----------------------------
(***************************************************************************)
(* What Master::run_all, run_one and run_range promise their caller        *)
(* (src/master/master.h: "All run_* methods are blocking"): a call runs    *)
(* the kernel once on every shard it names, and the kernels of two calls   *)
(* never overlap.  Which worker runs a shard, and when, is left open.      *)
(***************************************************************************)
EXTENDS Naturals, Sequences

CONSTANT Calls      \* the shards of each call, a sequence of sets

VARIABLES call,     \* number of calls made so far
          todo,     \* shards of the current call still to be run
          busy      \* shards a kernel is running on

vars == <<call, todo, busy>>

Init == call = 0 /\ todo = {} /\ busy = {}

(* The previous call has returned, the next one is made.                    *)
Start ==
  /\ call < Len(Calls) /\ todo = {} /\ busy = {}
  /\ call' = call + 1
  /\ todo' = Calls[call + 1]
  /\ UNCHANGED busy

(* A kernel starts on a shard.                                              *)
Begin(s) ==
  /\ s \in todo
  /\ todo' = todo \ {s}
  /\ busy' = busy \cup {s}
  /\ UNCHANGED call

(* A kernel comes to its end.                                               *)
End(s) ==
  /\ s \in busy
  /\ busy' = busy \ {s}
  /\ UNCHANGED <<call, todo>>

Next == Start \/ (\E s \in todo : Begin(s)) \/ (\E s \in busy : End(s))

Spec == Init /\ [][Next]_vars
=============================================================================
