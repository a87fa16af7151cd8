---------------------------- MODULE NetworkThread ----------------------------
(***************************************************************************)
(* The RPC layer (util/rpc.cc): every process has a thread that polls MPI,  *)
(* runs callbacks (some in threads of their own), keeps requests without a  *)
(* callback and replies in queues, and sends what other threads have left   *)
(* in pending_sends_.  The master's thread makes calls: SyncBroadcast,      *)
(* among them GlobalTable::swap and clear, or plain Sends to every worker;  *)
(* a reply is known only by its type and its source.                        *)
(*                                                                         *)
(* Processes are 0, the master, and the workers.  A message carries the     *)
(* number of the call it belongs to, which the code does not send.          *)
(***************************************************************************)
EXTENDS Naturals, Sequences, SequencesExt, FiniteSets

CONSTANTS
  NumWorkers,   \* world_->Get_size() - 1
  MaxCalls      \* bound: the calls the master makes before it shuts down

Worker == 1 .. NumWorkers
Node == 0 .. NumWorkers

(* Who makes a call waits for replies (SyncBroadcast) or not; the workers   *)
(* run a callback in the network thread, in a thread of its own, or read    *)
(* the message from the queue.                                              *)
Sync == {"SWAP_TABLE", "CLEAR_TABLE", "WORKER_FLUSH"}
Spawned == {"WORKER_FLUSH"}
Queued == {"WORKER_SHUTDOWN"}
Method == Sync \cup {"TERMINATION"}

VARIABLES
  made,         \* the methods of the master's calls so far
  at,           \* where the last of them is
  count,        \* count of WaitForSync
  sweep,        \* i of WaitForSync
  pending,      \* pending_sends_ of each process
  channel,      \* what MPI holds for a process, by source
  eager,        \* does MPI finish a send before the message is received?
  up,           \* is the network thread running?
  replies,      \* the master's queues of replies, by method and source
  requests,     \* each worker's queue of requests without a callback
  threads,      \* the callbacks that run in their own threads
  running,      \* running_ of each worker
  ran,          \* history: the calls whose callbacks a worker has run
  tables        \* what each worker holds as tables a and b

vars == <<made, at, count, sweep, pending, channel, eager, up, replies, requests,
          threads, running, ran, tables>>

netVars == <<pending, channel, eager, up>>

Init ==
  /\ made = <<>> /\ at = "idle"
  /\ count = 0 /\ sweep = 0
  /\ pending = [n \in Node |-> <<>>]
  /\ channel = [n \in Node |-> [s \in Node |-> <<>>]]
  /\ eager \in BOOLEAN
  /\ up = [n \in Node |-> TRUE]
  /\ replies = [m \in Method |-> [s \in Node |-> <<>>]]
  /\ requests = [w \in Worker |-> <<>>]
  /\ threads = [w \in Worker |-> {}]
  /\ running = [w \in Worker |-> TRUE]
  /\ ran = [w \in Worker |-> <<>>]
  /\ tables = [w \in Worker |-> <<"a", "b">>]

Message(from, to, meth, id, reply) ==
  [from |-> from, to |-> to, method |-> meth, id |-> id, reply |-> reply]

(* Send: to the end of pending_sends_.                                      *)
Send(m) == pending' = [pending EXCEPT ![m.from] = Append(@, m)]

-----------------------------------------------------------------------------
(* The master's thread                                                      *)

method == Last(made)

(* A call begins: swap, clear, barrier's flush, terminate_iteration, which  *)
(* a flush follows; the last one is ~Master's shutdown of the workers.      *)
beginCall(m) ==
  /\ at = "idle"
  /\ m \in IF Len(made) < MaxCalls - 1 THEN Method
           ELSE IF Len(made) < MaxCalls THEN Sync ELSE Queued
  /\ made' = Append(made, m)
  /\ at' = "send"
  /\ sweep' = 1
  /\ UNCHANGED <<count, netVars, replies, requests, threads, running, ran, tables>>

(* Broadcast, and the loops over the workers that Send: one worker.         *)
Broadcast ==
  /\ at = "send"
  /\ Send(Message(0, sweep, method, Len(made), FALSE))
  /\ IF sweep < NumWorkers
     THEN sweep' = sweep + 1 /\ UNCHANGED <<at, count>>
     ELSE /\ sweep' = 0
          /\ count' = NumWorkers
          /\ at' = IF method \in Sync THEN "wait"
                   ELSE IF method \in Queued THEN "flush" ELSE "idle"
  /\ UNCHANGED <<made, channel, eager, up, replies, requests, threads, running,
                 ran, tables>>

(* Mutant of MoreReplies: the loop ends one reply too early.                *)
MoreRepliesEarly(c) == c > 1

(* The loop condition of WaitForSync.                                       *)
MoreReplies(c) == c > 0

(* check_reply_queue: the first reply of a source is taken and counted.     *)
check_reply_queue(m, s) ==
  IF replies[m][s] # <<>>
  THEN /\ replies' = [replies EXCEPT ![m][s] = Tail(@)]
       /\ count' = count - 1
  ELSE UNCHANGED <<replies, count>>

(* WaitForSync: one source; the count is looked at after all of them.       *)
WaitForSync ==
  /\ at = "wait"
  /\ check_reply_queue(method, sweep)
  /\ IF sweep < NumWorkers
     THEN sweep' = sweep + 1 /\ UNCHANGED at
     ELSE /\ sweep' = 0
          /\ at' = IF MoreReplies(count') THEN "wait" ELSE "idle"
  /\ UNCHANGED <<made, netVars, requests, threads, running, ran, tables>>

(* active: something is in pending_sends_ or in active_sends_.              *)
Busy(n) ==
  \/ pending[n] # <<>>
  \/ ~eager /\ \E t \in Node : channel[t][n] # <<>>

(* Shutdown of the master: Flush, then the network thread is told to stop.  *)
ShutdownMaster ==
  /\ at = "flush" /\ ~Busy(0)
  /\ up' = [up EXCEPT ![0] = FALSE]
  /\ at' = "over"
  /\ UNCHANGED <<made, count, sweep, pending, channel, eager, replies, requests,
                 threads, running, ran, tables>>

-----------------------------------------------------------------------------
(* The network thread                                                       *)

(* The loop over pending_sends_ in Run: all of it is given to MPI, from its *)
(* end.                                                                     *)
Sent(chans, n, sends) ==
  FoldLeft(LAMBDA ch, m : [ch EXCEPT ![m.to][n] = Append(@, m)], chans, Reverse(sends))

(* local_swap.                                                              *)
Swapped(t) == <<t[2], t[1]>>

(* HandleSwapRequest and HandleClearRequest.                                *)
Handled(w, m) ==
  CASE m = "SWAP_TABLE" -> Swapped(tables[w])
    [] m = "CLEAR_TABLE" -> <<"empty", tables[w][2]>>
    [] OTHER -> tables[w]

(* Run, an iteration with a message: a reply or a request without a         *)
(* callback is put into its queue, a callback is run and answered or given  *)
(* to a thread; then everything in pending_sends_ is sent.                  *)
Receive(n, s) ==
  /\ up[n] /\ channel[n][s] # <<>>
  /\ LET m == Head(channel[n][s])
         inline == ~m.reply /\ m.method \notin Spawned \cup Queued
         reply == Message(n, s, m.method, m.id, TRUE)
         sends == IF inline THEN Append(pending[n], reply) ELSE pending[n]
     IN /\ channel' = Sent([channel EXCEPT ![n][s] = Tail(@)], n, sends)
        /\ pending' = [pending EXCEPT ![n] = <<>>]
        /\ replies' = IF m.reply
                      THEN [replies EXCEPT ![m.method][s] = Append(@, m.id)]
                      ELSE replies
        /\ requests' = IF ~m.reply /\ m.method \in Queued
                       THEN [requests EXCEPT ![n] = Append(@, m.id)]
                       ELSE requests
        /\ threads' = IF ~m.reply /\ m.method \in Spawned
                      THEN [threads EXCEPT ![n] = @ \cup {m}]
                      ELSE threads
        /\ ran' = IF inline THEN [ran EXCEPT ![n] = Append(@, m.id)] ELSE ran
        /\ tables' = IF inline THEN [tables EXCEPT ![n] = Handled(n, m.method)]
                     ELSE tables
  /\ UNCHANGED <<made, at, count, sweep, eager, up, running>>

(* Run, an iteration without a message.                                     *)
NothingArrived(n) ==
  /\ up[n] /\ pending[n] # <<>>
  /\ channel' = Sent(channel, n, pending[n])
  /\ pending' = [pending EXCEPT ![n] = <<>>]
  /\ UNCHANGED <<made, at, count, sweep, eager, up, replies, requests, threads,
                 running, ran, tables>>

-----------------------------------------------------------------------------
(* The workers' other threads                                               *)

(* Mutant of InvokeCallback: the reply is forgotten.                        *)
InvokeCallbackSilent(w, m) ==
  /\ m \in threads[w] /\ ~Busy(w)
  /\ threads' = [threads EXCEPT ![w] = @ \ {m}]
  /\ ran' = [ran EXCEPT ![w] = Append(@, m.id)]
  /\ UNCHANGED <<made, at, count, sweep, netVars, replies, requests, running, tables>>

(* InvokeCallback: HandleFlush waits until nothing is left to be sent.      *)
InvokeCallback(w, m) ==
  /\ m \in threads[w] /\ ~Busy(w)
  /\ threads' = [threads EXCEPT ![w] = @ \ {m}]
  /\ ran' = [ran EXCEPT ![w] = Append(@, m.id)]
  /\ Send(Message(w, m.from, m.method, m.id, TRUE))
  /\ UNCHANGED <<made, at, count, sweep, channel, eager, up, replies, requests,
                 running, tables>>

check_request_queue(w) ==
  /\ requests[w] # <<>>
  /\ requests' = [requests EXCEPT ![w] = Tail(@)]

(* CheckForMasterUpdates: TryRead of the shutdown.                          *)
TryRead(w) ==
  /\ running[w]
  /\ check_request_queue(w)
  /\ running' = [running EXCEPT ![w] = FALSE]
  /\ UNCHANGED <<made, at, count, sweep, netVars, replies, threads, ran, tables>>

(* Shutdown of a worker.                                                    *)
ShutdownWorker(w) ==
  /\ ~running[w] /\ up[w] /\ ~Busy(w)
  /\ up' = [up EXCEPT ![w] = FALSE]
  /\ UNCHANGED <<made, at, count, sweep, pending, channel, eager, replies, requests,
                 threads, running, ran, tables>>

(* The steps of the master's thread, of a network thread, and of the other  *)
(* threads of a worker.                                                     *)
MasterStep ==
  \/ \E m \in Method \cup Queued : beginCall(m)
  \/ Broadcast \/ WaitForSync \/ ShutdownMaster

NetworkStep(n) == (\E s \in Node : Receive(n, s)) \/ NothingArrived(n)

WorkerStep(w) ==
  (\E m \in threads[w] : InvokeCallback(w, m)) \/ TryRead(w) \/ ShutdownWorker(w)

Next ==
  \/ MasterStep
  \/ \E n \in Node : NetworkStep(n)
  \/ \E w \in Worker : WorkerStep(w)

(* Every thread goes on as long as it can; the master makes its calls.      *)
Fairness ==
  /\ WF_vars(MasterStep)
  /\ \A n \in Node : WF_vars(NetworkStep(n))
  /\ \A w \in Worker : WF_vars(WorkerStep(w))

Spec == Init /\ [][Next]_vars /\ Fairness

-----------------------------------------------------------------------------
(* The synchronous calls that have returned.                                *)
Returned == {c \in 1 .. Len(made) : made[c] \in Sync /\ (c < Len(made) \/ at = "idle")}

(* What the tables a and b hold after the calls that were made.             *)
Expected ==
  LET after(t, m) == CASE m = "SWAP_TABLE" -> <<t[2], t[1]>>
                       [] m = "CLEAR_TABLE" -> <<"empty", t[2]>>
                       [] OTHER -> t
  IN FoldLeft(after, <<"a", "b">>, made)

(* When SyncBroadcast returns, every worker has run the callback of this    *)
(* call exactly once, after those of all calls before it, although replies  *)
(* are told apart by their type only, sends leave in no particular order    *)
(* and some callbacks run in threads of their own: between two calls of the *)
(* master, tables that were swapped or cleared are so everywhere.  And a    *)
(* reply that waits for the master answers the call it is making: none is   *)
(* left over that a later call of the method would take for its own.        *)
SyncCallsRun ==
  /\ \A w \in Worker :
       /\ SelectSeq(ran[w], LAMBDA c : c \in Returned) = SetToSortSeq(Returned, <)
       /\ at = "idle" => tables[w] = Expected
  /\ \A m \in Sync, s \in Node :
       /\ ToSet(replies[m][s]) \subseteq {Len(made)}
       /\ replies[m][s] # <<>> => at \in {"send", "wait"}

Stopped == at = "over" /\ \A n \in Node : ~up[n]

(* Every call returns, and in the end every process stops: no two threads   *)
(* wait for each other in Flush and WaitForSync.  MPI must finish small     *)
(* sends early: nobody receives a worker's reply to the termination request *)
(* once the master has stopped.                                             *)
AllStop == <>(eager => Stopped)
=============================================================================
