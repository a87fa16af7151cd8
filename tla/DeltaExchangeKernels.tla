------------------------ MODULE DeltaExchangeKernels ------------------------
(***************************************************************************)
(* Proofs about DeltaExchange, for every set of workers, shards and keys,  *)
(* every graph and every buffer size: the inductive invariant, type        *)
(* correctness, the order of the kernels, and that an iteration only sees  *)
(* a loaded table and a dump only final values. DeltaExchangePlaces and    *)
(* DeltaExchangeProofs go on from here.                                    *)
(***************************************************************************)
EXTENDS DeltaExchange, TLAPS

-----------------------------------------------------------------------------
(* The inductive invariant.                                                 *)

(* Where an update may be: with its maker until it is sent, then in a       *)
(* message for its shard, then in the entry of its key.                     *)
Routed ==
  /\ \A w \in Worker : \A u \in output[w] : u.src = w
  /\ \A w \in Worker, s \in Shard : \A u \in deltaT[w][s] :
       u.src = w /\ ShardOf[u.key] = s /\ Owner[s] # w
  /\ \A m \in InTransit : \A u \in m.updates :
       u.src = m.src /\ ShardOf[u.key] = m.shard
  /\ \A k \in Key : \A u \in F1[k] \cup F2[k] : u.key = k

(* Updates are numbered by the iteration that made them; number 0 is the    *)
(* initial delta, which is never in flight.                                 *)
Numbered ==
  /\ \A w \in Worker : \A u \in output[w] : u.id \in 1..made[w]
  /\ \A w \in Worker, s \in Shard : \A u \in deltaT[w][s] : u.id \in 1..made[w]
  /\ \A m \in InTransit : \A u \in m.updates : u.id \in 1..made[m.src]
  /\ \A k \in Key : \A u \in F1[k] \cup F2[k] : u.id \in 0..made[u.src]

(* No update is in two places.                                              *)
Apart ==
  /\ \A w \in Worker : \A u \in output[w] :
       /\ \A s \in Shard : u \notin deltaT[w][s]
       /\ \A m \in InTransit : u \notin m.updates
       /\ u \notin F1[u.key] /\ u \notin F2[u.key]
  /\ \A w \in Worker, s \in Shard : \A u \in deltaT[w][s] :
       /\ \A m \in InTransit : u \notin m.updates
       /\ u \notin F1[u.key] /\ u \notin F2[u.key]
  /\ \A m \in InTransit : \A u \in m.updates :
       u \notin F1[u.key] /\ u \notin F2[u.key]
  /\ \A k \in Key : \A u \in F1[k] : u \notin F2[k]

(* A message is in one queue, and shares no update with another message.    *)
MessagesApart ==
  /\ \A m \in pending_sends : m \notin inHand /\ m \notin wire /\ m \notin requests
  /\ \A m \in inHand : m \notin wire /\ m \notin requests
  /\ \A m \in wire : m \notin requests
  /\ \A m, n \in InTransit : m # n => \A u \in m.updates : u \notin n.updates
  /\ \A m \in InTransit : m.updates # {}

(* What the kernels of the three runs have in common with the barrier.      *)
KernelOrder ==
  /\ run = 1 => \A w \in Worker : pc[w] \in {"idle", "load", "put", "done"}
  /\ run = 2 => \A w \in Worker :
       pc[w] \in {"idle", "begin", "wait", "iterate", "reset", "emit", "done"}
  /\ run = 3 => \A w \in Worker : pc[w] \in {"idle", "dump", "dumped", "done"}
  /\ phase # "run" => \A w \in Worker : pc[w] = "done"
  /\ phase = "done" => run = 3
  /\ \A w \in Worker : output[w] # {} => pc[w] \in {"reset", "emit"}

(* A key is in the table once its owner has read it, and until then its     *)
(* entry is empty.  Nothing is in flight before all keys are there.         *)
Loading ==
  /\ \A k \in Key : k \in table <=> k \in lines[OwnerOf(k)]
  /\ \A k \in Key : k \notin table => F2[k] = {}
  /\ run = 1 => \A w \in Worker : pc[w] = "done" => lines[w] = Key
  /\ run # 1 => table = Key
  /\ \A w \in Worker : todo[w] \subseteq table
  /\ run = 1 => /\ \A w \in Worker, s \in Shard : deltaT[w][s] = {}
                /\ InTransit = {}

(* How far the first round trip of a barrier has emptied a worker: the      *)
(* delta tables when HandleFlush has run, pending_sends_ when Flush found   *)
(* it empty, and what the network thread had in hand when the reply is out. *)
(* What is still on the wire, or queued at its receiver, it says nothing    *)
(* of.                                                                      *)
BarrierOrder ==
  /\ phase # "flush" => \A w \in Worker : flush[w] = "none"
  /\ \A w \in Worker : flush[w] \notin {"none", "sent"} =>
       \A s \in Shard : deltaT[w][s] = {}
  /\ \A w \in Worker : flush[w] \in {"noPending", "answered", "replied"} =>
       \A m \in pending_sends : m.src # w
  /\ \A w \in Worker : flush[w] = "replied" => \A m \in inHand : m.src # w
  /\ phase = "apply" \/ run = 3 =>
       /\ \A w \in Worker, s \in Shard : deltaT[w][s] = {}
       /\ pending_sends = {} /\ inHand = {}

(* In the third run a worker that has run its kernel has written the value  *)
(* of every key it owns.                                                    *)
Written ==
  run = 3 => \A w \in Worker : pc[w] \in {"dumped", "done"} =>
    \A k \in Key : OwnerOf(k) = w => result[k] = F2[k]

(* pending_writes_ counts at least what waits in the delta tables, and no   *)
(* more than BufMsg updates wait there.                                     *)
Buffering ==
  \A w \in Worker :
    /\ IsFiniteSet(Buffered(w))
    /\ Cardinality(Buffered(w)) <= pending_writes[w]
    /\ Cardinality(Buffered(w)) <= BufMsg

Places == Routed /\ Numbered /\ Apart /\ MessagesApart

(* All of them together: the inductive invariant.                          *)
IInv ==
  /\ TypeOK /\ Places /\ KernelOrder /\ Loading
  /\ Written /\ Buffering
  /\ BarrierOrder

-----------------------------------------------------------------------------
(* Types                                                                    *)

(* The initial deltas are updates.                                         *)
LEMMA InitialUpdateType == \A k \in Key : InitialUpdate(k) \in Update
  BY GraphAssumption DEF InitialUpdate, OwnerOf, Update

(* HandlePutRequest keeps the types of what it changes.                     *)
LEMMA HandlePutType ==
  ASSUME TypeOK, NEW w \in Worker, HandlePutRequest(w)
  PROVE  F1' \in [Key -> SUBSET Update] /\ requests' \in SUBSET Message
  <1>1. RequestsFor(w) \subseteq Message
    BY DEF TypeOK, RequestsFor
  <1>2. \A m \in RequestsFor(w) : m.updates \subseteq Update
    BY <1>1 DEF Message
  <1>3. Updates(RequestsFor(w)) \subseteq Update
    BY <1>2 DEF Updates
  <1> HIDE DEF Update
  <1>4. F1' \in [Key -> SUBSET Update]
    BY <1>3 DEF TypeOK, HandlePutRequest, ApplyUpdates
  <1>5. requests' \in SUBSET Message
    BY DEF TypeOK, HandlePutRequest
  <1> QED BY <1>4, <1>5

(* SendUpdates keeps the types of what it changes.                         *)
LEMMA SendUpdatesType ==
  ASSUME TypeOK, NEW w \in Worker, NEW dt \in [Shard -> SUBSET Update],
         SendUpdates(w, dt)
  PROVE  /\ pending_sends' \in SUBSET Message
         /\ deltaT' \in [Worker -> [Shard -> SUBSET Update]]
         /\ pending_writes' \in [Worker -> Nat]
  <1>1. pending_sends' \in SUBSET Message
    <2>1. \A s \in Shard :
            [src |-> w, shard |-> s, updates |-> dt[s]] \in Message
      BY DEF Message
    <2> QED BY <2>1 DEF TypeOK, SendUpdates
  <1>2. deltaT' \in [Worker -> [Shard -> SUBSET Update]]
    BY DEF TypeOK, SendUpdates
  <1>3. pending_writes' \in [Worker -> Nat]
    BY DEF TypeOK, SendUpdates
  <1> QED BY <1>1, <1>2, <1>3

(* Every step of the main thread keeps the type invariant.                  *)
LEMMA MainThreadType ==
  ASSUME TypeOK, NEW w \in Worker, MainThread(w)
  PROVE  TypeOK'
  <1> USE GraphAssumption, BoundAssumption
         DEF masterVars, threadVars, tableVars, netVars, barrierVars
  <1>1. CASE StartKernel(w)
    <2>1. EntryPoint[run] \in {"load", "begin", "dump"}
      BY DEF TypeOK, EntryPoint
    <2> QED BY <1>1, <2>1 DEF TypeOK, StartKernel
  <1>2. CASE CheckNetwork(w)
    BY <1>2, HandlePutType DEF TypeOK, CheckNetwork
  <1>3. CASE ReadLine(w)
    <2>1. PICK k \in Key \ lines[w] :
            /\ lines' = [lines EXCEPT ![w] = @ \cup {k}]
            /\ IF OwnerOf(k) = w
               THEN /\ table' = table \cup {k}
                    /\ F1' = [F1 EXCEPT ![k] = {InitialUpdate(k)}]
                    /\ UNCHANGED pending_writes
               ELSE /\ pending_writes' = [pending_writes EXCEPT ![w] = @ + 1]
                    /\ UNCHANGED <<table, F1>>
      BY ZenonT(30), <1>3 DEF ReadLine
    <2>2. lines' \in [Worker -> SUBSET Key] /\ table' \in SUBSET Key
      BY <2>1 DEF TypeOK
    <2>3. pending_writes' \in [Worker -> Nat]
      <3>1. \/ pending_writes' = pending_writes
            \/ pending_writes' = [pending_writes EXCEPT ![w] = @ + 1]
        BY <2>1
      <3>2. pending_writes \in [Worker -> Nat]
        BY DEF TypeOK
      <3> QED BY <3>1, <3>2
    <2>4. {InitialUpdate(k)} \in SUBSET Update
      BY InitialUpdateType
    <2>5. F1' = F1 \/ F1' = [F1 EXCEPT ![k] = {InitialUpdate(k)}]
      BY <2>1
    <2>6. F1' \in [Key -> SUBSET Update]
      BY ZenonT(30), <2>4, <2>5 DEF TypeOK
    <2> QED BY <1>3, <2>2, <2>3, <2>6 DEF TypeOK, ReadLine
  <1>4. CASE PeriodicPutRequests(w)
    BY ZenonT(30), <1>4, HandlePutType DEF TypeOK, PeriodicPutRequests
  <1>5. CASE FlushUpdates(w)
    <2>1. deltaT[w] \in [Shard -> SUBSET Update]
      BY DEF TypeOK
    <2> QED BY <1>5, <2>1, SendUpdatesType DEF TypeOK, FlushUpdates
  <1>6. CASE GetIterator(w)
    <2>1. todo' \in [Worker -> SUBSET Key]
      BY SMTT(30), <1>6 DEF TypeOK, GetIterator
    <2> QED BY <1>6, <2>1, HandlePutType DEF TypeOK, GetIterator
  <1>7. CASE RunIter(w)
    <2>1. PICK k \in todo[w] :
            /\ F2' = [F2 EXCEPT ![k] = @ \cup F1[k]]
            /\ output' = [output EXCEPT ![w] =
                            {[src |-> w, id |-> made[w] + 1, key |-> j] :
                                j \in Links[k]}]
            /\ F1' = [F1 EXCEPT ![k] = {}]
            /\ todo' = [todo EXCEPT ![w] = @ \ {k}]
      BY ZenonT(30), <1>7 DEF RunIter
    <2>2. {[src |-> w, id |-> made[w] + 1, key |-> j] : j \in Links[k]}
             \in SUBSET Update
      <3>1. k \in Key /\ Links[k] \subseteq Key /\ made[w] + 1 \in Nat
        BY DEF TypeOK
      <3> QED BY <3>1 DEF Update
    <2>3. output' \in [Worker -> SUBSET Update]
      BY <2>1, <2>2 DEF TypeOK
    <2>4. F1' \in [Key -> SUBSET Update] /\ F2' \in [Key -> SUBSET Update]
      BY <2>1 DEF TypeOK
    <2>5. todo' \in [Worker -> SUBSET Key] /\ made' \in [Worker -> Nat]
      BY <1>7, <2>1 DEF TypeOK, RunIter
    <2> QED BY <1>7, <2>3, <2>4, <2>5 DEF TypeOK, RunIter
  <1>8. CASE Emit(w)
    <2>1. PICK u \in output[w] :
            accumulateF1(w, u) /\ output' = [output EXCEPT ![w] = @ \ {u}]
      BY ZenonT(30), <1>8 DEF Emit
    <2> DEFINE dt == [deltaT[w] EXCEPT ![ShardOf[u.key]] = @ \cup {u}]
    <2>2. u \in Update /\ u.key \in Key /\ ShardOf[u.key] \in Shard
      BY DEF TypeOK, Update
    <2>3. dt \in [Shard -> SUBSET Update]
      <3>1. deltaT[w] \in [Shard -> SUBSET Update]
        BY DEF TypeOK
      <3> QED BY <2>2, <3>1
    <2>4. output' \in [Worker -> SUBSET Update]
      BY <2>1 DEF TypeOK
    <2> HIDE DEF dt
    <2>5. CASE is_local_shard(w, ShardOf[u.key])
      <3>1. /\ F1' = [F1 EXCEPT ![u.key] = @ \cup {u}]
            /\ UNCHANGED <<deltaT, pending_writes, pending_sends>>
        BY <2>1, <2>5 DEF accumulateF1
      <3>2. F1' \in [Key -> SUBSET Update]
        BY <3>1, <2>2 DEF TypeOK
      <3> QED BY <1>8, <2>4, <3>1, <3>2 DEF TypeOK, Emit
    <2>6. CASE /\ ~is_local_shard(w, ShardOf[u.key])
               /\ pending_writes[w] + 1 > BufMsg
      <3>1. SendUpdates(w, dt) /\ UNCHANGED F1
        BY <2>1, <2>6 DEF accumulateF1, dt
      <3> QED BY <1>8, <2>3, <2>4, <3>1, SendUpdatesType DEF TypeOK, Emit
    <2>7. CASE /\ ~is_local_shard(w, ShardOf[u.key])
               /\ ~(pending_writes[w] + 1 > BufMsg)
      <3>1. /\ deltaT' = [deltaT EXCEPT ![w] = dt]
            /\ pending_writes' = [pending_writes EXCEPT ![w] = @ + 1]
            /\ UNCHANGED <<pending_sends, F1>>
        BY <2>1, <2>7 DEF accumulateF1, dt
      <3>2. /\ deltaT' \in [Worker -> [Shard -> SUBSET Update]]
            /\ pending_writes' \in [Worker -> Nat]
        BY <2>3, <3>1 DEF TypeOK
      <3> QED BY <1>8, <2>4, <3>1, <3>2 DEF TypeOK, Emit
    <2> QED BY <2>5, <2>6, <2>7
  <1>9. CASE EndIter(w)
    BY <1>9 DEF TypeOK, EndIter
  <1>10. CASE EndPass(w)
    BY <1>10 DEF TypeOK, EndPass
  <1>11. CASE Dump(w)
    BY <1>11 DEF TypeOK, Dump
  <1>12. CASE KernelDone(w)
    BY <1>12, HandlePutType DEF TypeOK, KernelDone
  <1> QED
    BY <1>1, <1>2, <1>3, <1>4, <1>5, <1>6, <1>7, <1>8, <1>9, <1>10, <1>11,
       <1>12 DEF MainThread

(* The type of every variable of the workers, the network and the barrier   *)
(* is kept by every handler: no state outside the declared ones is reached. *)
THEOREM TypeCorrect == Spec => []TypeOK
  <1> USE GraphAssumption, BoundAssumption
         DEF masterVars, threadVars, tableVars, netVars, barrierVars
  <1>1. Init => TypeOK
    BY DEF Init, TypeOK
  <1>2. TypeOK /\ [Next]_vars => TypeOK'
    <2> SUFFICES ASSUME TypeOK, [Next]_vars
                 PROVE  TypeOK'
      OBVIOUS
    <2>1. ASSUME NEW w \in Worker, MainThread(w) PROVE TypeOK'
      BY <2>1, MainThreadType
    <2>2. ASSUME NEW w \in Worker, PopPending(w) PROVE TypeOK'
      BY <2>2 DEF TypeOK, PopPending, From
    <2>3. ASSUME NEW w \in Worker, Isend(w) PROVE TypeOK'
      BY <2>3 DEF TypeOK, Isend, From
    <2>4. ASSUME NEW w \in Worker, CollectActive(w) PROVE TypeOK'
      BY <2>4 DEF TypeOK, CollectActive, From
    <2>5. ASSUME NEW w \in Worker, Receive(w) PROVE TypeOK'
      BY <2>5 DEF TypeOK, Receive
    <2>6. ASSUME NEW w \in Worker, HandleTermNotification(w) PROVE TypeOK'
      BY <2>6 DEF TypeOK, HandleTermNotification
    <2>7. ASSUME NEW w \in Worker, HandleApply(w) PROVE TypeOK'
      BY <2>7, HandlePutType DEF TypeOK, HandleApply
    <2>8. ASSUME NEW w \in Worker, HandleFlush(w) PROVE TypeOK'
      <3>1. deltaT[w] \in [Shard -> SUBSET Update]
        BY DEF TypeOK
      <3> QED BY <2>8, <3>1, SendUpdatesType DEF TypeOK, HandleFlush
    <2>9. ASSUME NEW w \in Worker, PollActive(w) PROVE TypeOK'
      BY ZenonT(30), <2>9 DEF TypeOK, PollActive
    <2>14. ASSUME NEW w \in Worker, SendReply(w) PROVE TypeOK'
      BY ZenonT(30), <2>14 DEF TypeOK, SendReply
    <2>10. CASE StartFlush
      BY <2>10 DEF TypeOK, StartFlush
    <2>11. CASE StartApply
      BY <2>11 DEF TypeOK, StartApply
    <2>12. CASE EndBarrier
      BY <2>12 DEF TypeOK, EndBarrier
    <2>13. CASE Finished \/ UNCHANGED vars
      BY <2>13 DEF TypeOK, Finished, vars
    <2> QED
      BY <2>1, <2>2, <2>3, <2>4, <2>5, <2>6, <2>7, <2>8, <2>9, <2>10, <2>11,
         <2>12, <2>13, <2>14 DEF Next
  <1> QED BY <1>1, <1>2, PTL DEF Spec

-----------------------------------------------------------------------------
(* The order of kernels                                                     *)

(* The barrier lets a kernel begin only when all workers have ended the    *)
(* last one.                                                               *)
LEMMA KernelOrderInductive ==
  ASSUME TypeOK, KernelOrder, [Next]_vars
  PROVE  KernelOrder'
  <1> USE DEF masterVars, threadVars, tableVars, netVars, barrierVars
  <1>1. ASSUME NEW w \in Worker, MainThread(w) PROVE KernelOrder'
    <2>1. CASE StartKernel(w)
      BY SMTT(30), <2>1 DEF StartKernel, EntryPoint, KernelOrder, TypeOK
    <2>2. CASE CheckNetwork(w)
      BY <2>2 DEF CheckNetwork, KernelOrder
    <2>3. CASE ReadLine(w)
      BY <2>3 DEF ReadLine, KernelOrder, TypeOK
    <2>4. CASE PeriodicPutRequests(w)
      BY ZenonT(30), <2>4 DEF PeriodicPutRequests, KernelOrder, TypeOK
    <2>5. CASE FlushUpdates(w)
      BY <2>5 DEF FlushUpdates, KernelOrder, TypeOK
    <2>6. CASE GetIterator(w)
      BY <2>6 DEF GetIterator, KernelOrder, TypeOK
    <2>7. CASE RunIter(w)
      BY <2>7 DEF RunIter, KernelOrder, TypeOK
    <2>8. CASE Emit(w)
      BY <2>8 DEF Emit, KernelOrder, TypeOK
    <2>9. CASE EndIter(w)
      BY <2>9 DEF EndIter, KernelOrder, TypeOK
    <2>10. CASE EndPass(w)
      BY <2>10 DEF EndPass, KernelOrder, TypeOK
    <2>11. CASE Dump(w)
      BY <2>11 DEF Dump, KernelOrder, TypeOK
    <2>12. CASE KernelDone(w)
      BY <2>12 DEF KernelDone, KernelOrder, TypeOK
    <2> QED BY <1>1, <2>1, <2>2, <2>3, <2>4, <2>5, <2>6, <2>7, <2>8, <2>9,
               <2>10, <2>11, <2>12 DEF MainThread
  <1>2. ASSUME NEW w \in Worker,
               \/ PopPending(w) \/ Isend(w) \/ CollectActive(w) \/ Receive(w)
               \/ HandleTermNotification(w) \/ HandleApply(w)
               \/ HandleFlush(w) \/ PollActive(w) \/ SendReply(w)
        PROVE  KernelOrder'
    <2>1. UNCHANGED <<run, phase, pc, output>>
      BY <1>2 DEF PopPending, Isend, CollectActive, Receive, HandleApply,
                  HandleTermNotification, HandleFlush, PollActive, SendReply
    <2> QED BY SMTT(30), <2>1 DEF KernelOrder
  <1>3. CASE StartFlush
    BY <1>3 DEF StartFlush, KernelOrder, TypeOK
  <1>4. CASE StartApply
    BY <1>4 DEF StartApply, KernelOrder, TypeOK
  <1>5. CASE EndBarrier
    <2>1. \A w \in Worker : output[w] = {}
      BY <1>5 DEF EndBarrier, KernelOrder
    <2>2. CASE run < 3
      BY <1>5, <2>1, <2>2 DEF EndBarrier, KernelOrder, TypeOK
    <2>3. CASE ~(run < 3)
      BY <1>5, <2>1, <2>3 DEF EndBarrier, KernelOrder, TypeOK
    <2> QED BY <2>2, <2>3
  <1>6. CASE Finished \/ UNCHANGED vars
    BY ZenonT(30), <1>6 DEF Finished, vars, KernelOrder
  <1> QED BY <1>1, <1>2, <1>3, <1>4, <1>5, <1>6 DEF Next

(* What HandlePutRequest and SendUpdates do to an empty network.            *)
LEMMA NothingToSend ==
  ASSUME NEW w \in Worker, TypeOK, SendUpdates(w, deltaT[w]),
         UNCHANGED <<inHand, wire, requests>>
  PROVE  /\ \A v \in Worker, s \in Shard : deltaT[v][s] = {} => deltaT'[v][s] = {}
         /\ (\A s \in Shard : deltaT[w][s] = {}) => InTransit' = InTransit
         /\ \A s \in Shard : deltaT'[w][s] = {}
  BY DEF SendUpdates, InTransit, TypeOK

(* A key is loaded by its owner, and everything is loaded before the first *)
(* iteration.                                                              *)
LEMMA LoadingInductive ==
  ASSUME TypeOK, KernelOrder, Loading, [Next]_vars
  PROVE  Loading'
  <1> USE DEF masterVars, threadVars, tableVars, netVars, barrierVars
  <1>0. \A k \in Key : OwnerOf(k) \in Worker
    BY GraphAssumption DEF OwnerOf
  <1>1. ASSUME NEW w \in Worker, MainThread(w) PROVE Loading'
    <2>1. CASE StartKernel(w)
      BY SMTT(30), <2>1 DEF StartKernel, EntryPoint, Loading, TypeOK, InTransit
    <2>2. CASE CheckNetwork(w)
      BY Zenon, <2>2 DEF CheckNetwork, HandlePutRequest, Loading, InTransit
    <2>3. CASE ReadLine(w)
      <3>1. PICK k \in Key \ lines[w] :
              /\ lines' = [lines EXCEPT ![w] = @ \cup {k}]
              /\ table' = IF OwnerOf(k) = w THEN table \cup {k} ELSE table
        BY ZenonT(30), <2>3 DEF ReadLine
      <3>2. /\ lines'[w] = lines[w] \cup {k}
            /\ \A v \in Worker : v # w => lines'[v] = lines[v]
        BY <3>1 DEF TypeOK
      <3>3. /\ UNCHANGED <<run, F2, todo, deltaT, InTransit>>
            /\ pc' = [pc EXCEPT ![w] = "put"]
        BY <2>3 DEF ReadLine, InTransit
      <3>4. \A j \in Key : j \in table' <=> j \in lines'[OwnerOf(j)]
        BY <1>0, <3>1, <3>2 DEF Loading, TypeOK
      <3>5. table \subseteq table' /\ table' \subseteq Key
        BY <3>1 DEF TypeOK
      <3>6. \A v \in Worker : pc'[v] = "done" => pc[v] = "done" /\ v # w
        BY <3>3 DEF TypeOK
      <3> QED BY ZenonT(30), <3>2, <3>3, <3>4, <3>5, <3>6 DEF Loading
    <2>4. CASE PeriodicPutRequests(w)
      <3>1. \A v \in Worker : pc'[v] = "done" => pc[v] = "done"
        BY <2>4 DEF PeriodicPutRequests, TypeOK
      <3> QED BY <2>4, <3>1
            DEF PeriodicPutRequests, HandlePutRequest, Loading, InTransit
    <2>5. CASE FlushUpdates(w)
      <3>1. \A v \in Worker : pc'[v] = "done" => pc[v] = "done"
        BY SMTT(30), <2>5 DEF FlushUpdates, TypeOK
      <3>2. run # 1
        BY ZenonT(30), <2>5 DEF FlushUpdates, KernelOrder
      <3> QED BY <2>5, <3>1, <3>2 DEF FlushUpdates, Loading
    <2>6. CASE GetIterator(w)
      <3>1. run # 1
        BY <2>6 DEF GetIterator, KernelOrder
      <3>2. \A v \in Worker : todo'[v] \subseteq table
        BY SMTT(30), <2>6 DEF GetIterator, Loading, TypeOK
      <3> QED BY ZenonT(30), <2>6, <3>1, <3>2 DEF GetIterator, Loading
    <2>7. CASE RunIter(w)
      <3>1. run # 1
        BY SMTT(30), <2>7 DEF RunIter, KernelOrder
      <3>2. \A v \in Worker : todo'[v] \subseteq todo[v]
        BY <2>7 DEF RunIter, TypeOK
      <3>3. table = Key
        BY SMTT(30), <3>1 DEF Loading
      <3> QED BY SMTT(30), <2>7, <3>1, <3>2, <3>3 DEF RunIter, Loading
    <2>8. CASE Emit(w)
      <3>1. run # 1
        BY <2>8 DEF Emit, KernelOrder
      <3> QED BY <2>8, <3>1 DEF Emit, Loading
    <2>9. CASE EndIter(w)
      <3>1. run # 1
        BY SMTT(30), <2>9 DEF EndIter, KernelOrder
      <3> QED BY SMTT(30), <2>9, <3>1 DEF EndIter, Loading
    <2>10. CASE EndPass(w)
      <3>1. run # 1
        BY <2>10 DEF EndPass, KernelOrder
      <3>2. \A v \in Worker : todo'[v] \subseteq todo[v]
        BY SMTT(30), <2>10 DEF EndPass, TypeOK
      <3> QED BY SMTT(30), <2>10, <3>1, <3>2 DEF EndPass, Loading
    <2>11. CASE Dump(w)
      <3>1. run # 1
        BY SMTT(30), <2>11 DEF Dump, KernelOrder
      <3> QED BY SMTT(30), <2>11, <3>1 DEF Dump, Loading
    <2>12. CASE KernelDone(w)
      <3>1. run = 1 => lines[w] = Key
        BY <2>12 DEF KernelDone, KernelOrder
      <3>2. \A v \in Worker : v # w => pc'[v] = pc[v]
        BY <2>12 DEF KernelDone, TypeOK
      <3>3. InTransit' \subseteq InTransit
        BY <2>12 DEF KernelDone, HandlePutRequest, InTransit
      <3> QED BY <2>12, <3>1, <3>2, <3>3 DEF KernelDone, Loading
    <2> QED BY SMTT(30), <1>1, <2>1, <2>2, <2>3, <2>4, <2>5, <2>6, <2>7, <2>8, <2>9,
               <2>10, <2>11, <2>12 DEF MainThread
  <1>2. ASSUME NEW w \in Worker, PopPending(w) \/ Isend(w) \/ Receive(w)
        PROVE  Loading'
    <2>1. UNCHANGED <<run, pc, lines, todo, table, F2, deltaT>>
      BY <1>2 DEF PopPending, Isend, Receive
    <2>2. InTransit' \subseteq InTransit
      BY SMTT(30), <1>2 DEF PopPending, Isend, Receive, InTransit, From
    <2> QED BY <2>1, <2>2 DEF Loading
  <1>3. ASSUME NEW w \in Worker, \/ CollectActive(w) \/ HandleTermNotification(w)
                                 \/ HandleApply(w) \/ PollActive(w)
                                 \/ SendReply(w)
        PROVE  Loading'
    <2>1. UNCHANGED <<run, pc, lines, todo, table, F2, deltaT>>
      BY SMTT(30), <1>3 DEF CollectActive, HandleTermNotification, HandleApply,
                             PollActive, SendReply
    <2>2. InTransit' \subseteq InTransit
      BY <1>3 DEF CollectActive, HandleTermNotification, HandleApply,
                  HandlePutRequest, PollActive, SendReply, InTransit
    <2> QED BY <2>1, <2>2 DEF Loading
  <1>4. ASSUME NEW w \in Worker, HandleFlush(w) PROVE Loading'
    BY ZenonT(30), <1>4, NothingToSend DEF HandleFlush, Loading
  <1>5. CASE StartFlush \/ StartApply
    BY SMTT(30), <1>5 DEF StartFlush, StartApply, Loading, InTransit
  <1>6. CASE EndBarrier
    <2>1. UNCHANGED <<lines, todo, table, F2, deltaT, InTransit>>
      BY <1>6 DEF EndBarrier, InTransit
    <2>2. run' # 1
      BY <1>6 DEF EndBarrier, TypeOK
    <2>3. table = Key
      <3>1. CASE run = 1
        <4>1. \A w \in Worker : lines[w] = Key
          BY <1>6, <3>1 DEF EndBarrier, KernelOrder, Loading
        <4> QED BY ZenonT(30), <1>0, <4>1 DEF Loading, TypeOK
      <3>2. CASE run # 1
        BY <3>2 DEF Loading
      <3> QED BY <3>1, <3>2
    <2> QED BY <2>1, <2>2, <2>3 DEF Loading
  <1>7. CASE Finished \/ UNCHANGED vars
    BY <1>7 DEF Finished, vars, Loading, InTransit
  <1> QED BY <1>1, <1>2, <1>3, <1>4, <1>5, <1>6, <1>7 DEF Next

(* The values are written after the last iteration, and not changed after   *)
(* that.                                                                    *)
LEMMA WrittenInductive ==
  ASSUME TypeOK, KernelOrder, Loading, Written, [Next]_vars
  PROVE  Written'
  <1> USE DEF masterVars, threadVars, tableVars, netVars, barrierVars
  <1> DEFINE Over(w) == pc[w] \in {"dumped", "done"}
  <1>0. ASSUME UNCHANGED <<run, F2, result>>, \A v \in Worker : Over(v)' => Over(v)
        PROVE  Written'
    BY Zenon, <1>0 DEF Written
  <1>1. ASSUME run' # 3 PROVE Written'
    BY Zenon, <1>1 DEF Written
  <1>2. ASSUME NEW w \in Worker, MainThread(w) PROVE Written'
    <2>1. CASE StartKernel(w)
      <3>1. EntryPoint[run] \notin {"dumped", "done"}
        BY DEF EntryPoint, TypeOK
      <3>2. UNCHANGED <<run, F2, result>> /\ \A v \in Worker : Over(v)' => Over(v)
        BY <2>1, <3>1 DEF StartKernel, TypeOK
      <3> QED BY <1>0, <3>2
    <2>2. CASE CheckNetwork(w)
      <3>1. UNCHANGED <<run, F2, result, pc>>
        BY <2>2 DEF CheckNetwork
      <3> QED BY Zenon, <1>0, <3>1
    <2>3. CASE \/ ReadLine(w) \/ FlushUpdates(w) \/ GetIterator(w) \/ RunIter(w)
               \/ Emit(w) \/ EndIter(w) \/ EndPass(w)
      <3>1. run' = run /\ pc[w] \in {"load", "begin", "wait", "iterate", "emit"}
        BY ZenonT(30), <2>3 DEF ReadLine, FlushUpdates, GetIterator, RunIter, Emit, EndIter, EndPass
      <3>2. run # 3
        BY <3>1 DEF KernelOrder
      <3> QED BY SMTT(30), <1>1, <3>1, <3>2
    <2>4. CASE PeriodicPutRequests(w)
      <3>1. run' = run /\ pc[w] \in {"put", "reset"}
        BY <2>4 DEF PeriodicPutRequests
      <3>2. run # 3
        BY <3>1 DEF KernelOrder
      <3> QED BY <1>1, <3>1, <3>2
    <2>5. CASE Dump(w)
      <3>1. /\ run' = run /\ F2' = F2 /\ table = Key
            /\ pc' = [pc EXCEPT ![w] = "dumped"]
            /\ result' = [k \in Key |-> IF k \in table /\ OwnerOf(k) = w
                                        THEN F2[k] ELSE result[k]]
        BY <2>5 DEF Dump, KernelOrder, Loading
      <3>2. \A k \in Key : result'[k] = IF OwnerOf(k) = w THEN F2[k] ELSE result[k]
        BY <3>1
      <3>3. \A v \in Worker : v # w => pc'[v] = pc[v]
        BY <3>1 DEF TypeOK
      <3> QED BY ZenonT(30), <3>1, <3>2, <3>3 DEF Written
    <2>6. CASE KernelDone(w)
      <3>1. UNCHANGED <<run, F2, result>> /\ pc' = [pc EXCEPT ![w] = "done"]
        BY Zenon, <2>6 DEF KernelDone
      <3>2. run = 3 => Over(w)
        BY <2>6 DEF KernelDone, KernelOrder
      <3>3. run = 3 => \A v \in Worker : Over(v)' => Over(v)
        BY SMTT(30), <3>1, <3>2 DEF TypeOK
      <3> QED BY ZenonT(30), <1>0, <1>1, <3>1, <3>3
    <2> QED BY Zenon, <1>2, <2>1, <2>2, <2>3, <2>4, <2>5, <2>6 DEF MainThread
  <1>3. ASSUME NEW w \in Worker,
               \/ PopPending(w) \/ Isend(w) \/ CollectActive(w) \/ Receive(w)
               \/ HandleTermNotification(w) \/ HandleApply(w)
               \/ HandleFlush(w) \/ PollActive(w) \/ SendReply(w)
        PROVE  Written'
    <2>1. UNCHANGED <<run, F2, result, pc>>
      BY <1>3 DEF PopPending, Isend, CollectActive, Receive, HandleApply,
                  HandleTermNotification, HandleFlush, PollActive, SendReply
    <2> QED BY Zenon, <1>0, <2>1
  <1>4. CASE StartFlush \/ StartApply \/ Finished \/ UNCHANGED vars
    <2>1. UNCHANGED <<run, F2, result, pc>>
      BY SMTT(30), <1>4 DEF StartFlush, StartApply, Finished, vars
    <2> QED BY ZenonT(30), <1>0, <2>1
  <1>5. CASE EndBarrier
    <2>1. UNCHANGED <<F2, result>>
      BY <1>5 DEF EndBarrier
    <2>2. (run' = run /\ pc' = pc) \/ \A w \in Worker : pc'[w] = "idle"
      BY <1>5 DEF EndBarrier
    <2> QED BY Zenon, <1>0, <2>1, <2>2 DEF Written
  <1> QED BY Zenon, <1>2, <1>3, <1>4, <1>5 DEF Next
=============================================================================
