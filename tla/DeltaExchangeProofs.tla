------------------------- MODULE DeltaExchangeProofs ------------------------
(***************************************************************************)
(* What the flush and apply round trips of DeltaExchange establish, the    *)
(* bound of the delta tables, the invariant as a whole, the safety         *)
(* properties it implies, and that DeltaExchange implements                *)
(* AccumulatorTable.                                                       *)
(***************************************************************************)
EXTENDS DeltaExchangePlaces, FiniteSetTheorems

-----------------------------------------------------------------------------
(* The two round trips of the barrier                                       *)

(* The variables BarrierOrder speaks of.                                    *)
barrierOrderVars == <<run, phase, flush, deltaT, pending_sends, inHand>>

(* A step that changes none of them.                                        *)
LEMMA BarrierKept ==
  ASSUME BarrierOrder, UNCHANGED barrierOrderVars
  PROVE  BarrierOrder'
  BY Zenon DEF BarrierOrder, barrierOrderVars

(* A step of a kernel: no barrier is under way.                             *)
LEMMA BarrierIdle ==
  ASSUME BarrierOrder, phase = "run", run # 3,
         UNCHANGED <<run, phase, flush, inHand>>
  PROVE  BarrierOrder'
  BY DEF BarrierOrder

(* FLUSH empties the delta tables of a worker, Flush() returns when its     *)
(* pending_sends_ was found empty, and its reply leaves when the network    *)
(* thread has nothing in hand.                                              *)
LEMMA BarrierInductive ==
  ASSUME TypeOK, KernelOrder, BarrierOrder, [Next]_vars
  PROVE  BarrierOrder'
  <1> USE DEF masterVars, threadVars, tableVars, netVars, barrierVars
  <1>1. ASSUME NEW w \in Worker, MainThread(w) PROVE BarrierOrder'
    <2>1. CASE \/ StartKernel(w) \/ EndIter(w) \/ EndPass(w) \/ Dump(w)
               \/ ReadLine(w) \/ RunIter(w) \/ CheckNetwork(w)
               \/ GetIterator(w) \/ KernelDone(w) \/ PeriodicPutRequests(w)
      <3>1. UNCHANGED barrierOrderVars
        BY Zenon, <2>1
           DEF StartKernel, EndIter, EndPass, Dump, ReadLine, RunIter,
               CheckNetwork, GetIterator, KernelDone, PeriodicPutRequests,
               barrierOrderVars
      <3> QED BY Zenon, <3>1, BarrierKept
    <2>2. CASE FlushUpdates(w)
      <3>1. phase = "run" /\ run # 3
        BY ZenonT(30), <2>2 DEF FlushUpdates, KernelOrder, TypeOK
      <3> QED BY <2>2, <3>1, BarrierIdle DEF FlushUpdates
    <2>3. CASE Emit(w)
      <3>1. phase = "run" /\ run # 3
        BY ZenonT(30), <2>3 DEF Emit, KernelOrder, TypeOK
      <3> QED BY <2>3, <3>1, BarrierIdle DEF Emit
    <2> QED BY Zenon, <1>1, <2>1, <2>2, <2>3 DEF MainThread
  <1>2. ASSUME NEW w \in Worker, PopPending(w) PROVE BarrierOrder'
    <2>1. PICK m \in From(pending_sends, w) :
            pending_sends' = pending_sends \ {m} /\ inHand' = inHand \cup {m}
      BY <1>2 DEF PopPending
    <2>2. m \in pending_sends /\ m.src = w
      BY <2>1 DEF From
    <2>3. ~(phase = "apply" \/ run = 3) /\ flush[w] # "replied"
      BY <1>2, <2>2 DEF BarrierOrder
    <2> QED BY <1>2, <2>1, <2>2, <2>3 DEF PopPending, BarrierOrder
  <1>3. ASSUME NEW w \in Worker, Isend(w) PROVE BarrierOrder'
    <2>1. inHand' \subseteq inHand /\ UNCHANGED <<run, phase, flush, deltaT, pending_sends>>
      BY <1>3 DEF Isend
    <2> QED BY <2>1 DEF BarrierOrder
  <1>4. ASSUME NEW w \in Worker, \/ CollectActive(w) \/ Receive(w)
                                 \/ HandleTermNotification(w) \/ HandleApply(w)
        PROVE  BarrierOrder'
    <2>1. UNCHANGED barrierOrderVars
      BY Zenon, <1>4 DEF CollectActive, Receive, HandleTermNotification,
                         HandleApply, barrierOrderVars
    <2> QED BY Zenon, <2>1, BarrierKept
  <1>5. ASSUME NEW w \in Worker, HandleFlush(w) PROVE BarrierOrder'
    <2>1. /\ \A v \in Worker, s \in Shard : deltaT[v][s] = {} => deltaT'[v][s] = {}
          /\ \A s \in Shard : deltaT'[w][s] = {}
      BY <1>5, NothingToSend DEF HandleFlush
    <2>2. /\ flush'[w] = "polling"
          /\ \A v \in Worker : v # w => flush'[v] = flush[v]
      BY <1>5 DEF HandleFlush, TypeOK
    <2>3. \A m \in pending_sends' : m \in pending_sends \/ m.src = w
      BY <1>5 DEF HandleFlush, SendUpdates
    <2>4. run = 3 => pending_sends' = {}
      BY <1>5 DEF HandleFlush, SendUpdates, BarrierOrder
    <2>5. phase = "flush" /\ UNCHANGED <<run, phase, inHand>>
      BY <1>5 DEF HandleFlush
    <2> QED BY SMTT(30), <2>1, <2>2, <2>3, <2>4, <2>5 DEF BarrierOrder
  <1>6. ASSUME NEW w \in Worker, PollActive(w) PROVE BarrierOrder'
    <2>1. /\ UNCHANGED <<run, phase, deltaT, pending_sends, inHand>>
          /\ flush[w] \in {"polling", "noActive", "noPending"}
      BY Zenon, <1>6 DEF PollActive
    <2>2. /\ flush'[w] \in {"polling", "noActive", "noPending", "answered"}
          /\ flush'[w] \in {"noPending", "answered"} =>
               \A m \in pending_sends : m.src # w
      BY SMTT(30), <1>6 DEF PollActive, From, TypeOK, BarrierOrder
    <2>3. \A v \in Worker : v # w => flush'[v] = flush[v]
      BY SMTT(30), <1>6 DEF PollActive, TypeOK
    <2>4. phase = "flush"
      BY <2>1 DEF BarrierOrder
    <2> QED BY SMTT(30), <2>1, <2>2, <2>3, <2>4 DEF BarrierOrder
  <1>7. ASSUME NEW w \in Worker, SendReply(w) PROVE BarrierOrder'
    <2>1. /\ UNCHANGED <<run, phase, deltaT, pending_sends, inHand>>
          /\ flush[w] = "answered" /\ \A m \in inHand : m.src # w
      BY <1>7 DEF SendReply, Sending, From
    <2>2. /\ flush'[w] = "replied"
          /\ \A v \in Worker : v # w => flush'[v] = flush[v]
      BY <1>7 DEF SendReply, TypeOK
    <2>3. phase = "flush"
      BY <2>1 DEF BarrierOrder
    <2> QED BY SMTT(30), <2>1, <2>2, <2>3 DEF BarrierOrder
  <1>8. CASE StartFlush
    BY <1>8 DEF StartFlush, BarrierOrder
  <1>9. CASE StartApply
    <2>1. \A m \in pending_sends \cup inHand : m.src \in Worker
      BY DEF TypeOK, Message
    <2>2. \A w \in Worker : flush[w] = "replied"
      BY <1>9 DEF StartApply
    <2>3. /\ pending_sends = {} /\ inHand = {}
          /\ \A w \in Worker, s \in Shard : deltaT[w][s] = {}
      BY <2>1, <2>2 DEF BarrierOrder
    <2> QED BY <1>9, <2>3 DEF StartApply, BarrierOrder
  <1>10. CASE EndBarrier
    <2>1. /\ phase = "apply" /\ phase' \notin {"apply", "flush"}
          /\ UNCHANGED <<deltaT, pending_sends, inHand>>
          /\ \A w \in Worker : flush'[w] = "none"
      BY <1>10 DEF EndBarrier, BarrierOrder
    <2> QED BY SMTT(30), <2>1 DEF BarrierOrder
  <1>11. CASE Finished \/ UNCHANGED vars
    <2>1. UNCHANGED barrierOrderVars
      BY <1>11 DEF Finished, vars, barrierOrderVars
    <2> QED BY Zenon, <2>1, BarrierKept
  <1> QED BY Zenon, <1>1, <1>2, <1>3, <1>4, <1>5, <1>6, <1>7, <1>8, <1>9, <1>10,
             <1>11 DEF Next

-----------------------------------------------------------------------------
(* The delta tables                                                         *)

(* SendUpdates empties the delta tables of w and leaves those of the others *)
(* alone.                                                                   *)
LEMMA SentBuffers ==
  ASSUME TypeOK, NEW w \in Worker, NEW dt, SendUpdates(w, dt)
  PROVE  /\ Buffered(w)' = {}
         /\ \A v \in Worker : v # w =>
              Buffered(v)' = Buffered(v) /\ pending_writes'[v] = pending_writes[v]
         /\ pending_writes'[w] = 0
  <1>1. \A s \in Shard : deltaT'[w][s] = {}
    BY DEF SendUpdates, TypeOK
  <1>2. \A v \in Worker : v # w => deltaT'[v] = deltaT[v] /\ pending_writes'[v] = pending_writes[v]
    BY DEF SendUpdates, TypeOK
  <1>3. pending_writes'[w] = 0
    BY DEF SendUpdates, TypeOK
  <1>4. Buffered(w)' = {}
    BY Zenon, <1>1 DEF Buffered
  <1>5. \A v \in Worker : v # w => Buffered(v)' = Buffered(v)
    BY Zenon, <1>2 DEF Buffered
  <1> QED BY ZenonT(30), <1>2, <1>3, <1>4, <1>5

(* An update that is buffered is counted, and the delta tables are sent     *)
(* when the count would exceed BufMsg.                                      *)
LEMMA BufferInductive ==
  ASSUME TypeOK, Buffering, [Next]_vars
  PROVE  Buffering'
  <1> USE DEF masterVars, threadVars, tableVars, netVars, barrierVars
  <1> DEFINE Bounded(B, n) == IsFiniteSet(B) /\ Cardinality(B) <= n /\ Cardinality(B) <= BufMsg
  <1>0. \A v \in Worker : Bounded(Buffered(v), pending_writes[v]) /\ pending_writes[v] \in Nat
    BY Zenon DEF Buffering, TypeOK
  <1>e. Bounded({}, 0)
    BY FS_EmptySet, BoundAssumption
  <1>1. ASSUME UNCHANGED <<deltaT, pending_writes>> PROVE Buffering'
    BY Zenon, <1>1 DEF Buffering, Buffered
  <1>2. ASSUME NEW w \in Worker, NEW dt, SendUpdates(w, dt) PROVE Buffering'
    <2> SUFFICES ASSUME NEW v \in Worker PROVE Bounded(Buffered(v)', pending_writes'[v])
      BY Zenon DEF Buffering
    <2> HIDE DEF Bounded
    <2> QED BY Zenon, <1>0, <1>2, <1>e, SentBuffers
  <1>3. ASSUME NEW w \in Worker, ReadLine(w) PROVE Buffering'
    <2>1. deltaT' = deltaT
      BY <1>3 DEF ReadLine
    <2>2. \A v \in Worker : pending_writes'[v] \in {pending_writes[v], pending_writes[v] + 1}
      BY <1>3 DEF ReadLine, TypeOK
    <2>3. \A v \in Worker : Buffered(v)' = Buffered(v)
      BY Zenon, <2>1 DEF Buffered
    <2> SUFFICES ASSUME NEW v \in Worker PROVE Bounded(Buffered(v)', pending_writes'[v])
      BY Zenon DEF Buffering
    <2>4. Cardinality(Buffered(v)) \in Nat
      BY <1>0, FS_CardinalityType
    <2>5. pending_writes[v] <= pending_writes'[v]
      BY <1>0, <2>2
    <2>6. pending_writes'[v] \in Nat
      BY <1>0, <2>2
    <2> QED BY <1>0, <2>3, <2>4, <2>5, <2>6
  <1>4. ASSUME NEW w \in Worker, Emit(w) PROVE Buffering'
    <2>1. PICK u \in output[w] : accumulateF1(w, u)
      BY Zenon, <1>4 DEF Emit
    <2> DEFINE s == ShardOf[u.key]
               dt == [deltaT[w] EXCEPT ![s] = @ \cup {u}]
    <2>2. \/ UNCHANGED <<deltaT, pending_writes>>
          \/ SendUpdates(w, dt)
          \/ /\ ~ (pending_writes[w] + 1 > BufMsg)
             /\ deltaT' = [deltaT EXCEPT ![w] = dt]
             /\ pending_writes' = [pending_writes EXCEPT ![w] = @ + 1]
      BY Zenon, <2>1 DEF accumulateF1
    <2>3. ASSUME ~ (pending_writes[w] + 1 > BufMsg),
                 deltaT' = [deltaT EXCEPT ![w] = dt],
                 pending_writes' = [pending_writes EXCEPT ![w] = @ + 1]
          PROVE  Buffering'
      <3>1. \A t \in Shard : deltaT'[w][t] = IF t = s THEN deltaT[w][t] \cup {u} ELSE deltaT[w][t]
        BY Zenon, <2>3 DEF TypeOK
      <3>2. \A v \in Worker : v # w => deltaT'[v] = deltaT[v] /\ pending_writes'[v] = pending_writes[v]
        BY <2>3 DEF TypeOK
      <3>3. pending_writes'[w] = pending_writes[w] + 1
        BY <2>3 DEF TypeOK
      <3>4. s \in Shard
        BY GraphAssumption DEF TypeOK, Update
      <3> HIDE DEF s, dt
      <3>5. Buffered(w)' = Buffered(w) \cup {u}
        BY Zenon, <3>1, <3>4 DEF Buffered
      <3>6. \A v \in Worker : v # w => Buffered(v)' = Buffered(v)
        BY Zenon, <3>2 DEF Buffered
      <3>7. /\ IsFiniteSet(Buffered(w) \cup {u})
            /\ \/ Cardinality(Buffered(w) \cup {u}) = Cardinality(Buffered(w))
               \/ Cardinality(Buffered(w) \cup {u}) = Cardinality(Buffered(w)) + 1
        BY Zenon, <1>0, FS_AddElement
      <3>8. Cardinality(Buffered(w)) \in Nat
        BY Zenon, <1>0, FS_CardinalityType
      <3>9. Bounded(Buffered(w)', pending_writes'[w])
        BY <1>0, <2>3, <3>3, <3>5, <3>7, <3>8, BoundAssumption
      <3> HIDE DEF Bounded
      <3>10. ASSUME NEW v \in Worker PROVE Bounded(Buffered(v)', pending_writes'[v])
        BY Zenon, <1>0, <3>2, <3>6, <3>9
      <3> QED BY ZenonT(30), <3>10 DEF Buffering, Bounded
    <2> HIDE DEF dt
    <2> QED BY Zenon, <1>1, <1>2, <2>2, <2>3
  <1>5. ASSUME NEW w \in Worker, FlushUpdates(w) \/ HandleFlush(w) PROVE Buffering'
    BY Zenon, <1>2, <1>5 DEF FlushUpdates, HandleFlush
  <1>6. ASSUME NEW w \in Worker,
               \/ StartKernel(w) \/ CheckNetwork(w) \/ PeriodicPutRequests(w)
               \/ GetIterator(w) \/ RunIter(w) \/ EndIter(w) \/ EndPass(w)
               \/ Dump(w) \/ KernelDone(w)
        PROVE  Buffering'
    BY Zenon, <1>1, <1>6 DEF StartKernel, CheckNetwork, PeriodicPutRequests, GetIterator,
       RunIter, EndIter, EndPass, Dump, KernelDone
  <1>7. ASSUME NEW w \in Worker,
               \/ PopPending(w) \/ Isend(w) \/ CollectActive(w) \/ Receive(w)
               \/ HandleTermNotification(w) \/ HandleApply(w) \/ PollActive(w)
               \/ SendReply(w)
        PROVE  Buffering'
    BY Zenon, <1>1, <1>7 DEF PopPending, Isend, CollectActive, Receive, HandleApply,
       HandleTermNotification, PollActive, SendReply
  <1>8. CASE StartFlush \/ StartApply \/ EndBarrier \/ Finished \/ UNCHANGED vars
    BY Zenon, <1>1, <1>8 DEF StartFlush, StartApply, EndBarrier, Finished, vars
  <1> QED BY ZenonT(30), <1>3, <1>4, <1>5, <1>6, <1>7, <1>8 DEF Next, MainThread

-----------------------------------------------------------------------------
(* The theorems                                                             *)

(* The strengthening that everything below rests on is an invariant.        *)
THEOREM InductiveInvariant == Spec => []IInv
  <1>1. Init => IInv
    <2> SUFFICES ASSUME Init PROVE IInv
      OBVIOUS
    <2>1. InTransit = {}
      BY SMTT(30) DEF Init, InTransit
    <2>2. TypeOK
      BY SMTT(30), BoundAssumption DEF Init, TypeOK
    <2>3. Places
      BY <2>1 DEF Init, Places, Routed, Numbered, Apart, MessagesApart
    <2>4. KernelOrder
      BY DEF Init, KernelOrder
    <2>5. Loading
      BY <2>1, GraphAssumption DEF Init, Loading, OwnerOf
    <2>6. BarrierOrder
      BY <2>1 DEF Init, BarrierOrder
    <2>7. Written
      BY DEF Init, Written
    <2>8. Buffering
      <3>1. \A w \in Worker : Buffered(w) = {} /\ pending_writes[w] = 0
        BY DEF Init, Buffered
      <3> QED BY <3>1, FS_EmptySet, BoundAssumption DEF Buffering
    <2> QED BY Zenon, <2>2, <2>3, <2>4, <2>5, <2>6, <2>7, <2>8 DEF IInv
  <1>2. IInv /\ [Next]_vars /\ TypeOK' => IInv'
    BY Zenon, PlacesInductive, KernelOrderInductive, LoadingInductive,
       WrittenInductive, BufferInductive, BarrierInductive DEF IInv
  <1> QED BY <1>1, <1>2, TypeCorrect, PTL DEF Spec

(* Membership in InFlight, spelt out.                                       *)
InFlightSpelt ==
  \A u : u \in InFlight <=>
    \/ \E w \in Worker : u \in output[w]
    \/ \E w \in Worker, s \in Shard : u \in deltaT[w][s]
    \/ \E m \in InTransit : u \in m.updates

(* It says what InFlight is, in this state ...                             *)
LEMMA InFlightMember == InFlightSpelt
  <1> SUFFICES ASSUME NEW u
               PROVE  u \in InFlight <=>
                        \/ \E w \in Worker : u \in output[w]
                        \/ \E w \in Worker, s \in Shard : u \in deltaT[w][s]
                        \/ \E m \in InTransit : u \in m.updates
    BY DEF InFlightSpelt
  <1>1. \A w : u \in Buffered(w) <=> \E s \in Shard : u \in deltaT[w][s]
    BY DEF Buffered
  <1>2. u \in Updates(InTransit) <=> \E m \in InTransit : u \in m.updates
    BY DEF Updates
  <1>3. u \in Unsent <=>
          \E w \in Worker : u \in output[w] \/ u \in Buffered(w)
    BY DEF Unsent
  <1> QED BY <1>1, <1>2, <1>3 DEF InFlight

(* ... and in the next.                                                    *)
LEMMA InFlightMemberNext == InFlightSpelt'
  BY InFlightMember, PTL

(* What is in flight are updates.                                          *)
LEMMA InFlightType == TypeOK => InFlight \subseteq Update
  <1> SUFFICES ASSUME TypeOK, NEW u \in InFlight PROVE u \in Update
    OBVIOUS
  <1>1. /\ \A w \in Worker : output[w] \subseteq Update
        /\ \A w \in Worker, s \in Shard : deltaT[w][s] \subseteq Update
        /\ \A m \in InTransit : m.updates \subseteq Update
    BY DEF TypeOK, InTransit, Message
  <1> QED BY <1>1, InFlightMember DEF InFlightSpelt

(* No update is ever in two places at once, however the three threads of    *)
(* the workers and the network interleave.                                  *)
THEOREM UpdatesAtMostOnce == Spec => []AtMostOnce
  <1>1. IInv => AtMostOnce
    <2> SUFFICES ASSUME IInv PROVE AtMostOnce
      BY SMTT(30)
    <2>1. \A u \in InFlight : u \notin F1[u.key] \cup F2[u.key]
      BY SMTT(30), InFlightMember DEF InFlightSpelt, IInv, Places, Apart
    <2>2. \A w \in Worker : \A u \in output[w] :
            u \notin Buffered(w) /\ u \notin Updates(InTransit)
      BY DEF IInv, Places, Apart, Buffered, Updates
    <2>3. \A w \in Worker : \A u \in Buffered(w) : u \notin Updates(InTransit)
      BY DEF IInv, Places, Apart, Buffered, Updates
    <2>4. \A k \in Key : F1[k] \cap F2[k] = {}
      BY DEF IInv, Places, Apart
    <2>5. \A m, n \in InTransit : m # n => m.updates \cap n.updates = {}
      BY DEF IInv, Places, MessagesApart
    <2> QED BY ZenonT(30), <2>1, <2>2, <2>3, <2>4, <2>5 DEF AtMostOnce
  <1> QED BY <1>1, InductiveInvariant, PTL

(* The CHECK in StateTable::accumulateF1 never fails: every update in       *)
(* flight is for a key its owner has loaded.                                *)
THEOREM AccumulateFindsKey == Spec => []UpdatesHitLoadedKeys
  <1>1. IInv => UpdatesHitLoadedKeys
    <2> SUFFICES ASSUME IInv, NEW u \in InFlight PROVE u.key \in table
      BY DEF UpdatesHitLoadedKeys
    <2>1. u.key \in Key
      BY InFlightType DEF IInv, Update
    <2>2. run # 1
      BY InFlightMember DEF InFlightSpelt, IInv, Loading, KernelOrder
    <2> QED BY <2>1, <2>2 DEF IInv, Loading
  <1> QED BY <1>1, InductiveInvariant, PTL

(* When the workers have answered FLUSH, every update a kernel has made has *)
(* been applied or given to MPI, and it stays so while the last kernel      *)
(* runs.  Nothing is assumed of MPI, or of the moment active() is read.     *)
THEOREM FlushLeavesNothing == Spec => []FlushedOut
  <1>1. IInv => FlushedOut
    <2> SUFFICES ASSUME IInv, phase = "apply" \/ run = 3
                 PROVE  Unsent = {} /\ pending_sends = {} /\ inHand = {}
      BY DEF FlushedOut
    <2>1. /\ pending_sends = {} /\ inHand = {}
          /\ \A w \in Worker, s \in Shard : deltaT[w][s] = {}
      BY DEF IInv, BarrierOrder
    <2>2. \A w \in Worker : output[w] = {}
      BY DEF IInv, KernelOrder
    <2> QED BY <2>1, <2>2 DEF Unsent, Buffered
  <1> QED BY <1>1, InductiveInvariant, PTL

(* A worker never holds back more than FLAGS_bufmsg updates.                *)
THEOREM BuffersStayBounded == Spec => []BufferBounded
  <1>1. IInv => BufferBounded
    BY Zenon DEF IInv, Buffering, BufferBounded
  <1> QED BY <1>1, InductiveInvariant, PTL

(* MaiterKernel3 writes the final value of every node: it starts after the  *)
(* last iteration and finds the whole graph loaded.                         *)
THEOREM DumpWritesFinalValues == Spec => []DumpIsFinal
  <1>1. IInv => DumpIsFinal
    <2> SUFFICES ASSUME IInv, phase = "done" PROVE table = Key /\ result = F2
      BY Zenon DEF DumpIsFinal
    <2>1. run = 3 /\ \A w \in Worker : pc[w] = "done"
      BY DEF IInv, KernelOrder
    <2>2. table = Key
      BY <2>1 DEF IInv, Loading
    <2>3. \A k \in Key : OwnerOf(k) \in Worker
      BY GraphAssumption DEF OwnerOf
    <2>4. \A k \in Key : result[k] = F2[k]
      BY Zenon, <2>1, <2>3 DEF IInv, Written
    <2>5. result \in [Key -> SUBSET Update] /\ F2 \in [Key -> SUBSET Update]
      BY Zenon DEF IInv, TypeOK
    <2> QED BY <2>2, <2>4, <2>5
  <1> QED BY <1>1, InductiveInvariant, PTL

abstractVars == <<table, F1, F2, InFlight>>

(* A step that leaves outputs, delta tables and the set of messages alone   *)
(* changes nothing in flight.                                               *)
LEMMA InFlightUnmoved ==
  ASSUME UNCHANGED <<output, deltaT, InTransit>>
  PROVE  InFlight' = InFlight
  BY DEF InFlight, Unsent, Buffered

(* SendUpdates changes nothing in flight, even when it takes along updates  *)
(* from the output buffer.                                                  *)
LEMMA InFlightSend ==
  ASSUME TypeOK, Places, NEW w \in Worker, NEW dt \in [Shard -> SUBSET Update],
         SendUpdates(w, dt), UNCHANGED <<inHand, wire, requests>>,
         \A v \in Worker : v # w => output'[v] = output[v],
         output'[w] \subseteq output[w],
         \A u \in output[w] :
           u \in output'[w] \/ \E s \in Shard : Owner[s] # w /\ u \in dt[s],
         \A s \in Shard : deltaT[w][s] \subseteq dt[s],
         \A s \in Shard : \A u \in dt[s] : u \in deltaT[w][s] \/ u \in output[w]
  PROVE  InFlight' = InFlight
  <1> DEFINE Msg(s) == [src |-> w, shard |-> s, updates |-> dt[s]]
  <1>1. \A m : m \in InTransit' <=>
          \/ m \in InTransit
          \/ \E s \in Shard : Owner[s] # w /\ dt[s] # {} /\ m = Msg(s)
    BY SMTT(30) DEF InTransit, SendUpdates, is_local_shard
  <1>2. \A v \in Worker, s \in Shard :
          deltaT'[v][s] = IF v = w THEN {} ELSE deltaT[v][s]
    BY DEF SendUpdates, TypeOK
  <1>3. \A s \in Shard : Msg(s).updates = dt[s]
    OBVIOUS
  <1> HIDE DEF Msg
  <1>4. ASSUME NEW u, NEW s \in Shard, Owner[s] # w, u \in dt[s]
        PROVE  u \in InFlight'
    <2>1. Msg(s) \in InTransit' /\ u \in Msg(s).updates
      BY <1>1, <1>3, <1>4
    <2> QED BY <2>1, InFlightMemberNext DEF InFlightSpelt
  <1>5. ASSUME NEW u \in InFlight PROVE u \in InFlight'
    <2>1. CASE \E s \in Shard : u \in deltaT[w][s]
      BY <1>4, <2>1 DEF Places, Routed
    <2>2. CASE u \in output[w]
      BY SMTT(30), <1>4, <2>2, InFlightMemberNext DEF InFlightSpelt
    <2>3. CASE u \notin output[w] /\ ~\E s \in Shard : u \in deltaT[w][s]
      BY SMTT(30), <1>1, <1>2, <2>3, InFlightMember, InFlightMemberNext DEF InFlightSpelt
    <2> QED BY <2>1, <2>2, <2>3
  <1>6. ASSUME NEW u \in InFlight' PROVE u \in InFlight
    <2>1. ASSUME NEW m \in InTransit', u \in m.updates PROVE u \in InFlight
      <3>1. CASE m \in InTransit
        BY <2>1, <3>1, InFlightMember DEF InFlightSpelt
      <3>2. CASE m \notin InTransit
        <4>1. PICK s \in Shard : m = Msg(s)
          BY <1>1, <3>2
        <4>2. u \in deltaT[w][s] \/ u \in output[w]
          BY <1>3, <2>1, <4>1
        <4> QED BY <4>2, InFlightMember DEF InFlightSpelt
      <3> QED BY <3>1, <3>2
    <2> QED BY <1>2, <2>1, InFlightMember, InFlightMemberNext DEF InFlightSpelt
  <1> QED BY <1>5, <1>6

(* HandlePutRequest is an Apply step of the abstract table.                 *)
LEMMA PutIsApply ==
  ASSUME TypeOK, Places, NEW w \in Worker, HandlePutRequest(w),
         UNCHANGED <<output, deltaT, pending_sends, inHand, wire, table, F2>>
  PROVE  Accumulator!Apply
  <1> DEFINE R == RequestsFor(w)
  <1>1. InTransit' = InTransit \ R
    BY DEF InTransit, HandlePutRequest, RequestsFor, Places, MessagesApart
  <1>2. R \subseteq InTransit
    BY DEF InTransit, RequestsFor
  <1>3. \A u : u \in Updates(R) <=> \E m \in R : u \in m.updates
    BY DEF Updates
  <1>4. ASSUME NEW u PROVE u \in InFlight' <=> u \in InFlight /\ u \notin Updates(R)
    <2>1. CASE u \in Updates(R)
      <3>1. PICK m \in R : u \in m.updates
        BY <1>3, <2>1
      <3>2. \A n \in InTransit' : u \notin n.updates
        BY <1>1, <1>2, <3>1 DEF Places, MessagesApart
      <3>3. \A v \in Worker : u \notin output[v]
        BY <1>2, <3>1 DEF Places, Apart
      <3>4. \A v \in Worker, s \in Shard : u \notin deltaT[v][s]
        BY SMTT(30), <1>2, <3>1 DEF Places, Apart
      <3> QED BY <2>1, <3>2, <3>3, <3>4, InFlightMemberNext DEF InFlightSpelt
    <2>2. CASE u \notin Updates(R)
      BY <1>1, <1>3, <2>2, InFlightMember, InFlightMemberNext DEF InFlightSpelt
    <2> QED BY <2>1, <2>2
  <1>5. Updates(R) \subseteq InFlight
    BY <1>2, <1>3, InFlightMember DEF InFlightSpelt
  <1>6. InFlight' \subseteq InFlight /\ InFlight \ InFlight' = Updates(R)
    BY <1>4, <1>5
  <1>7. F1' = [k \in Key |-> F1[k] \cup {u \in InFlight \ InFlight' : u.key = k}]
    BY <1>6 DEF HandlePutRequest, ApplyUpdates
  <1> QED BY <1>6, <1>7 DEF Accumulator!Apply

(* RunIter is an Iterate step: what it issues was never issued before.      *)
LEMMA RunIterIsIterate ==
  ASSUME TypeOK, Places, KernelOrder, Loading, NEW w \in Worker, RunIter(w)
  PROVE  \E k \in Key : Accumulator!Iterate(k)
  <1>1. PICK k \in todo[w] :
          /\ F2' = [F2 EXCEPT ![k] = @ \cup F1[k]]
          /\ output' = [output EXCEPT ![w] =
                          {[src |-> w, id |-> made[w] + 1, key |-> j] :
                              j \in Links[k]}]
          /\ F1' = [F1 EXCEPT ![k] = {}]
    BY ZenonT(30) DEF RunIter
  <1>2. k \in Key /\ k \in table
    BY SMTT(30) DEF TypeOK, Loading
  <1>3. UNCHANGED <<table, deltaT, InTransit>>
    BY DEF RunIter, netVars, InTransit
  <1>4. output[w] = {}
    BY SMTT(30) DEF RunIter, KernelOrder
  <1>5. /\ \A v \in Worker : v # w => output'[v] = output[v]
        /\ output'[w] = {[src |-> w, id |-> made[w] + 1, key |-> j] :
                             j \in Links[k]}
    BY <1>1 DEF TypeOK
  <1>6. \A u : u \in InFlight' <=> u \in InFlight \/ u \in output'[w]
    BY <1>3, <1>4, <1>5, InFlightMember, InFlightMemberNext DEF InFlightSpelt
  <1>7. ASSUME NEW u \in output'[w]
        PROVE  u \in Update /\ u \notin F1[u.key] \cup F2[u.key]
    <2>1. PICK j \in Links[k] : u = [src |-> w, id |-> made[w] + 1, key |-> j]
      BY SMTT(30), <1>5
    <2>2. j \in Key /\ made[w] \in Nat
      BY SMTT(30), <1>2, GraphAssumption DEF TypeOK
    <2>3. u \in Update
      BY <2>1, <2>2 DEF Update
    <2>4. u.src = w /\ u.key = j /\ u.id \notin 0..made[w]
      BY SMTT(30), <2>1, <2>2
    <2>5. u \notin F1[j] \cup F2[j]
      BY SMTT(30), <2>2, <2>4 DEF Places, Numbered
    <2> QED BY <2>3, <2>4, <2>5
  <1>8. Accumulator!Iterate(k)
    BY <1>1, <1>2, <1>3, <1>6, <1>7 DEF Accumulator!Iterate
  <1> QED BY <1>2, <1>8

(* ReadLine loads a key of w, or changes nothing the abstract table sees.   *)
LEMMA ReadLineIsLoad ==
  ASSUME TypeOK, Loading, NEW w \in Worker, ReadLine(w)
  PROVE  (\E k \in Key : Accumulator!Load(k)) \/ UNCHANGED abstractVars
  <1>1. PICK k \in Key \ lines[w] :
          IF OwnerOf(k) = w
          THEN /\ table' = table \cup {k}
               /\ F1' = [F1 EXCEPT ![k] = {InitialUpdate(k)}]
          ELSE UNCHANGED <<table, F1>>
    BY DEF ReadLine
  <1>2. UNCHANGED F2 /\ InFlight' = InFlight
    BY InFlightUnmoved DEF ReadLine, netVars, InTransit
  <1>3. CASE OwnerOf(k) # w
    BY <1>1, <1>2, <1>3 DEF abstractVars
  <1>4. CASE OwnerOf(k) = w
    <2>1. k \notin table
      BY <1>4 DEF Loading
    <2>2. F1'[k] = {InitialUpdate(k)}
      BY SMTT(30), <1>1, <1>4 DEF TypeOK
    <2>3. InitialUpdate(k) \in Update /\ InitialUpdate(k).key = k
      BY InitialUpdateType DEF InitialUpdate
    <2>4. F1'[k] \subseteq {u \in Update : u.key = k}
      BY <2>2, <2>3
    <2>5. F1' = [F1 EXCEPT ![k] = F1'[k]]
      BY <1>1, <1>4, <2>2
    <2>6. Accumulator!Load(k)
      BY SMTT(30), <1>1, <1>2, <1>4, <2>1, <2>4, <2>5 DEF Accumulator!Load
    <2> QED BY <2>6
  <1> QED BY <1>3, <1>4

(* accumulateF1 of a local key is an Apply step; of a remote key it keeps   *)
(* the update in flight.                                                    *)
LEMMA EmitIsApply ==
  ASSUME TypeOK, Places, NEW w \in Worker, Emit(w)
  PROVE  Accumulator!Apply \/ UNCHANGED abstractVars
  <1>1. PICK u \in output[w] :
          accumulateF1(w, u) /\ output' = [output EXCEPT ![w] = @ \ {u}]
    BY ZenonT(30) DEF Emit
  <1> DEFINE s == ShardOf[u.key]
             dt == [deltaT[w] EXCEPT ![s] = @ \cup {u}]
  <1>2. UNCHANGED <<table, F2, inHand, wire, requests>>
    BY DEF Emit
  <1>3. u \in Update /\ u.key \in Key /\ s \in Shard
    BY GraphAssumption DEF TypeOK, Update
  <1>4. /\ output'[w] = output[w] \ {u}
        /\ \A v \in Worker : v # w => output'[v] = output[v]
    BY <1>1 DEF TypeOK
  <1>5. u.src = w
    BY DEF Places, Routed
  <1>6. /\ \A v \in Worker : u \notin output'[v]
        /\ \A v \in Worker, x \in Shard : u \notin deltaT[v][x]
        /\ \A m \in InTransit : u \notin m.updates
    BY SMTT(30), <1>4, <1>5 DEF Places, Routed, Apart
  <1>7. /\ deltaT[w] \in [Shard -> SUBSET Update]
        /\ dt \in [Shard -> SUBSET Update]
    BY <1>3 DEF TypeOK
  <1>8. /\ dt[s] = deltaT[w][s] \cup {u}
        /\ \A x \in Shard : x # s => dt[x] = deltaT[w][x]
    BY SMTT(30), <1>3, <1>7
  <1>9. CASE is_local_shard(w, s)
    <2>1. /\ F1' = [F1 EXCEPT ![u.key] = @ \cup {u}]
          /\ UNCHANGED <<deltaT, InTransit>>
      BY SMTT(30), <1>1, <1>2, <1>9 DEF accumulateF1, InTransit
    <2>2. \A x : x \in InFlight' <=> x \in InFlight /\ x # u
      BY <1>4, <1>6, <2>1, InFlightMember, InFlightMemberNext DEF InFlightSpelt
    <2>3. u \in InFlight
      BY InFlightMember DEF InFlightSpelt
    <2>4. InFlight' \subseteq InFlight /\ InFlight \ InFlight' = {u}
      BY <2>2, <2>3
    <2>5. F1' = [k \in Key |->
                   F1[k] \cup {x \in InFlight \ InFlight' : x.key = k}]
      BY ZenonT(30), <1>3, <2>1, <2>4 DEF TypeOK
    <2> QED BY <1>2, <2>4, <2>5 DEF Accumulator!Apply
  <1>10. CASE ~is_local_shard(w, s) /\ pending_writes[w] + 1 > BufMsg
    <2>1. SendUpdates(w, dt) /\ UNCHANGED F1
      BY SMTT(30), <1>1, <1>10 DEF accumulateF1
    <2>2. \A x \in Shard : deltaT[w][x] \subseteq dt[x]
      BY <1>8
    <2>3. \A x \in Shard : \A y \in dt[x] : y \in deltaT[w][x] \/ y \in output[w]
      BY SMTT(30), <1>8
    <2>4. \A y \in output[w] :
            y \in output'[w] \/ \E x \in Shard : Owner[x] # w /\ y \in dt[x]
      BY SMTT(30), <1>3, <1>4, <1>8, <1>10 DEF is_local_shard
    <2> HIDE DEF dt
    <2>5. InFlight' = InFlight
      BY SMTT(30), <1>2, <1>4, <1>7, <2>1, <2>2, <2>3, <2>4, InFlightSend
    <2> QED BY <1>2, <2>1, <2>5 DEF abstractVars
  <1>11. CASE ~is_local_shard(w, s) /\ ~(pending_writes[w] + 1 > BufMsg)
    <2>1. /\ deltaT' = [deltaT EXCEPT ![w] = dt]
          /\ UNCHANGED <<F1, InTransit>>
      BY SMTT(30), <1>1, <1>2, <1>11 DEF accumulateF1, InTransit
    <2>2. \A v \in Worker, x \in Shard : \A y : y \in deltaT'[v][x] <=>
            y \in deltaT[v][x] \/ (v = w /\ x = s /\ y = u)
      BY <1>8, <2>1 DEF TypeOK
    <2>3. InFlight' = InFlight
      <3>1. \A y : y \in InFlight' <=> y \in InFlight
        BY <1>3, <1>4, <2>1, <2>2, InFlightMember, InFlightMemberNext
           DEF InFlightSpelt
      <3> QED BY <3>1
    <2> QED BY SMTT(30), <1>2, <2>1, <2>3 DEF abstractVars
  <1> QED BY <1>9, <1>10, <1>11

(* The distributed table with its buffers, messages and threads implements  *)
(* the abstract one: every update that run_iter issues is accumulated at    *)
(* most once, only in its own key, and is in flight until it is.            *)
THEOREM ExchangeImplementsTable == Spec => ImplementsTable
  <1> USE DEF masterVars, threadVars, tableVars, netVars, barrierVars
  <1>1. Init => Accumulator!Init
    <2> SUFFICES ASSUME Init PROVE Accumulator!Init
      OBVIOUS
    <2>1. InFlight = {}
      BY InFlightMember DEF InFlightSpelt, Init, InTransit
    <2> QED BY <2>1 DEF Init, Accumulator!Init
  <1>2. IInv /\ [Next]_vars => [Accumulator!Next]_(Accumulator!vars)
    <2> SUFFICES ASSUME IInv, [Next]_vars
                 PROVE  Accumulator!Next \/ UNCHANGED abstractVars
      BY DEF abstractVars, Accumulator!vars
    <2> USE DEF IInv
    <2>1. ASSUME NEW w \in Worker,
                 \/ StartKernel(w) \/ EndIter(w) \/ EndPass(w) \/ Dump(w)
                 \/ CollectActive(w) \/ HandleTermNotification(w)
                 \/ PollActive(w) \/ SendReply(w)
          PROVE  UNCHANGED abstractVars
      <3>1. UNCHANGED <<table, F1, F2, output, deltaT, InTransit>>
        BY Zenon, <2>1 DEF StartKernel, EndIter, EndPass, Dump, CollectActive,
                    HandleTermNotification, PollActive, SendReply, InTransit
      <3> QED BY ZenonT(30), <3>1, InFlightUnmoved DEF abstractVars
    <2>2. ASSUME NEW w \in Worker, PopPending(w) \/ Isend(w) \/ Receive(w)
          PROVE  UNCHANGED abstractVars
      <3>1. UNCHANGED <<table, F1, F2, output, deltaT>>
        BY SMTT(30), <2>2 DEF PopPending, Isend, Receive
      <3>2. InTransit' = InTransit
        BY SMTT(30), <2>2 DEF PopPending, Isend, Receive, InTransit, From
      <3> QED BY ZenonT(30), <3>1, <3>2, InFlightUnmoved DEF abstractVars
    <2>3. ASSUME NEW w \in Worker, \/ CheckNetwork(w) \/ GetIterator(w)
                                   \/ KernelDone(w) \/ HandleApply(w)
          PROVE  Accumulator!Apply
      BY Zenon, <2>3, PutIsApply DEF CheckNetwork, GetIterator, KernelDone, HandleApply
    <2>4. ASSUME NEW w \in Worker, PeriodicPutRequests(w)
          PROVE  Accumulator!Apply \/ UNCHANGED abstractVars
      <3>1. CASE HandlePutRequest(w)
        BY SMTT(30), <2>4, <3>1, PutIsApply DEF PeriodicPutRequests
      <3>2. CASE UNCHANGED <<F1, requests>>
        BY SMTT(30), <2>4, <3>2, InFlightUnmoved
           DEF PeriodicPutRequests, InTransit, abstractVars
      <3> QED BY SMTT(30), <2>4, <3>1, <3>2 DEF PeriodicPutRequests
    <2>5. ASSUME NEW w \in Worker, FlushUpdates(w) \/ HandleFlush(w)
          PROVE  UNCHANGED abstractVars
      <3>1. deltaT[w] \in [Shard -> SUBSET Update]
        BY SMTT(30) DEF TypeOK
      <3>2. /\ SendUpdates(w, deltaT[w])
            /\ UNCHANGED <<table, F1, F2, output, inHand, wire, requests>>
        BY <2>5 DEF FlushUpdates, HandleFlush
      <3> QED BY <3>1, <3>2, InFlightSend DEF abstractVars
    <2>6. CASE StartFlush \/ StartApply \/ EndBarrier \/ Finished \/ UNCHANGED vars
      <3>1. UNCHANGED <<table, F1, F2, output, deltaT, InTransit>>
        BY <2>6 DEF StartFlush, StartApply, EndBarrier, Finished, vars, InTransit
      <3> QED BY ZenonT(30), <3>1, InFlightUnmoved DEF abstractVars
    <2>7. ASSUME NEW w \in Worker, MainThread(w)
          PROVE  Accumulator!Next \/ UNCHANGED abstractVars
      BY <2>1, <2>3, <2>4, <2>5, <2>7, ReadLineIsLoad, RunIterIsIterate,
         EmitIsApply DEF MainThread, Accumulator!Next
    <2> QED BY <2>1, <2>2, <2>3, <2>5, <2>6, <2>7 DEF Next, Accumulator!Next
  <1> QED BY <1>1, <1>2, InductiveInvariant, PTL
          DEF Spec, ImplementsTable, Accumulator!Spec
=============================================================================
