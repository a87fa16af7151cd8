------------------------- MODULE DeltaExchangePlaces ------------------------
(***************************************************************************)
(* Every step of DeltaExchange keeps every update in one place: first the  *)
(* operations that make, buffer, send and apply updates, then the steps.   *)
(***************************************************************************)
EXTENDS DeltaExchangeKernels

placeVars == <<output, made, F1, F2, deltaT, pending_sends, inHand, wire,
               requests>>

(* A step that moves no update keeps every update in one place.            *)
LEMMA PlacesUnmoved ==
  ASSUME Places, UNCHANGED placeVars
  PROVE  Places'
  BY DEF Places, Routed, Numbered, Apart, MessagesApart, InTransit, placeVars

(* A message moves from one queue to the next.                              *)
LEMMA PlacesMove ==
  ASSUME Places, UNCHANGED <<output, made, F1, F2, deltaT>>,
         InTransit' = InTransit,
         \A m \in pending_sends' : m \notin inHand' /\ m \notin wire' /\ m \notin requests',
         \A m \in inHand' : m \notin wire' /\ m \notin requests',
         \A m \in wire' : m \notin requests'
  PROVE  Places'
  <1>1. Routed'
    BY DEF Places, Routed
  <1>2. Numbered'
    BY DEF Places, Numbered
  <1>3. Apart'
    BY DEF Places, Apart
  <1>4. MessagesApart'
    BY DEF Places, MessagesApart
  <1> QED BY <1>1, <1>2, <1>3, <1>4 DEF Places

(* HandlePutRequest moves updates from the requests to the delta fields.    *)
LEMMA PlacesApply ==
  ASSUME TypeOK, Places, NEW w \in Worker, HandlePutRequest(w),
         UNCHANGED <<output, made, F2, deltaT, pending_sends, inHand, wire>>
  PROVE  Places'
  <1>1. InTransit' = InTransit \ RequestsFor(w)
    BY DEF InTransit, HandlePutRequest, RequestsFor, Places, MessagesApart
  <1>2. RequestsFor(w) \subseteq InTransit
    BY DEF InTransit, RequestsFor
  <1>3. \A k \in Key : \A u : u \in F1'[k] <=>
          \/ u \in F1[k]
          \/ u.key = k /\ \E m \in RequestsFor(w) : u \in m.updates
    BY DEF HandlePutRequest, ApplyUpdates, Updates
  <1>4. /\ \A v \in Worker : output[v] \subseteq Update
        /\ \A v \in Worker, s \in Shard : deltaT[v][s] \subseteq Update
        /\ \A m \in InTransit : m.updates \subseteq Update /\ m.src \in Worker
        /\ \A k \in Key : F1[k] \subseteq Update /\ F2[k] \subseteq Update
        /\ \A u \in Update : u.key \in Key
    BY DEF TypeOK, InTransit, Message, Update
  <1>5. Routed'
    BY <1>1, <1>3 DEF Places, Routed
  <1>6. Numbered'
    <2>1. \A m \in RequestsFor(w) : \A u \in m.updates : u.id \in 0..made[u.src]
      <3> SUFFICES ASSUME NEW m \in RequestsFor(w), NEW u \in m.updates
                   PROVE  u.id \in 0..made[u.src]
        OBVIOUS
      <3>1. u.id \in 1..made[m.src] /\ u.src = m.src
        BY <1>2 DEF Places, Numbered, Routed
      <3>2. made[m.src] \in Nat
        BY <1>2, <1>4 DEF TypeOK
      <3> QED BY <3>1, <3>2
    <2> QED BY <1>1, <1>3, <2>1 DEF Places, Numbered
  <1>7. Apart'
    BY <1>1, <1>2, <1>3, <1>4 DEF Places, Apart, MessagesApart
  <1>8. MessagesApart'
    BY <1>1 DEF Places, MessagesApart, HandlePutRequest
  <1> QED BY <1>5, <1>6, <1>7, <1>8 DEF Places

(* SendUpdates moves updates from the delta tables to messages; when called *)
(* by accumulateF1 it takes along one update of the output buffer.          *)
LEMMA PlacesSend ==
  ASSUME TypeOK, Places, NEW w \in Worker, NEW dt \in [Shard -> SUBSET Update],
         SendUpdates(w, dt), UNCHANGED <<made, F1, F2, inHand, wire, requests>>,
         \A v \in Worker : v # w => output'[v] = output[v],
         output'[w] \subseteq output[w],
         \A s \in Shard : \A u \in dt[s] :
           \/ u \in deltaT[w][s]
           \/ /\ u \in output[w] /\ u \notin output'[w]
              /\ ShardOf[u.key] = s
  PROVE  Places'
  <1> DEFINE Msg(s) == [src |-> w, shard |-> s, updates |-> dt[s]]
  <1>1. \A m : m \in InTransit' <=>
          \/ m \in InTransit
          \/ \E s \in Shard : Owner[s] # w /\ dt[s] # {} /\ m = Msg(s)
    BY DEF InTransit, SendUpdates, is_local_shard
  <1>2. \A m : m \in pending_sends' <=>
          \/ m \in pending_sends
          \/ \E s \in Shard : Owner[s] # w /\ dt[s] # {} /\ m = Msg(s)
    BY DEF SendUpdates, is_local_shard
  <1>3. \A v \in Worker, s \in Shard :
          deltaT'[v][s] = IF v = w THEN {} ELSE deltaT[v][s]
    BY DEF SendUpdates, TypeOK
  <1>4. \A s \in Shard : /\ Msg(s).src = w /\ Msg(s).shard = s
                         /\ Msg(s).updates = dt[s]
    OBVIOUS
  <1>5. /\ \A v \in Worker : output[v] \subseteq Update
        /\ \A v \in Worker, s \in Shard : deltaT[v][s] \subseteq Update
        /\ \A m \in InTransit : m.updates \subseteq Update /\ m.src \in Worker
        /\ \A u \in Update : u.key \in Key /\ u.src \in Worker
    BY DEF TypeOK, InTransit, Message, Update
  <1>6. \A s \in Shard : \A u \in dt[s] :
          /\ u.src = w /\ ShardOf[u.key] = s /\ u.id \in 1..made[w]
          /\ u \notin F1[u.key] /\ u \notin F2[u.key]
          /\ \A m \in InTransit : u \notin m.updates
          /\ u \notin output'[w]
    BY SMTT(30) DEF Places, Routed, Numbered, Apart
  <1>7. \A v \in Worker : output'[v] \subseteq output[v]
    BY SMTT(30)
  <1> HIDE DEF Msg
  <1>8. Routed'
    BY <1>1, <1>3, <1>4, <1>6, <1>7 DEF Places, Routed
  <1>9. Numbered'
    BY <1>1, <1>3, <1>4, <1>6, <1>7 DEF Places, Numbered
  <1>10. Apart'
    <2>1. ASSUME NEW v \in Worker, NEW u \in output'[v], NEW m \in InTransit'
          PROVE  u \notin m.updates
      <3>1. CASE m \in InTransit
        BY <1>7, <3>1 DEF Places, Apart
      <3>2. CASE \E s \in Shard : Owner[s] # w /\ dt[s] # {} /\ m = Msg(s)
        BY <1>4, <1>6, <1>7, <3>2 DEF Places, Routed
      <3> QED BY <1>1, <3>1, <3>2
    <2>2. ASSUME NEW v \in Worker, NEW s \in Shard, NEW u \in deltaT'[v][s],
                 NEW m \in InTransit'
          PROVE  u \notin m.updates
      <3>0. v # w /\ u \in deltaT[v][s]
        BY <1>3
      <3>1. CASE m \in InTransit
        BY <3>0, <3>1 DEF Places, Apart
      <3>2. CASE \E x \in Shard : Owner[x] # w /\ dt[x] # {} /\ m = Msg(x)
        BY <3>0, <1>4, <1>6, <3>2 DEF Places, Routed
      <3> QED BY <1>1, <3>1, <3>2
    <2>3. ASSUME NEW v \in Worker, NEW u \in output'[v], NEW s \in Shard
          PROVE  u \notin deltaT'[v][s]
      BY <1>3, <1>7 DEF Places, Apart
    <2>4. ASSUME NEW m \in InTransit', NEW u \in m.updates
          PROVE  u \notin F1[u.key] /\ u \notin F2[u.key]
      BY <1>1, <1>4, <1>6 DEF Places, Apart
    <2>5. ASSUME NEW v \in Worker
          PROVE  /\ \A u \in output'[v] : u \notin F1[u.key] /\ u \notin F2[u.key]
                 /\ \A s \in Shard : \A u \in deltaT'[v][s] :
                      u \notin F1[u.key] /\ u \notin F2[u.key]
      BY <1>3, <1>7 DEF Places, Apart
    <2>6. \A k \in Key : \A u \in F1[k] : u \notin F2[k]
      BY DEF Places, Apart
    <2> QED BY <2>1, <2>2, <2>3, <2>4, <2>5, <2>6 DEF Apart
  <1>11. MessagesApart'
    <2>1. \A m \in pending_sends' :
            m \notin inHand /\ m \notin wire /\ m \notin requests
      BY <1>2, <1>4, <1>6 DEF Places, MessagesApart, InTransit
    <2>2. ASSUME NEW m \in InTransit', NEW n \in InTransit', m # n,
                 NEW u \in m.updates
          PROVE  u \notin n.updates
      <3>1. CASE m \in InTransit /\ n \in InTransit
        BY <2>2, <3>1 DEF Places, MessagesApart
      <3>2. CASE m \in InTransit /\ n \notin InTransit
        BY <1>1, <1>4, <1>6, <3>2
      <3>3. CASE m \notin InTransit /\ n \in InTransit
        BY <1>1, <1>4, <1>6, <3>3
      <3>4. CASE m \notin InTransit /\ n \notin InTransit
        BY <1>1, <1>4, <1>6, <2>2, <3>4
      <3> QED BY <3>1, <3>2, <3>3, <3>4
    <2>3. \A m \in InTransit' : m.updates # {}
      BY <1>1, <1>4 DEF Places, MessagesApart
    <2>4. /\ \A m \in inHand : m \notin wire /\ m \notin requests
          /\ \A m \in wire : m \notin requests
      BY DEF Places, MessagesApart
    <2> QED BY <2>1, <2>2, <2>3, <2>4 DEF MessagesApart
  <1> QED BY <1>8, <1>9, <1>10, <1>11 DEF Places

(* read_file enters a key with its initial delta, which is nowhere else.    *)
LEMMA PlacesReadLine ==
  ASSUME TypeOK, Places, Loading, NEW w \in Worker, ReadLine(w)
  PROVE  Places'
  <1>1. PICK k \in Key \ lines[w] :
          IF OwnerOf(k) = w
          THEN F1' = [F1 EXCEPT ![k] = {InitialUpdate(k)}]
          ELSE F1' = F1
    BY DEF ReadLine
  <1>2. UNCHANGED <<output, made, F2, deltaT, pending_sends, inHand, wire,
                    requests, InTransit>>
    BY DEF ReadLine, netVars, InTransit
  <1>3. CASE F1' = F1
    BY <1>2, <1>3, PlacesUnmoved DEF placeVars
  <1>4. CASE OwnerOf(k) = w /\ F1' = [F1 EXCEPT ![k] = {InitialUpdate(k)}]
    <2>1. F2[k] = {}
      BY <1>4 DEF Loading
    <2>2. /\ F1'[k] = {InitialUpdate(k)}
          /\ \A j \in Key : j # k => F1'[j] = F1[j]
      BY SMTT(30), <1>4 DEF TypeOK
    <2>3. /\ InitialUpdate(k).key = k /\ InitialUpdate(k).id = 0
          /\ InitialUpdate(k).src = w
      BY <1>4 DEF InitialUpdate
    <2>4. /\ \A v \in Worker : output[v] \subseteq Update
          /\ \A v \in Worker, s \in Shard : deltaT[v][s] \subseteq Update
          /\ \A m \in InTransit : m.updates \subseteq Update
          /\ \A u \in Update : u.key \in Key
      BY SMTT(30) DEF TypeOK, InTransit, Message, Update
    <2>5. /\ \A v \in Worker : InitialUpdate(k) \notin output[v]
          /\ \A v \in Worker, s \in Shard : InitialUpdate(k) \notin deltaT[v][s]
          /\ \A m \in InTransit : InitialUpdate(k) \notin m.updates
      <3>1. /\ \A v \in Worker : \A u \in output[v] : u.id \in 1..made[v]
            /\ \A v \in Worker, s \in Shard :
                 \A u \in deltaT[v][s] : u.id \in 1..made[v]
            /\ \A m \in InTransit : \A u \in m.updates : u.id \in 1..made[m.src]
        BY DEF Places, Numbered
      <3>2. \A n : InitialUpdate(k).id \notin 1..n
        BY <2>3
      <3> HIDE DEF InitialUpdate
      <3> QED BY <3>1, <3>2
    <2>6. Routed'
      BY SMTT(30), <1>2, <2>2, <2>3 DEF Places, Routed
    <2>7. Numbered'
      <3>1. 0 \in 0..made[w]
        BY DEF TypeOK
      <3> QED BY <1>2, <2>2, <2>3, <3>1 DEF Places, Numbered
    <2>8. Apart'
      BY <1>2, <2>1, <2>2, <2>4, <2>5 DEF Places, Apart
    <2>9. MessagesApart'
      BY <1>2 DEF Places, MessagesApart
    <2> QED BY <2>6, <2>7, <2>8, <2>9 DEF Places
  <1> QED BY <1>1, <1>3, <1>4

(* run_iter moves the delta of a key into its value and issues updates with *)
(* a number that was never used before.                                     *)
LEMMA PlacesRunIter ==
  ASSUME TypeOK, Places, KernelOrder, NEW w \in Worker, RunIter(w)
  PROVE  Places'
  <1>1. PICK k \in todo[w] :
          /\ F2' = [F2 EXCEPT ![k] = @ \cup F1[k]]
          /\ output' = [output EXCEPT ![w] =
                          {[src |-> w, id |-> made[w] + 1, key |-> j] :
                              j \in Links[k]}]
          /\ F1' = [F1 EXCEPT ![k] = {}]
    BY ZenonT(30) DEF RunIter
  <1>2. UNCHANGED <<deltaT, pending_sends, inHand, wire, requests, InTransit>>
    BY DEF RunIter, netVars, InTransit
  <1>3. k \in Key /\ made[w] \in Nat
    BY SMTT(30) DEF TypeOK
  <1>4. /\ F1'[k] = {} /\ F2'[k] = F2[k] \cup F1[k]
        /\ \A j \in Key : j # k => F1'[j] = F1[j] /\ F2'[j] = F2[j]
    BY SMTT(30), <1>1, <1>3 DEF TypeOK
  <1>5. /\ \A v \in Worker : v # w => output'[v] = output[v] /\ made'[v] = made[v]
        /\ made'[w] = made[w] + 1
        /\ \A u \in output'[w] : /\ u.src = w /\ u.id = made[w] + 1
    BY <1>1 DEF RunIter, TypeOK
  <1>6. /\ \A v \in Worker : output[v] \subseteq Update
        /\ \A v \in Worker, s \in Shard : deltaT[v][s] \subseteq Update
        /\ \A m \in InTransit : m.updates \subseteq Update /\ m.src \in Worker
        /\ \A j \in Key : F1[j] \subseteq Update /\ F2[j] \subseteq Update
        /\ \A u \in Update : u.key \in Key /\ u.src \in Worker
        /\ \A v \in Worker : made[v] \in Nat
    BY SMTT(30) DEF TypeOK, InTransit, Message, Update
  <1>7. \A v \in Worker : made'[v] \in Nat /\ made[v] <= made'[v]
    BY <1>5, <1>6
  <1>8. Routed'
    BY <1>2, <1>4, <1>5 DEF Places, Routed
  <1>9. Numbered'
    <2>1. \A v \in Worker : 1..made[v] \subseteq 1..made'[v]
      BY <1>6, <1>7
    <2>2. \A v \in Worker : 0..made[v] \subseteq 0..made'[v]
      BY <1>6, <1>7
    <2>3. \A v \in Worker : \A u \in output'[v] : u.id \in 1..made'[v]
      BY SMTT(30), <1>3, <1>5 DEF Places, Numbered
    <2>4. \A j \in Key : \A u \in F1'[j] \cup F2'[j] : u.id \in 0..made'[u.src]
      BY <1>4, <1>6, <2>2 DEF Places, Numbered
    <2>5. \A v \in Worker, s \in Shard : \A u \in deltaT[v][s] : u.id \in 1..made'[v]
      BY <2>1 DEF Places, Numbered
    <2>6. \A m \in InTransit : \A u \in m.updates : u.id \in 1..made'[m.src]
      BY SMTT(30), <1>6, <2>1 DEF Places, Numbered
    <2> QED BY <1>2, <2>3, <2>4, <2>5, <2>6 DEF Numbered
  <1>10. Apart'
    <2>1. \A u \in output'[w] :
            /\ \A s \in Shard : u \notin deltaT[w][s]
            /\ \A m \in InTransit : u \notin m.updates
            /\ \A j \in Key : u \notin F1[j] /\ u \notin F2[j]
      <3> SUFFICES ASSUME NEW u \in output'[w]
                   PROVE  /\ \A s \in Shard : u \notin deltaT[w][s]
                          /\ \A m \in InTransit : u \notin m.updates
                          /\ \A j \in Key : u \notin F1[j] /\ u \notin F2[j]
        OBVIOUS
      <3>1. u.src = w /\ u.id \notin 1..made[w] /\ u.id \notin 0..made[w]
        BY <1>3, <1>5
      <3>2. \A s \in Shard : u \notin deltaT[w][s]
        BY <3>1 DEF Places, Numbered
      <3>3. \A m \in InTransit : u \notin m.updates
        BY <3>1 DEF Places, Numbered, Routed
      <3>4. \A j \in Key : u \notin F1[j] /\ u \notin F2[j]
        BY <3>1 DEF Places, Numbered
      <3> QED BY <3>2, <3>3, <3>4
    <2>2. \A u \in output'[w] : u.key \in Key
      <3>1. Links[k] \subseteq Key
        BY SMTT(30), <1>3, GraphAssumption
      <3>2. \A u \in output'[w] : \E j \in Links[k] : u.key = j
        BY SMTT(30), <1>1 DEF TypeOK
      <3> QED BY <3>1, <3>2
    <2> QED BY <1>2, <1>4, <1>5, <1>6, <2>1, <2>2 DEF Places, Apart
  <1>11. MessagesApart'
    BY <1>2 DEF Places, MessagesApart
  <1> QED BY <1>8, <1>9, <1>10, <1>11 DEF Places

(* accumulateF1 moves one update of the output buffer into the table, into  *)
(* a delta table, or into a message.                                        *)
LEMMA PlacesEmit ==
  ASSUME TypeOK, Places, NEW w \in Worker, Emit(w)
  PROVE  Places'
  <1>1. PICK u \in output[w] :
          accumulateF1(w, u) /\ output' = [output EXCEPT ![w] = @ \ {u}]
    BY ZenonT(30) DEF Emit
  <1> DEFINE s == ShardOf[u.key]
             dt == [deltaT[w] EXCEPT ![s] = @ \cup {u}]
  <1>2. UNCHANGED <<made, F2, inHand, wire, requests>>
    BY DEF Emit
  <1>3. u \in Update /\ u.key \in Key /\ s \in Shard
    BY GraphAssumption DEF TypeOK, Update
  <1>4. /\ output'[w] = output[w] \ {u}
        /\ \A v \in Worker : v # w => output'[v] = output[v]
    BY SMTT(30), <1>1 DEF TypeOK
  <1>5. u.src = w /\ u.id \in 1..made[w]
    BY DEF Places, Routed, Numbered
  <1>6. /\ \A x \in Shard : u \notin deltaT[w][x]
        /\ \A m \in InTransit : u \notin m.updates
        /\ u \notin F1[u.key] /\ u \notin F2[u.key]
    BY DEF Places, Apart
  <1>7. /\ \A v \in Worker : output[v] \subseteq Update
        /\ \A v \in Worker, x \in Shard : deltaT[v][x] \subseteq Update
        /\ \A m \in InTransit : m.updates \subseteq Update
        /\ \A x \in Update : x.key \in Key
    BY DEF TypeOK, InTransit, Message, Update
  <1>8. /\ deltaT[w] \in [Shard -> SUBSET Update]
        /\ dt \in [Shard -> SUBSET Update]
    BY <1>3 DEF TypeOK
  <1>9. /\ dt[s] = deltaT[w][s] \cup {u}
        /\ \A x \in Shard : x # s => dt[x] = deltaT[w][x]
    BY <1>3, <1>8
  <1>10. CASE is_local_shard(w, s)
    <2>1. /\ F1' = [F1 EXCEPT ![u.key] = @ \cup {u}]
          /\ UNCHANGED <<deltaT, pending_sends, InTransit>>
      BY SMTT(30), <1>1, <1>2, <1>10 DEF accumulateF1, InTransit
    <2>2. /\ F1'[u.key] = F1[u.key] \cup {u}
          /\ \A k \in Key : k # u.key => F1'[k] = F1[k]
      BY <1>3, <2>1 DEF TypeOK
    <2>3. Routed'
      BY SMTT(30), <1>2, <1>4, <2>1, <2>2 DEF Places, Routed
    <2>4. Numbered'
      <3>1. u.id \in 0..made[u.src]
        BY <1>5 DEF TypeOK
      <3> QED BY <1>2, <1>4, <2>1, <2>2, <3>1 DEF Places, Numbered
    <2>5. \A v \in Worker : u \notin output'[v]
      BY <1>4, <1>5 DEF Places, Routed
    <2>6. \A v \in Worker, x \in Shard : u \notin deltaT[v][x]
      BY SMTT(30), <1>5, <1>6 DEF Places, Routed
    <2>7. Apart'
      BY SMTT(30), <1>2, <1>4, <1>6, <1>7, <2>1, <2>2, <2>5, <2>6 DEF Places, Apart
    <2>8. MessagesApart'
      BY <1>2, <2>1 DEF Places, MessagesApart
    <2> QED BY <2>3, <2>4, <2>7, <2>8 DEF Places
  <1>11. CASE ~is_local_shard(w, s) /\ pending_writes[w] + 1 > BufMsg
    <2>1. SendUpdates(w, dt) /\ UNCHANGED F1
      BY SMTT(30), <1>1, <1>11 DEF accumulateF1
    <2>2. \A x \in Shard : \A y \in dt[x] :
            \/ y \in deltaT[w][x]
            \/ y \in output[w] /\ y \notin output'[w] /\ ShardOf[y.key] = x
      BY <1>4, <1>9
    <2> HIDE DEF dt
    <2> QED BY <1>2, <1>4, <1>8, <2>1, <2>2, PlacesSend
  <1>12. CASE ~is_local_shard(w, s) /\ ~(pending_writes[w] + 1 > BufMsg)
    <2>1. /\ deltaT' = [deltaT EXCEPT ![w] = dt]
          /\ UNCHANGED <<F1, pending_sends, InTransit>>
      BY SMTT(30), <1>1, <1>2, <1>12 DEF accumulateF1, InTransit
    <2>2. \A v \in Worker, x \in Shard : \A y : y \in deltaT'[v][x] <=>
            y \in deltaT[v][x] \/ (v = w /\ x = s /\ y = u)
      BY <1>9, <2>1 DEF TypeOK
    <2>3. Routed'
      BY SMTT(30), <1>2, <1>4, <1>5, <1>12, <2>1, <2>2 DEF Places, Routed, is_local_shard
    <2>4. Numbered'
      BY SMTT(30), <1>2, <1>4, <1>5, <2>1, <2>2 DEF Places, Numbered
    <2>5. Apart'
      BY <1>2, <1>4, <1>6, <2>1, <2>2 DEF Places, Apart
    <2>6. MessagesApart'
      BY <1>2, <2>1 DEF Places, MessagesApart
    <2> QED BY <2>3, <2>4, <2>5, <2>6 DEF Places
  <1> QED BY <1>10, <1>11, <1>12

(* No step puts an update in a second place or changes what it is.          *)
LEMMA PlacesInductive ==
  ASSUME TypeOK, Places, KernelOrder, Loading, [Next]_vars
  PROVE  Places'
  <1> USE DEF masterVars, threadVars, tableVars, netVars, barrierVars
  <1>1. ASSUME NEW w \in Worker, MainThread(w) PROVE Places'
    <2>1. CASE StartKernel(w) \/ EndIter(w) \/ EndPass(w) \/ Dump(w)
      BY ZenonT(30), <2>1, PlacesUnmoved
         DEF placeVars, StartKernel, EndIter, EndPass, Dump
    <2>2. CASE CheckNetwork(w) \/ GetIterator(w) \/ KernelDone(w)
      BY <2>2, PlacesApply DEF CheckNetwork, GetIterator, KernelDone
    <2>3. CASE PeriodicPutRequests(w)
      BY <2>3, PlacesApply, PlacesUnmoved DEF placeVars, PeriodicPutRequests
    <2>4. CASE ReadLine(w)
      BY SMTT(30), <2>4, PlacesReadLine
    <2>5. CASE FlushUpdates(w)
      <3>1. deltaT[w] \in [Shard -> SUBSET Update]
        BY DEF TypeOK
      <3> QED BY Zenon, <2>5, <3>1, PlacesSend DEF FlushUpdates
    <2>6. CASE RunIter(w)
      BY <2>6, PlacesRunIter
    <2>7. CASE Emit(w)
      BY <2>7, PlacesEmit
    <2> QED BY SMTT(30), <1>1, <2>1, <2>2, <2>3, <2>4, <2>5, <2>6, <2>7 DEF MainThread
  <1>2. ASSUME NEW w \in Worker, PopPending(w) \/ Isend(w) \/ Receive(w)
        PROVE  Places'
    <2>1. CASE PopPending(w)
      <3>1. InTransit' = InTransit
        BY SMTT(30), <2>1 DEF PopPending, InTransit, From
      <3> QED BY <2>1, <3>1, PlacesMove DEF PopPending, From, Places, MessagesApart
    <2>2. CASE Isend(w)
      <3>1. InTransit' = InTransit
        BY SMTT(30), <2>2 DEF Isend, InTransit, From
      <3> QED BY <2>2, <3>1, PlacesMove DEF Isend, From, Places, MessagesApart
    <2>3. CASE Receive(w)
      <3>1. InTransit' = InTransit
        BY SMTT(30), <2>3 DEF Receive, InTransit
      <3> QED BY <2>3, <3>1, PlacesMove DEF Receive, Places, MessagesApart
    <2> QED BY SMTT(30), <1>2, <2>1, <2>2, <2>3
  <1>3. ASSUME NEW w \in Worker, CollectActive(w) \/ HandleTermNotification(w)
                                  \/ PollActive(w) \/ SendReply(w)
        PROVE  Places'
    BY <1>3, PlacesUnmoved
       DEF placeVars, CollectActive, HandleTermNotification, PollActive, SendReply
  <1>4. ASSUME NEW w \in Worker, HandleApply(w) PROVE Places'
    BY <1>4, PlacesApply DEF HandleApply
  <1>5. ASSUME NEW w \in Worker, HandleFlush(w) PROVE Places'
    <2>1. deltaT[w] \in [Shard -> SUBSET Update]
      BY DEF TypeOK
    <2> QED BY ZenonT(30), <1>5, <2>1, PlacesSend DEF HandleFlush
  <1>6. CASE StartFlush \/ StartApply \/ EndBarrier \/ Finished \/ UNCHANGED vars
    BY <1>6, PlacesUnmoved
       DEF placeVars, StartFlush, StartApply, EndBarrier, Finished, vars
  <1> QED BY <1>1, <1>2, <1>3, <1>4, <1>5, <1>6 DEF Next
=============================================================================
