----------------------------- MODULE StoreProofs ----------------------------
(***************************************************************************)
(* Proofs about the disk store: the hot-aware cache of SStore (HotCache),  *)
(* for every set of keys, every data and every cache size, and the files   *)
(* that are mapped into memory (MMapedFile), for every file, page and      *)
(* address space.                                                          *)
(***************************************************************************)
EXTENDS HotCache, FiniteSetTheorems, SequenceTheorems, TLAPS

(* influMap has the list of an influential node exactly if its line is      *)
(* plain.                                                                   *)
InfluRead == \A k \in Influential : influMap[k] = Data[k] <=> Plain(k)

(* These are inductive together with the types.                            *)
IInv == TypeOK /\ IndexesAgree /\ GetsStored /\ InfluRead

-----------------------------------------------------------------------------
(* The loading of influMap                                                  *)

(* A number that does not fit an int becomes another one.                   *)
LEMMA ToIntFits ==
  ASSUME NEW x \in Int
  PROVE  ToInt(x) \in Int /\ (ToInt(x) = x <=> x \in IntValue)
  <1>1. Half \in Nat \ {0}
    BY InfluAssumption
  <1>2. CASE x \in IntValue
    BY <1>2 DEF ToInt
  <1>3. CASE x \notin IntValue
    <2>1. (x + Half) % (2 * Half) \in 0 .. 2 * Half - 1
      BY <1>1
    <2> QED BY <1>1, <1>3, <2>1 DEF ToInt, IntValue
  <1> QED BY <1>2, <1>3

(* The line of a node is a line.                                            *)
LEMMA LineOfType ==
  ASSUME file \in InfluFiles, NEW k \in Key, LinesOf(k) # {}
  PROVE  LineOf(k).spaces \in Nat
  <1>1. file \in Seq(Line)
    BY InfluAssumption
  <1> DEFINE i == CHOOSE j \in LinesOf(k) : TRUE
  <1>2. i \in LinesOf(k)
    <2>1. \E j \in LinesOf(k) : TRUE
      OBVIOUS
    <2> QED BY Zenon, <2>1
  <1>3. i \in DOMAIN file
    BY Zenon, <1>2 DEF LinesOf
  <1> HIDE DEF i
  <1>4. file[i] \in Line
    BY <1>1, <1>3, ElementOfSeq, LenProperties
  <1>5. file[i].spaces \in Nat
    BY <1>4 DEF Line
  <1> QED BY Zenon, <1>5 DEF LineOf, i

(* What the constructor makes of the line of k: its list exactly if the     *)
(* line is plain.                                                           *)
LEMMA LinkvecPlain ==
  ASSUME file \in InfluFiles, NEW k \in Key, LinesOf(k) # {}, NEW to \in Int
  PROVE  /\ linkvec(k, to) \in Value
         /\ linkvec(k, to) = Data[k] <=> Plain(k)
  <1> DEFINE n == Len(Data[k])
             v == linkvec(k, to)
  <1>1. /\ Data[k] \in Seq(Int) /\ n \in Nat /\ DOMAIN Data[k] = 1 .. n
        /\ \A i \in 1 .. n : Data[k][i] \in Int
    BY StoreAssumption DEF Value
  <1>2. Empty(k) \in Nat /\ (Empty(k) = 0 <=> Data[k] # <<>> /\ LineOf(k).spaces = 0)
    BY LineOfType DEF Empty
  <1>3. /\ DOMAIN v = 1 .. n + Empty(k)
        /\ \A i \in 1 .. n : v[i] = ToInt(Data[k][i])
        /\ \A i \in 1 .. n + Empty(k) : i \notin 1 .. n => v[i] = to
        /\ v = [i \in 1 .. n + Empty(k) |-> v[i]]
    BY <1>1, <1>2 DEF linkvec
  <1> HIDE DEF v
  <1>4. v \in Seq(Int)
    <2>1. \A i \in 1 .. n + Empty(k) : v[i] \in Int
      BY <1>1, <1>3, ToIntFits
    <2>2. n + Empty(k) \in Nat
      BY <1>1, <1>2
    <2>3. v \in [1 .. n + Empty(k) -> Int]
      BY Zenon, <1>3, <2>1
    <2>4. \E m \in Nat : v \in [1 .. m -> Int]
      BY Zenon, <2>2, <2>3
    <2> QED BY SMTT(30), <2>4, SeqDef
  <1>5. ASSUME Plain(k) PROVE v = Data[k]
    <2>1. Empty(k) = 0
      BY <1>2, <1>5 DEF Plain
    <2>2. \A i \in 1 .. n : v[i] = Data[k][i]
      BY <1>1, <1>3, <1>5, ToIntFits DEF Plain
    <2>3. v = [i \in 1 .. n |-> v[i]]
      BY <1>1, <1>3, <2>1
    <2>4. Data[k] = [i \in 1 .. n |-> Data[k][i]]
      BY <1>1
    <2> QED BY <2>2, <2>3, <2>4
  <1>6. ASSUME v = Data[k] PROVE Plain(k)
    <2>1. 1 .. n + Empty(k) = 1 .. n
      BY Zenon, <1>1, <1>3, <1>6
    <2>2. Empty(k) = 0
      BY <1>1, <1>2, <2>1
    <2>3. \A i \in 1 .. n : Data[k][i] \in IntValue
      BY <1>1, <1>3, <1>6, ToIntFits
    <2> QED BY <1>1, <1>2, <2>2, <2>3 DEF Plain
  <1> QED BY Zenon, <1>4, <1>5, <1>6 DEF Value, v

(* The constructor as a whole.                                              *)
LEMMA InfluLoaded ==
  Init => influMap \in [Key -> Value \cup {Absent}] /\ InfluRead
  <1> SUFFICES ASSUME Init
               PROVE  influMap \in [Key -> Value \cup {Absent}] /\ InfluRead
    OBVIOUS
  <1>1. PICK to \in [Key -> Undefined] :
          influMap = [k \in Key |->
                        IF LinesOf(k) = {} THEN Absent ELSE linkvec(k, to[k])]
    BY Zenon DEF Init
  <1>2. \A k \in Key : to[k] \in Int
    BY InfluAssumption
  <1>3. file \in InfluFiles
    BY DEF Init
  <1>4. \A k \in Key : LinesOf(k) # {} =>
          linkvec(k, to[k]) \in Value /\ (linkvec(k, to[k]) = Data[k] <=> Plain(k))
    BY Zenon, <1>2, <1>3, LinkvecPlain
  <1> QED BY Zenon, <1>1, <1>4 DEF InfluRead, Influential

(* It is not changed any more.                                              *)
LEMMA InfluKept ==
  ASSUME UNCHANGED <<file, influMap>>
  PROVE  /\ Influential' = Influential
         /\ InfluRead => InfluRead'
         /\ \A k : Faithful(k)' <=> Faithful(k)
  <1>1. \A k : LinesOf(k)' = LinesOf(k)
    BY DEF LinesOf
  <1>2. \A k : LineOf(k)' = LineOf(k)
    BY <1>1 DEF LineOf
  <1>3. \A k : Plain(k)' <=> Plain(k)
    BY Zenon, <1>2 DEF Plain, IntValue
  <1>4. Influential' = Influential
    BY Zenon DEF Influential
  <1> QED BY Zenon, <1>3, <1>4 DEF InfluRead, Faithful

-----------------------------------------------------------------------------
(* One lemma per way in which addCache can change the three indexes.        *)

(* add enters a key that is not cached in all three indexes.               *)
LEMMA AddKeeps ==
  ASSUME IInv, NEW k \in Key, NEW p \in Priority, k \notin Cached,
         add(k, Data[k], p)
  PROVE  /\ kv' \in [Key -> Value \cup {Absent}]
         /\ kp' \in [Key -> Priority \cup {Absent}]
         /\ pk' \in [Priority \X Key -> Nat]
         /\ IndexesAgree'
         /\ Cached' = Cached \cup {k}
         /\ kv'[k] = Data[k] /\ \A j \in Key : j # k => kv'[j] = kv[j]
  <1> USE StoreAssumption, CacheAssumption
  <1>1. kv[k] = Absent /\ kp[k] = Absent
    BY DEF IInv, IndexesAgree, Cached
  <1>2. /\ kv' \in [Key -> Value \cup {Absent}]
        /\ kp' \in [Key -> Priority \cup {Absent}]
        /\ pk' \in [Priority \X Key -> Nat]
    <2>1. kv \in [Key -> Value \cup {Absent}] /\ kp \in [Key -> Priority \cup {Absent}]
      BY DEF IInv, TypeOK
    <2>2. pk \in [Priority \X Key -> Nat] /\ <<p, k>> \in Priority \X Key
      BY DEF IInv, TypeOK
    <2>3. Data[k] \in Value
      OBVIOUS
    <2>4. kv' \in [Key -> Value \cup {Absent}] /\ kp' \in [Key -> Priority \cup {Absent}]
      BY <2>1, <2>3 DEF add
    <2>5. pk' \in [Priority \X Key -> Nat]
      BY <2>2 DEF add
    <2> QED BY <2>4, <2>5
  <1>3. /\ kv'[k] = Data[k] /\ kp'[k] = p
        /\ \A j \in Key : j # k => kv'[j] = kv[j] /\ kp'[j] = kp[j]
    BY DEF IInv, TypeOK, add
  <1>4. \A q \in Priority, j \in Key :
          pk'[<<q, j>>] = IF q = p /\ j = k THEN pk[<<p, k>>] + 1 ELSE pk[<<q, j>>]
    BY DEF IInv, TypeOK, add
  <1>5. Data[k] # Absent /\ p # Absent
    OBVIOUS
  <1>6. IndexesAgree'
    <2> SUFFICES ASSUME NEW j \in Key
                 PROVE  /\ kv'[j] = Absent <=> kp'[j] = Absent
                        /\ \A q \in Priority :
                             pk'[<<q, j>>] = IF kp'[j] = q THEN 1 ELSE 0
      BY DEF IndexesAgree
    <2>1. CASE j = k
      <3>1. \A q \in Priority : pk[<<q, k>>] = 0
        BY <1>1 DEF IInv, IndexesAgree
      <3> QED BY <1>3, <1>4, <1>5, <2>1, <3>1
    <2>2. CASE j # k
      BY <1>3, <1>4, <2>2 DEF IInv, IndexesAgree
    <2> QED BY <2>1, <2>2
  <1>7. Cached' = Cached \cup {k}
    BY <1>3, <1>5 DEF Cached
  <1> QED BY <1>2, <1>3, <1>6, <1>7

(* updatePrority moves the entry of a cached key in the index by priority. *)
LEMMA UpdateKeeps ==
  ASSUME IInv, NEW k \in Key, NEW p \in Priority, k \in Cached,
         updatePrority(k, p)
  PROVE  /\ kv' = kv
         /\ kp' \in [Key -> Priority \cup {Absent}]
         /\ pk' \in [Priority \X Key -> Nat]
         /\ IndexesAgree'
         /\ Cached' = Cached
  <1> USE StoreAssumption, CacheAssumption
  <1> DEFINE erased == [e \in Priority \X Key |->
                   IF e = <<kp[k], k>> /\ pk[e] > 0 THEN pk[e] - 1 ELSE pk[e]]
  <1>1. kp[k] \in Priority
    BY DEF IInv, TypeOK, IndexesAgree, Cached
  <1>2. erased \in [Priority \X Key -> Nat]
    BY DEF IInv, TypeOK
  <1>3. \A q \in Priority, j \in Key :
          erased[<<q, j>>] = IF j = k THEN 0 ELSE pk[<<q, j>>]
    BY <1>1 DEF IInv, TypeOK, IndexesAgree
  <1>4. /\ kv' = kv /\ kp' = [kp EXCEPT ![k] = p]
        /\ pk' = [erased EXCEPT ![<<p, k>>] = @ + 1]
    BY DEF updatePrority
  <1> HIDE DEF erased
  <1>5. /\ kp' \in [Key -> Priority \cup {Absent}]
        /\ pk' \in [Priority \X Key -> Nat]
    BY <1>2, <1>4 DEF IInv, TypeOK
  <1>6. /\ kp'[k] = p /\ \A j \in Key : j # k => kp'[j] = kp[j]
        /\ \A q \in Priority, j \in Key :
             pk'[<<q, j>>] = IF q = p /\ j = k THEN erased[<<p, k>>] + 1
                                                ELSE erased[<<q, j>>]
    BY <1>2, <1>4 DEF IInv, TypeOK
  <1>7. kv[k] # Absent /\ p # Absent
    BY DEF Cached
  <1>8. IndexesAgree'
    BY <1>3, <1>4, <1>6, <1>7 DEF IInv, IndexesAgree
  <1> QED BY <1>4, <1>5, <1>8 DEF Cached

(* replaceMin takes an entry out of all three indexes and enters another.  *)
LEMMA ReplaceKeeps ==
  ASSUME IInv, NEW k \in Key, NEW p \in Priority, k \notin Cached,
         NEW e \in Entries, replaceMin(k, Data[k], p, e)
  PROVE  /\ kv' \in [Key -> Value \cup {Absent}]
         /\ kp' \in [Key -> Priority \cup {Absent}]
         /\ pk' \in [Priority \X Key -> Nat]
         /\ IndexesAgree'
         /\ e[2] \in Cached /\ kp[e[2]] = e[1]
         /\ Cached' = (Cached \ {e[2]}) \cup {k}
         /\ kv'[k] = Data[k]
         /\ \A j \in Key : j # k => kv'[j] \in {kv[j], Absent}
  <1> USE StoreAssumption, CacheAssumption
  <1> DEFINE q == e[1]
             x == e[2]
  <1>1. q \in Priority /\ x \in Key /\ e = <<q, x>> /\ pk[<<q, x>>] > 0
    BY DEF Entries
  <1> HIDE DEF q, x
  <1>2. kp[x] = q
    BY <1>1 DEF IInv, IndexesAgree
  <1>3. x \in Cached /\ x # k /\ pk[<<q, x>>] = 1
    BY <1>1, <1>2 DEF IInv, IndexesAgree, Cached
  <1>4. kv[k] = Absent /\ kp[k] = Absent
    BY DEF IInv, IndexesAgree, Cached
  <1>5. /\ kv' = [kv EXCEPT ![x] = Absent, ![k] = Data[k]]
        /\ kp' = [kp EXCEPT ![x] = Absent, ![k] = p]
        /\ pk' = [[pk EXCEPT ![<<q, x>>] = @ - 1] EXCEPT ![<<p, k>>] = @ + 1]
    BY Zenon, <1>1 DEF replaceMin, x
  <1>6. /\ kv'[k] = Data[k] /\ kp'[k] = p /\ kv'[x] = Absent /\ kp'[x] = Absent
        /\ \A j \in Key : j # k /\ j # x => kv'[j] = kv[j] /\ kp'[j] = kp[j]
    BY <1>1, <1>3, <1>5 DEF IInv, TypeOK
  <1>7. /\ kv' \in [Key -> Value \cup {Absent}]
        /\ kp' \in [Key -> Priority \cup {Absent}]
    BY SMTT(30), <1>1, <1>5 DEF IInv, TypeOK
  <1>8. \A y \in Priority, j \in Key :
          pk'[<<y, j>>] = IF y = p /\ j = k THEN pk[<<y, j>>] + 1
                          ELSE IF y = q /\ j = x THEN pk[<<y, j>>] - 1
                          ELSE pk[<<y, j>>]
    BY SMTT(30), <1>1, <1>3, <1>5 DEF IInv, TypeOK
  <1>9. pk' \in [Priority \X Key -> Nat]
    <2>1. [pk EXCEPT ![<<q, x>>] = @ - 1] \in [Priority \X Key -> Nat]
      BY <1>1, <1>3 DEF IInv, TypeOK
    <2> QED BY <1>5, <2>1
  <1>10. Data[k] # Absent /\ p # Absent
    OBVIOUS
  <1>11. IndexesAgree'
    <2> SUFFICES ASSUME NEW j \in Key
                 PROVE  /\ kv'[j] = Absent <=> kp'[j] = Absent
                        /\ \A y \in Priority :
                             pk'[<<y, j>>] = IF kp'[j] = y THEN 1 ELSE 0
      BY DEF IndexesAgree
    <2>1. CASE j = k
      <3>1. \A y \in Priority : pk[<<y, k>>] = 0
        BY <1>4 DEF IInv, IndexesAgree
      <3> QED BY <1>3, <1>6, <1>8, <1>10, <2>1, <3>1
    <2>2. CASE j = x
      <3>1. \A y \in Priority : pk[<<y, x>>] = IF y = q THEN 1 ELSE 0
        BY <1>1, <1>2 DEF IInv, IndexesAgree
      <3> QED BY <1>3, <1>6, <1>8, <2>2, <3>1
    <2>3. CASE j # k /\ j # x
      BY <1>6, <1>8, <2>3 DEF IInv, IndexesAgree
    <2> QED BY <2>1, <2>2, <2>3
  <1>12. Cached' = (Cached \ {x}) \cup {k}
    BY <1>1, <1>6, <1>10 DEF Cached
  <1> QED BY <1>1, <1>2, <1>3, <1>6, <1>7, <1>9, <1>11, <1>12 DEF q, x

-----------------------------------------------------------------------------
(* What a getData may do to the cache: nothing, one of the three ways above. *)

(* getData does one of these, or changes nothing.                          *)
LEMMA GetDataCases ==
  ASSUME IInv, NEW k \in Key, NEW p \in Priority, getData(k, p)
  PROVE  /\ asked' = <<k, p>> /\ UNCHANGED <<file, influMap>>
         /\ given' = IF k \in Influential THEN influMap[k] ELSE Data[k]
         /\ \/ UNCHANGED cacheVars
            \/ k \in Cached /\ k \notin Influential /\ updatePrority(k, p)
            \/ /\ k \notin Cached /\ k \notin Influential
               /\ Cardinality(Cached) < CacheSize /\ add(k, Data[k], p)
            \/ /\ k \notin Cached /\ k \notin Influential
               /\ \E e \in Entries : IsMin(e) /\ replaceMin(k, Data[k], p, e)
  <1>1. CASE k \in Influential
    BY <1>1 DEF getData
  <1>2. CASE k \notin Influential /\ k \in Cached
    <2>1. kv[k] = Data[k]
      BY <1>2 DEF IInv, GetsStored
    <2> QED BY <1>2, <2>1 DEF getData, addCache
  <1>3. CASE k \notin Influential /\ k \notin Cached
    BY <1>3 DEF getData, addCache
  <1> QED BY <1>1, <1>2, <1>3

(* The indexes agree after every getData.                                  *)
LEMMA NextKeepsIInv == IInv /\ [Next]_vars => IInv'
  <1> SUFFICES ASSUME IInv, [Next]_vars
               PROVE  IInv'
    OBVIOUS
  <1> USE StoreAssumption, CacheAssumption
  <1>1. ASSUME NEW k \in Key, NEW p \in Priority, getData(k, p)
        PROVE  IInv'
    <2>1. /\ asked' = <<k, p>> /\ UNCHANGED <<file, influMap>>
          /\ given' = IF k \in Influential THEN influMap[k] ELSE Data[k]
          /\ \/ UNCHANGED cacheVars
             \/ k \in Cached /\ k \notin Influential /\ updatePrority(k, p)
             \/ /\ k \notin Cached /\ k \notin Influential
                /\ Cardinality(Cached) < CacheSize /\ add(k, Data[k], p)
             \/ /\ k \notin Cached /\ k \notin Influential
                /\ \E e \in Entries : IsMin(e) /\ replaceMin(k, Data[k], p, e)
      BY <1>1, GetDataCases
    <2>7. Influential' = Influential /\ InfluRead' /\ (Faithful(k)' <=> Faithful(k))
      BY Zenon, <2>1, InfluKept DEF IInv
    <2>8. given' = Data[k] <=> Faithful(k)
      BY Zenon, <2>1 DEF IInv, InfluRead, Faithful
    <2>9. asked'[1] = k
      BY <2>1
    <2>10. given' # Absent => (given' = Data[asked'[1]] <=> Faithful(asked[1])')
      BY Zenon, <2>7, <2>8, <2>9
    <2>2. /\ asked' \in Key \X Priority /\ given' \in Value \cup {Absent}
          /\ file' \in InfluFiles /\ influMap' \in [Key -> Value \cup {Absent}]
      BY <2>1 DEF IInv, TypeOK
    <2>3. CASE UNCHANGED cacheVars
      <3>1. TypeOK' /\ IndexesAgree' /\ Cached' = Cached
        BY <2>2, <2>3 DEF IInv, TypeOK, IndexesAgree, cacheVars, Cached
      <3>2. GetsStored'
        BY Zenon, <2>3, <2>7, <2>10, <3>1 DEF IInv, GetsStored, cacheVars
      <3> QED BY Zenon, <2>7, <3>1, <3>2 DEF IInv
    <2>4. CASE k \in Cached /\ k \notin Influential /\ updatePrority(k, p)
      <3>1. /\ kv' = kv /\ Cached' = Cached /\ IndexesAgree'
            /\ kp' \in [Key -> Priority \cup {Absent}]
            /\ pk' \in [Priority \X Key -> Nat]
        BY Zenon, <2>4, UpdateKeeps
      <3>2. TypeOK'
        BY <2>2, <3>1 DEF IInv, TypeOK
      <3>3. GetsStored'
        BY Zenon, <2>7, <2>10, <3>1 DEF IInv, GetsStored
      <3> QED BY Zenon, <2>7, <3>1, <3>2, <3>3 DEF IInv
    <2>5. CASE k \notin Cached /\ k \notin Influential /\ add(k, Data[k], p)
      <3>1. /\ kv' \in [Key -> Value \cup {Absent}]
            /\ kp' \in [Key -> Priority \cup {Absent}]
            /\ pk' \in [Priority \X Key -> Nat]
            /\ IndexesAgree' /\ Cached' = Cached \cup {k}
            /\ kv'[k] = Data[k] /\ \A j \in Key : j # k => kv'[j] = kv[j]
        BY Zenon, <2>5, AddKeeps
      <3>2. TypeOK'
        BY <2>2, <3>1 DEF TypeOK
      <3>3. GetsStored'
        <4>1. \A j \in Cached' : kv'[j] = Data[j] /\ j \notin Influential'
          BY <2>5, <2>7, <3>1 DEF IInv, GetsStored, Cached
        <4> QED BY Zenon, <2>10, <4>1 DEF GetsStored
      <3> QED BY Zenon, <2>7, <3>1, <3>2, <3>3 DEF IInv
    <2>6. CASE /\ k \notin Cached /\ k \notin Influential
               /\ \E e \in Entries : IsMin(e) /\ replaceMin(k, Data[k], p, e)
      <3>1. PICK e \in Entries : IsMin(e) /\ replaceMin(k, Data[k], p, e)
        BY <2>6
      <3>2. /\ kv' \in [Key -> Value \cup {Absent}]
            /\ kp' \in [Key -> Priority \cup {Absent}]
            /\ pk' \in [Priority \X Key -> Nat]
            /\ IndexesAgree' /\ Cached' = (Cached \ {e[2]}) \cup {k}
            /\ kv'[k] = Data[k]
            /\ \A j \in Key : j # k => kv'[j] \in {kv[j], Absent}
        BY Zenon, <2>6, <3>1, ReplaceKeeps
      <3>3. TypeOK'
        BY <2>2, <3>2 DEF TypeOK
      <3>4. GetsStored'
        <4>1. \A j \in Cached' : kv'[j] = Data[j] /\ j \notin Influential'
          BY <2>6, <2>7, <3>2 DEF IInv, GetsStored, Cached
        <4> QED BY Zenon, <2>10, <4>1 DEF GetsStored
      <3> QED BY Zenon, <2>7, <3>2, <3>3, <3>4 DEF IInv
    <2> QED BY <2>1, <2>3, <2>4, <2>5, <2>6
  <1>2. CASE UNCHANGED vars
    <2>1. InfluRead' /\ Influential' = Influential /\ \A k : Faithful(k)' <=> Faithful(k)
      BY Zenon, <1>2, InfluKept DEF vars, IInv
    <2>2. TypeOK' /\ IndexesAgree'
      BY <1>2 DEF vars, IInv, TypeOK, IndexesAgree
    <2>3. GetsStored'
      <3>1. UNCHANGED <<kv, asked, given>> /\ Cached' = Cached
        BY <1>2 DEF vars, Cached
      <3>2. Faithful(asked[1])' <=> Faithful(asked[1])
        BY Zenon, <2>1, <3>1
      <3> QED BY Zenon, <2>1, <3>1, <3>2 DEF IInv, GetsStored
    <2> QED BY Zenon, <2>1, <2>2, <2>3 DEF IInv
  <1> QED BY <1>1, <1>2 DEF Next

(* In every reachable state the variables have their types, kv, kp and pk    *)
(* describe the same entries, and getData has returned what the store holds, *)
(* except for a line of INFLU_FILE that is not plain.                        *)
THEOREM CacheInvariant == Spec => []IInv
  <1>1. Init => IInv
    <2> SUFFICES ASSUME Init PROVE IInv
      OBVIOUS
    <2>1. influMap \in [Key -> Value \cup {Absent}] /\ InfluRead
      BY Zenon, InfluLoaded
    <2>2. TypeOK /\ IndexesAgree
      BY <2>1, StoreAssumption, CacheAssumption DEF Init, TypeOK, IndexesAgree
    <2>3. GetsStored
      BY Zenon DEF Init, GetsStored, Cached
    <2> QED BY Zenon, <2>1, <2>2, <2>3 DEF IInv
  <1> QED BY <1>1, NextKeepsIInv, PTL DEF Spec

-----------------------------------------------------------------------------
(* The bound on the size needs the cardinality of a finite Cached.           *)
Bounded == IsFiniteSet(Cached) /\ SizeBounded

(* An entry is added only while there is room.                             *)
LEMMA NextKeepsBounded == IInv /\ Bounded /\ [Next]_vars => Bounded'
  <1> SUFFICES ASSUME IInv, Bounded, [Next]_vars
               PROVE  Bounded'
    OBVIOUS
  <1>0. Cardinality(Cached) \in Nat /\ CacheSize \in Nat
    BY FS_CardinalityType, CacheAssumption DEF Bounded
  <1>1. ASSUME NEW k \in Key, NEW p \in Priority, getData(k, p)
        PROVE  Bounded'
    <2>1. CASE Cached' = Cached
      BY <2>1 DEF Bounded, SizeBounded
    <2>2. CASE /\ k \notin Cached /\ Cardinality(Cached) < CacheSize
               /\ add(k, Data[k], p)
      <3>1. Cached' = Cached \cup {k}
        BY <2>2, AddKeeps
      <3>2. IsFiniteSet(Cached') /\ Cardinality(Cached') = Cardinality(Cached) + 1
        BY <2>2, <3>1, FS_AddElement DEF Bounded
      <3> QED BY <1>0, <2>2, <3>2 DEF Bounded, SizeBounded
    <2>3. CASE /\ k \notin Cached
               /\ \E e \in Entries : IsMin(e) /\ replaceMin(k, Data[k], p, e)
      <3>1. PICK e \in Entries : IsMin(e) /\ replaceMin(k, Data[k], p, e)
        BY <2>3
      <3>2. e[2] \in Cached /\ Cached' = (Cached \ {e[2]}) \cup {k}
        BY <2>3, <3>1, ReplaceKeeps
      <3>3. /\ IsFiniteSet(Cached \ {e[2]})
            /\ Cardinality(Cached \ {e[2]}) = Cardinality(Cached) - 1
        BY <3>2, FS_RemoveElement DEF Bounded
      <3>4. k \notin Cached \ {e[2]}
        BY <2>3
      <3>5. /\ IsFiniteSet(Cached')
            /\ Cardinality(Cached') = Cardinality(Cached \ {e[2]}) + 1
        BY Zenon, <3>2, <3>3, <3>4, FS_AddElement
      <3> QED BY <1>0, <3>3, <3>5 DEF Bounded, SizeBounded
    <2>4. CASE k \in Cached /\ updatePrority(k, p)
      BY <2>1, <2>4, UpdateKeeps
    <2>5. CASE UNCHANGED cacheVars
      BY <2>1, <2>5 DEF cacheVars, Cached
    <2> QED BY <1>1, <2>2, <2>3, <2>4, <2>5, GetDataCases
  <1>2. CASE UNCHANGED vars
    BY <1>2 DEF vars, Bounded, SizeBounded, Cached
  <1> QED BY <1>1, <1>2 DEF Next

(* The three indexes of SStore agree, getData returns the node's list        *)
(* exactly if it did not come from a misread line of INFLU_FILE, cached or   *)
(* not, and addCache never holds more than CACHE_SIZE entries.               *)
THEOREM CacheIsSound == Spec => []CacheSound
  <1>1. Init => Bounded
    <2> SUFFICES ASSUME Init PROVE Bounded
      OBVIOUS
    <2>1. Cached = {}
      BY DEF Init, Cached
    <2>2. IsFiniteSet(Cached) /\ Cardinality(Cached) = 0
      BY <2>1, FS_EmptySet
    <2> QED BY <2>2, CacheAssumption DEF Bounded, SizeBounded
  <1>2. IInv /\ Bounded => CacheSound
    BY DEF IInv, Bounded, CacheSound
  <1> QED BY <1>1, <1>2, NextKeepsBounded, CacheInvariant, PTL DEF Spec

-----------------------------------------------------------------------------
(* Only deleteMin evicts, and it evicts the coldest entry, for a key that is *)
(* hotter by more than the margin.                                           *)
THEOREM DeleteMinEvictsColdest == Spec => EvictsColdest
  <1> DEFINE Evicts == \A k \in Cached \ Cached' :
                         /\ \A j \in Cached : kp[k] <= kp[j]
                         /\ kp[k] + Margin < asked'[2]
                         /\ Cached' = (Cached \ {k}) \cup {asked'[1]}
  <1>1. IInv /\ [Next]_vars => [Evicts]_vars
    <2> SUFFICES ASSUME IInv, [Next]_vars
                 PROVE  [Evicts]_vars
      OBVIOUS
    <2>1. ASSUME NEW k \in Key, NEW p \in Priority, getData(k, p)
          PROVE  Evicts
      <3>1. CASE Cached \subseteq Cached'
        BY <3>1
      <3>2. CASE /\ k \notin Cached
                 /\ \E e \in Entries : IsMin(e) /\ replaceMin(k, Data[k], p, e)
        <4>1. PICK e \in Entries : IsMin(e) /\ replaceMin(k, Data[k], p, e)
          BY <3>2
        <4>2. /\ e[2] \in Cached /\ kp[e[2]] = e[1]
              /\ Cached' = (Cached \ {e[2]}) \cup {k}
          BY <3>2, <4>1, ReplaceKeeps
        <4>3. asked' = <<k, p>>
          BY <2>1, GetDataCases
        <4>4. ASSUME NEW j \in Cached PROVE e[1] <= kp[j]
          <5>1. j \in Key /\ kp[j] \in Priority
            BY DEF Cached, IInv, TypeOK, IndexesAgree
          <5>2. <<kp[j], j>> \in Entries
            BY <5>1 DEF Entries, IInv, IndexesAgree
          <5> QED BY <4>1, <5>2 DEF IsMin
        <4>5. e[1] + Margin < p
          BY <4>1 DEF replaceMin
        <4> QED BY <4>2, <4>3, <4>4, <4>5
      <3>3. CASE k \in Cached /\ updatePrority(k, p)
        BY <3>1, <3>3, UpdateKeeps
      <3>4. CASE k \notin Cached /\ add(k, Data[k], p)
        BY <3>1, <3>4, AddKeeps
      <3>5. CASE UNCHANGED cacheVars
        BY <3>1, <3>5 DEF cacheVars, Cached
      <3> QED BY <2>1, <3>2, <3>3, <3>4, <3>5, GetDataCases
    <2> QED BY <2>1 DEF Next
  <1> HIDE DEF Evicts
  <1>2. Spec => [][Evicts]_vars
    BY <1>1, CacheInvariant, PTL DEF Spec
  <1> QED BY <1>2 DEF Evicts, EvictsColdest

-----------------------------------------------------------------------------
(* MMapedFile: PointerMapped and OneMapping for files, pages and address    *)
(* spaces of any size.  Neither is inductive: a pointer into the old window *)
(* is right only if the description of the window is that of the one        *)
(* mapping there is, or memory_area is known to be no mapping.              *)

CONSTANTS PageSize, FileSize, Addr, Null
VARIABLES whole, fd, memory_area, size_mapped, offset_mapped, mapped,
          pointer,      \* what the last call returned
          lost

MMap == INSTANCE MMapedFile WITH given <- pointer

Window == [addr |-> memory_area, offset |-> offset_mapped, size |-> size_mapped]

(* What all steps keep: the only mapping is the window as it is described,  *)
(* and nothing is described before the first one.                           *)
WindowIInv ==
  /\ size_mapped \in Nat /\ offset_mapped \in Nat
  /\ memory_area \in Addr \cup {Null, MMap!MAP_FAILED}
  /\ mapped \subseteq {Window}
  /\ mapped # {} => memory_area \in Addr
  /\ memory_area = Null => size_mapped = 0 /\ offset_mapped = 0
  /\ whole => offset_mapped = 0
  /\ lost \in BOOLEAN
  /\ memory_area # Null => (lost <=> mapped = {})
  /\ MMap!PointerMapped

-----------------------------------------------------------------------------
(* The page of an offset begins at most a page before it.                   *)
LEMMA AlignDown ==
  ASSUME PageSize \in Nat \ {0}, NEW x \in Nat
  PROVE  /\ MMap!ALIGN_TO_PAGE(x) \in Nat
         /\ MMap!ALIGN_TO_PAGE(x) <= x /\ x < MMap!ALIGN_TO_PAGE(x) + PageSize
  <1>1. x % PageSize \in 0 .. PageSize - 1
    OBVIOUS
  <1>2. x = PageSize * (x \div PageSize) + (x % PageSize) /\ x \div PageSize \in Nat
    OBVIOUS
  <1>3. PageSize * (x \div PageSize) \in Nat
    BY <1>2
  <1> QED
    BY <1>1, <1>2, <1>3 DEF MMap!ALIGN_TO_PAGE

(* A window that is not empty has a page at least.                          *)
LEMMA AlignUp ==
  ASSUME PageSize \in Nat \ {0}, NEW x \in Nat \ {0}
  PROVE  /\ MMap!UPPER_ALIGN_TO_PAGE(x) \in Nat
         /\ MMap!UPPER_ALIGN_TO_PAGE(x) >= PageSize
  <1> DEFINE y == x + PageSize - 1
             q == y \div PageSize
  <1>1. y \in Nat /\ y >= PageSize
    OBVIOUS
  <1>2. y = PageSize * q + (y % PageSize) /\ q \in Nat /\ y % PageSize \in 0 .. PageSize - 1
    BY <1>1
  <1>3. q # 0
    BY <1>1, <1>2
  <1>4. PageSize * q \in Nat /\ PageSize * q >= PageSize
    BY <1>2, <1>3
  <1>5. MMap!ALIGN_TO_PAGE(y) = PageSize * q
    BY <1>1, <1>2, <1>4 DEF MMap!ALIGN_TO_PAGE
  <1> QED
    BY <1>4, <1>5 DEF MMap!UPPER_ALIGN_TO_PAGE

-----------------------------------------------------------------------------
(* What openAndMmapFile looks for holds the offset that it is asked for.    *)
LEMMA RequestHoldsOffset ==
  ASSUME MMap!Parameters, NEW offset \in 0 .. FileSize - 1,
         NEW length \in 1 .. FileSize - offset, NEW map_whole_file \in BOOLEAN,
         NEW off, off = IF map_whole_file THEN 0 ELSE MMap!ALIGN_TO_PAGE(offset),
         NEW len, len = IF map_whole_file THEN FileSize ELSE MMap!UPPER_ALIGN_TO_PAGE(length)
  PROVE  off \in Nat /\ len \in Nat /\ off <= offset /\ offset < off + len
  <1>1. CASE map_whole_file
    BY <1>1 DEF MMap!Parameters
  <1>2. CASE ~map_whole_file
    <2>1. off \in Nat /\ off <= offset /\ offset < off + PageSize
      BY <1>2, AlignDown DEF MMap!Parameters
    <2>2. len \in Nat /\ len >= PageSize
      BY <1>2, AlignUp DEF MMap!Parameters
    <2> QED
      BY <2>1, <2>2 DEF MMap!Parameters
  <1> QED
    BY <1>1, <1>2

(* A request that falls into the window, or into one that is no more.       *)
LEMMA InWindowKeeps ==
  ASSUME MMap!Parameters, WindowIInv, ~whole, NEW offset \in Nat, NEW off \in Nat, NEW len \in Nat,
         off <= offset, offset < off + len, MMap!openInWindow(offset, off, len)
  PROVE  WindowIInv'
  <1> USE DEF MMap!openInWindow, WindowIInv, Window
  <1>1. offset_mapped <= off /\ len + off - offset_mapped <= size_mapped
    BY DEF MMap!InWindow
  <1>2. offset - offset_mapped \in 0 .. size_mapped - 1
    BY <1>1
  <1>3. memory_area # Null
    BY <1>2
  <1>4. MMap!PointerMapped'
    <2>1. /\ pointer'.addr = memory_area /\ pointer'.pos = offset - offset_mapped
          /\ pointer'.offset = offset
      BY DEF MMap!Pointer
    <2>2. CASE lost
      BY <1>3, <2>2 DEF MMap!PointerMapped, MMap!ShowsByte
    <2>3. CASE ~lost
      <3>1. mapped' = {Window}
        BY <1>3, <2>3
      <3>2. MMap!ShowsByte'
        BY <1>2, <2>1, <3>1 DEF MMap!ShowsByte
      <3> QED BY Zenon, <2>3, <3>2 DEF MMap!PointerMapped
    <2> QED BY <2>2, <2>3
  <1> QED
    BY <1>4

(* A request for a new window, granted or not.                              *)
LEMMA NewWindowKeeps ==
  ASSUME MMap!Parameters, WindowIInv, ~whole, NEW offset \in Nat, NEW off \in Nat, NEW len \in Nat,
         off <= offset, offset < off + len, NEW allow_remap \in BOOLEAN,
         MMap!openNewWindow(offset, off, len, allow_remap)
  PROVE  WindowIInv'
  <1> DEFINE Refused(area) == memory_area # Null /\ ~allow_remap /\ area # memory_area
             Throws(area) == area = MMap!MAP_FAILED \/ Refused(area)
  <1>1. MMap!Released = {}
    BY DEF WindowIInv, Window, MMap!Released, MMap!Unmapped, MMap!Parameters
  <1>2. PICK area \in MMap!MmapResults(MMap!Released) :
          /\ memory_area' = area
          /\ mapped' = MMap!Released \cup IF Throws(area) THEN {} ELSE MMap!Mapping(area, off, len)
          /\ offset_mapped' = IF Throws(area) THEN offset_mapped ELSE off
          /\ size_mapped' = IF Throws(area) THEN size_mapped ELSE len
          /\ pointer' = IF Throws(area) THEN Null ELSE MMap!Pointer(area, offset - off, offset)
          /\ lost' = Throws(area)
    BY Zenon DEF MMap!openNewWindow
  <1>3. area \in Addr \cup {MMap!MAP_FAILED} /\ area # Null
    BY <1>2 DEF MMap!MmapResults, MMap!Parameters
  <1>4. whole' = whole
    BY DEF MMap!openNewWindow
  <1>5. CASE Throws(area)
    <2>1. mapped' = {} /\ pointer' = Null /\ lost' = TRUE
      BY <1>1, <1>2, <1>5
    <2> QED
      BY <1>2, <1>3, <1>4, <1>5, <2>1 DEF WindowIInv, Window, MMap!PointerMapped
  <1>6. CASE ~Throws(area)
    <2>1. area \in Addr
      BY <1>3, <1>6
    <2>2. mapped' = {[addr |-> area, offset |-> off, size |-> len]}
      BY <1>1, <1>2, <1>6 DEF MMap!Mapping
    <2>3. offset_mapped' = off /\ size_mapped' = len /\ lost' = FALSE
      BY <1>2, <1>6
    <2>4. /\ pointer'.addr = area /\ pointer'.pos = offset - off
          /\ pointer'.offset = offset
      BY <1>2, <1>6 DEF MMap!Pointer
    <2>5. MMap!PointerMapped'
      BY <2>2, <2>3, <2>4 DEF MMap!PointerMapped, MMap!ShowsByte
    <2> QED
      BY <1>2, <1>3, <1>4, <2>1, <2>2, <2>3, <2>5 DEF WindowIInv, Window
  <1> QED
    BY <1>5, <1>6

-----------------------------------------------------------------------------
(* The window is described right by the constructor and by every step.      *)
THEOREM WindowDescribed ==
  ASSUME MMap!Parameters
  PROVE  MMap!Spec => []WindowIInv
  <1>1. MMap!Init => WindowIInv
    <2> SUFFICES ASSUME MMap!Init PROVE WindowIInv
      OBVIOUS
    <2>1. MMap!PointerMapped /\ lost \in BOOLEAN
      BY Zenon DEF MMap!Init, MMap!PointerMapped
    <2> QED
      BY <2>1 DEF MMap!Init, WindowIInv, Window
  <1>2. WindowIInv /\ [MMap!Next]_(MMap!vars) => WindowIInv'
    <2> SUFFICES ASSUME WindowIInv, [MMap!Next]_(MMap!vars)
                 PROVE  WindowIInv'
      OBVIOUS
    <2>1. CASE MMap!readMmapFile
      <3>1. memory_area = Null /\ mapped = {} /\ offset_mapped = 0
        BY <2>1 DEF MMap!readMmapFile, WindowIInv, MMap!Parameters
      <3>2. PICK area \in MMap!MmapResults(mapped) :
              /\ memory_area' = area
              /\ mapped' = mapped \cup MMap!Mapping(area, 0, FileSize)
              /\ pointer' = IF area = MMap!MAP_FAILED THEN Null ELSE MMap!Pointer(area, 0, 0)
              /\ lost' = (area = MMap!MAP_FAILED)
        BY <2>1 DEF MMap!readMmapFile
      <3>3. size_mapped' = FileSize /\ offset_mapped' = offset_mapped /\ whole' = whole
        BY <2>1 DEF MMap!readMmapFile
      <3>4. area \in Addr \cup {MMap!MAP_FAILED} /\ area # Null
        BY <3>2 DEF MMap!MmapResults, MMap!Parameters
      <3>5. CASE area = MMap!MAP_FAILED
        BY <3>1, <3>2, <3>3, <3>4, <3>5
           DEF WindowIInv, Window, MMap!PointerMapped, MMap!Mapping, MMap!Parameters
      <3>6. CASE area # MMap!MAP_FAILED
        <4>1. mapped' = {[addr |-> area, offset |-> 0, size |-> FileSize]}
          BY <3>1, <3>2, <3>6 DEF MMap!Mapping
        <4>2. pointer'.addr = area /\ pointer'.pos = 0 /\ pointer'.offset = 0
          BY <3>2, <3>6 DEF MMap!Pointer
        <4>3. MMap!ShowsByte'
          BY <4>1, <4>2 DEF MMap!ShowsByte, MMap!Parameters
        <4>4. lost' = FALSE
          BY <3>2, <3>6
        <4>5. MMap!PointerMapped'
          BY Zenon, <4>3, <4>4 DEF MMap!PointerMapped
        <4> QED
          BY <3>1, <3>2, <3>3, <3>4, <3>6, <4>1, <4>4, <4>5 DEF WindowIInv, Window, MMap!Parameters
      <3> QED
        BY <3>5, <3>6
    <2>2. ASSUME NEW offset \in 0 .. FileSize - 1, NEW map_whole_file \in BOOLEAN,
                 NEW allow_remap \in BOOLEAN, NEW length \in 1 .. FileSize - offset,
                 MMap!openAndMmapFile(offset, length, map_whole_file, allow_remap)
          PROVE  WindowIInv'
      <3> DEFINE off == IF map_whole_file THEN 0 ELSE MMap!ALIGN_TO_PAGE(offset)
                 len == IF map_whole_file THEN FileSize ELSE MMap!UPPER_ALIGN_TO_PAGE(length)
      <3>1. ~whole /\ (MMap!openInWindow(offset, off, len) \/ MMap!openNewWindow(offset, off, len, allow_remap))
        BY <2>2 DEF MMap!openAndMmapFile
      <3>2. off \in Nat /\ len \in Nat /\ off <= offset /\ offset < off + len
        BY RequestHoldsOffset
      <3>3. offset \in Nat
        BY DEF MMap!Parameters
      <3> HIDE DEF off, len
      <3> QED
        BY <3>1, <3>2, <3>3, InWindowKeeps, NewWindowKeeps
    <2>3. CASE MMap!munmapAndCloseFile
      <3>1. mapped' = {} /\ pointer' = Null /\ lost' = TRUE
        BY <2>3 DEF MMap!munmapAndCloseFile, MMap!Unmapped, WindowIInv, Window
      <3> QED
        BY <2>3, <3>1 DEF MMap!munmapAndCloseFile, WindowIInv, Window, MMap!PointerMapped
    <2>4. CASE UNCHANGED MMap!vars
      BY <2>4 DEF MMap!vars, WindowIInv, Window, MMap!PointerMapped, MMap!ShowsByte
    <2> QED
      BY <2>1, <2>2, <2>3, <2>4 DEF MMap!Next
  <1> QED
    BY <1>1, <1>2, PTL DEF MMap!Spec

(* A pointer that openAndMmapFile or readMmapFile returns shows the byte of *)
(* the file that was asked for exactly if no close and no request that      *)
(* threw came after the window was made.                                    *)
THEOREM PointersMapped ==
  ASSUME MMap!Parameters
  PROVE  MMap!Spec => []MMap!PointerMapped
  <1>1. WindowIInv => MMap!PointerMapped
    BY DEF WindowIInv
  <1> QED
    BY <1>1, WindowDescribed, PTL

(* No path through openAndMmapFile, readMmapFile and munmapAndCloseFile     *)
(* leaves a window mapped that the object does not know of.                 *)
THEOREM NoWindowLeaks ==
  ASSUME MMap!Parameters
  PROVE  MMap!Spec => []MMap!OneMapping
  <1>1. WindowIInv => MMap!OneMapping
    <2> SUFFICES ASSUME WindowIInv, NEW m \in mapped
                 PROVE  m.addr = memory_area /\ Cardinality(mapped) = 1
      BY Zenon DEF MMap!OneMapping, MMap!Cardinality, MMap!IsFiniteSet, Cardinality, IsFiniteSet
    <2>1. mapped = {Window} /\ m = Window
      BY DEF WindowIInv
    <2> QED
      BY Zenon, <2>1, FS_Singleton DEF Window
  <1> QED
    BY <1>1, WindowDescribed, PTL
=============================================================================
