------------------------------ MODULE HotCache ------------------------------
(***************************************************************************)
(* The hot-aware cache of SStore (store/cache.h, store/sstore.h): the       *)
(* adjacency lists of the hottest nodes, kept in front of the SSD file.     *)
(* One SStore belongs to one run of MaiterKernel2 and is used by its main   *)
(* thread only, so that getData is one step.                                *)
(*                                                                          *)
(* The cache keeps three indexes of the same entries: kv (key to data), kp  *)
(* (key to priority) and pk (a multimap from priority to key).  The         *)
(* influential nodes are in influMap, loaded once and never evicted.  Their *)
(* file is cut from the same graph; a line of it is what the parser of the  *)
(* constructor can tell apart: whether it has a tab, whose list it is, and  *)
(* how many spaces follow the list.                                         *)
(* Priorities are floats in the code; here they are natural numbers in      *)
(* units in which the constant 0.02 of deleteMin is the integer Margin.     *)
(***************************************************************************)
EXTENDS Integers, Sequences, FiniteSets

CONSTANTS
  Key,          \* node identifiers
  Data,         \* Data[k]: the adjacency list that reader.read(k) returns
  InfluFiles,   \* what INFLU_FILE may hold: sequences of lines
  Half,         \* 2^31: an int is in -Half .. Half - 1
  Undefined,    \* what an int that was not initialised may hold
  Priority,     \* the priorities that occur
  Margin,       \* 0.02
  CacheSize,    \* CACHE_SIZE
  Absent        \* "find(key) == end()"

Value == Seq(Int)

Line == [tab : BOOLEAN, source : Key, spaces : Nat]

ASSUME StoreAssumption ==
  /\ Data \in [Key -> Value]
  /\ Absent \notin Value /\ Absent \notin Nat

(* No node has two lines.                                                   *)
ASSUME InfluAssumption ==
  /\ \A f \in InfluFiles :
       /\ f \in Seq(Line)
       /\ \A i, j \in DOMAIN f : f[i].source = f[j].source => i = j
  /\ Half \in Nat \ {0} /\ Undefined \subseteq Int

ASSUME CacheAssumption ==
  /\ Priority \subseteq Nat /\ Margin \in Nat
  /\ CacheSize \in Nat \ {0}

VARIABLES
  kv,           \* kv[k]: the data cached for k, or Absent
  kp,           \* kp[k]: the priority recorded for k, or Absent
  pk,           \* pk[<<p, k>>]: how many entries (p, k) the multimap has
  file,         \* INFLU_FILE
  influMap,     \* influMap[k]: the list it gave for k, or Absent
  asked,        \* the key and the priority of the last getData ...
  given         \* ... and the data it returned (Absent before the first one)

cacheVars == <<kv, kp, pk>>
vars == <<kv, kp, pk, file, influMap, asked, given>>

-----------------------------------------------------------------------------
(* Cache::Cache, which loads influMap                                       *)

(* A number of the file is put into an int.                                 *)
IntValue == -Half .. Half - 1
ToInt(x) == IF x \in IntValue THEN x ELSE ((x + Half) % (2 * Half)) - Half

(* The lines of k; the first line without a tab ends the loading.           *)
LinesOf(k) ==
  {i \in DOMAIN file : file[i].source = k /\ \A j \in 1 .. i : file[j].tab}

LineOf(k) == file[CHOOSE i \in LinesOf(k) : TRUE]

(* A space is always appended, and every space ends a number: for one after *)
(* another space, or for the one of an empty list, "to" is pushed as it is. *)
Empty(k) == LineOf(k).spaces + (IF Data[k] = <<>> THEN 1 ELSE 0)

linkvec(k, to) ==
  [i \in 1 .. Len(Data[k]) + Empty(k) |->
     IF i <= Len(Data[k]) THEN ToInt(Data[k][i]) ELSE to]

Init ==
  /\ file \in InfluFiles
  /\ \E to \in [Key -> Undefined] :
       influMap = [k \in Key |->
                     IF LinesOf(k) = {} THEN Absent ELSE linkvec(k, to[k])]
  /\ kv = [k \in Key |-> Absent]
  /\ kp = [k \in Key |-> Absent]
  /\ pk = [e \in Priority \X Key |-> 0]
  /\ asked \in Key \X Priority
  /\ given = Absent

-----------------------------------------------------------------------------
Cached == {k \in Key : kv[k] # Absent}

(* containsInfluKey                                                         *)
Influential == {k \in Key : influMap[k] # Absent}

Entries == {e \in Priority \X Key : pk[e] > 0}

(* Mutant of IsMin: the last entry.                                         *)
IsMinLast(e) == e \in Entries /\ \A f \in Entries : e[1] >= f[1]

(* The first entry of the multimap; the order of equal priorities is that   *)
(* of insertion, which is left open.                                        *)
IsMin(e) == e \in Entries /\ \A f \in Entries : e[1] <= f[1]

(* Cache::add                                                               *)
add(k, v, p) ==
  /\ kv' = [kv EXCEPT ![k] = v]
  /\ kp' = [kp EXCEPT ![k] = p]
  /\ pk' = [pk EXCEPT ![<<p, k>>] = @ + 1]

(* Mutant: the entry of the old priority stays.                             *)
updateProrityStale(k, p) ==
  /\ pk' = [pk EXCEPT ![<<p, k>>] = @ + 1]
  /\ kp' = [kp EXCEPT ![k] = p]
  /\ UNCHANGED kv

(* Cache::updatePrority: the entry of the old priority is looked for among  *)
(* the entries with that priority, and one is inserted for the new one.     *)
updatePrority(k, p) ==
  LET erased == [e \in Priority \X Key |->
                   IF e = <<kp[k], k>> /\ pk[e] > 0 THEN pk[e] - 1 ELSE pk[e]]
  IN /\ pk' = [erased EXCEPT ![<<p, k>>] = @ + 1]
     /\ kp' = [kp EXCEPT ![k] = p]
     /\ UNCHANGED kv

(* Cache::deleteMin, when it returns TRUE, and the add that follows it.     *)
replaceMin(k, v, p, e) ==
  /\ e[1] + Margin < p
  /\ kv' = [kv EXCEPT ![e[2]] = Absent, ![k] = v]
  /\ kp' = [kp EXCEPT ![e[2]] = Absent, ![k] = p]
  /\ pk' = [[pk EXCEPT ![e] = @ - 1] EXCEPT ![<<p, k>>] = @ + 1]

(* Cache::addCache                                                          *)
addCache(k, v, p) ==
  \/ /\ k \in Cached
     /\ updatePrority(k, p)
  \/ /\ k \notin Cached /\ Cardinality(Cached) < CacheSize
     /\ add(k, v, p)
  \/ /\ k \notin Cached /\ Cardinality(Cached) >= CacheSize
     /\ \E e \in Entries :
          /\ IsMin(e)
          /\ \/ replaceMin(k, v, p, e)
             \/ ~(e[1] + Margin < p) /\ UNCHANGED cacheVars

(* SStore::getData                                                          *)
getData(k, p) ==
  /\ asked' = <<k, p>>
  /\ \/ /\ k \in Influential
        /\ given' = influMap[k]
        /\ UNCHANGED cacheVars
     \/ /\ k \notin Influential /\ k \in Cached
        /\ given' = kv[k]
        /\ addCache(k, kv[k], p)
     \/ /\ k \notin Influential /\ k \notin Cached
        /\ given' = Data[k]
        /\ addCache(k, Data[k], p)
  /\ UNCHANGED <<file, influMap>>

Next == \E k \in Key, p \in Priority : getData(k, p)

Spec == Init /\ [][Next]_vars

-----------------------------------------------------------------------------
(* The type of every variable.                                              *)
TypeOK ==
  /\ kv \in [Key -> Value \cup {Absent}]
  /\ kp \in [Key -> Priority \cup {Absent}]
  /\ pk \in [Priority \X Key -> Nat]
  /\ file \in InfluFiles
  /\ influMap \in [Key -> Value \cup {Absent}]
  /\ asked \in Key \X Priority
  /\ given \in Value \cup {Absent}

(* The three indexes describe the same entries: a key is in kv and in kp or *)
(* in neither, and pk has one entry for it, under the priority that kp      *)
(* records, or none.  deleteMin relies on this to keep a full cache from    *)
(* growing, updatePrority to find the entry it replaces.                    *)
IndexesAgree ==
  \A k \in Key :
    /\ kv[k] = Absent <=> kp[k] = Absent
    /\ \A p \in Priority : pk[<<p, k>>] = IF kp[k] = p THEN 1 ELSE 0

(* addCache never grows the cache beyond CACHE_SIZE.                        *)
SizeBounded == Cardinality(Cached) <= CacheSize

(* The line of an influential node is read as it was meant: its list is not *)
(* empty, no space follows it, and its numbers fit an int.                  *)
Plain(k) ==
  /\ Data[k] # <<>> /\ LineOf(k).spaces = 0
  /\ \A i \in DOMAIN Data[k] : Data[k][i] \in IntValue

Faithful(k) == k \notin Influential \/ Plain(k)

(* getData returns the adjacency list of the key, from whichever of the     *)
(* three places it takes it, unless the key is influential and its line is  *)
(* not plain; the list is then always another one.  influMap's keys never   *)
(* use up cache entries.                                                    *)
GetsStored ==
  /\ given # Absent => (given = Data[asked[1]] <=> Faithful(asked[1]))
  /\ \A k \in Cached : kv[k] = Data[k] /\ k \notin Influential

(* The cache is sound: the indexes agree, hold what the store holds and are *)
(* never larger than the cache, and the list that getData returns is the    *)
(* node's exactly if it did not come from a line that the loading of        *)
(* influMap misreads.                                                       *)
CacheSound == TypeOK /\ IndexesAgree /\ GetsStored /\ SizeBounded

(* What deleteMin evicts had the lowest priority of all and is colder than  *)
(* the newcomer by more than the margin; one key goes and one comes.        *)
EvictsColdest ==
  [][\A k \in Cached \ Cached' :
       /\ \A j \in Cached : kp[k] <= kp[j]
       /\ kp[k] + Margin < asked'[2]
       /\ Cached' = (Cached \ {k}) \cup {asked'[1]}]_vars
====
