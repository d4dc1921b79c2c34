---------------------------- MODULE ConfdataProofs ----------------------------
(***************************************************************************)
(* For every number of workers, pids, samples, keys, cells, events and     *)
(* kills: the master never resets or clears a sample that a script reads;  *)
(* the maps in use refer to no destroyed memory; every published value or  *)
(* array that is no longer in the newest map has one node in one garbage   *)
(* list; and the copies of a key agree.  The last three rest on            *)
(* ConfdataInv, which orders the samples by age: a cell with a node in the *)
(* list of a sample is in no map of a younger one.                         *)
(***************************************************************************)
EXTENDS Confdata, TLAPS

\* What the table of pids and the master's own state have to do with each
\* other: a resource being wiped is not the active one, so nobody can take it,
\* and the table has no user of it; a user is in the table.
ResourceInv ==
  /\ active_resource_id \in Resource
  /\ acquired_pids \in [Resource -> [Worker -> Pid \cup {0}]]
  /\ dirty_inactive_resources \subseteq Resource \ {active_resource_id}
  /\ wiping \in Resource \cup {None}
  /\ wiping # None => wiping # active_resource_id /\ is_resource_unused(wiping)
  /\ switching \in BOOLEAN
  /\ switching => wiping = get_next_inactive_resource_id
  /\ pid \in [Worker -> Pid \cup {0}]
  /\ current \in [Worker -> Resource \cup {None}]
  /\ \A w \in Worker : current[w] \in Resource =>
       pid[w] # 0 /\ acquired_pids[current[w]][w] = pid[w]

\* The next resource of the ring is another one.
LEMMA NextIsAnother ==
  ASSUME NEW r \in Resource
  PROVE  NextResource(r) \in Resource /\ NextResource(r) # r
<1>1. ResourceAmount \in Nat /\ ResourceAmount > 1 /\ r \in Nat /\ r < ResourceAmount
  BY ResourceAssumption DEF Resource
<1>2. CASE r + 1 < ResourceAmount
  <2>1. (r + 1) % ResourceAmount = r + 1
    BY <1>1, <1>2
  <2> QED BY <1>1, <1>2, <2>1 DEF NextResource, Resource
<1>3. CASE r + 1 = ResourceAmount
  <2>1. (r + 1) % ResourceAmount = 0
    BY <1>1, <1>3
  <2> QED BY <1>1, <1>3, <2>1 DEF NextResource, Resource
<1> QED BY <1>1, <1>2, <1>3

\* None stands for no resource.
LEMMA NoneIsNoResource == None \notin Resource
BY ResourceAssumption DEF Resource

\* The table is empty, no process uses a sample, nothing is wiped.
LEMMA ResourceInitially == ResourceInit => ResourceInv
<1> SUFFICES ASSUME ResourceInit PROVE ResourceInv
  OBVIOUS
<1>1. pid \in [Worker -> Pid]
  BY ZenonT(60), ResourceAssumption DEF ResourceInit
<1>2. 0 \in Resource
  BY SMTT(60), ResourceAssumption DEF Resource
<1> QED BY ZenonT(60), <1>1, <1>2, ResourceAssumption, NoneIsNoResource DEF ResourceInit, ResourceInv

\* One step of the ring keeps the invariant.
LEMMA ResourceStep ==
  ASSUME ResourceInv, ResourceNext
  PROVE  ResourceInv'
<1> USE DEF ResourceInv, ringVars
<1>1. ASSUME NEW w \in Worker, Fork(w) PROVE ResourceInv'
  <2>1. PICK p \in Pid : pid' = [pid EXCEPT ![w] = p]
    BY ZenonT(60), <1>1 DEF Fork
  <2>2. pid' \in [Worker -> Pid \cup {0}]
    BY <2>1, ResourceAssumption
  <2>3. /\ acquired_pids' \in [Resource -> [Worker -> Pid \cup {0}]]
        /\ \A r \in Resource, v \in Worker :
             acquired_pids'[r][v] = IF v = w THEN 0 ELSE acquired_pids[r][v]
    BY <1>1 DEF Fork, force_release_all_resources
  <2>4. current[w] \notin Resource
    BY <1>1 DEF Fork
  <2>5. \A v \in Worker : current'[v] \in Resource =>
          pid'[v] # 0 /\ acquired_pids'[current'[v]][v] = pid'[v]
    BY <1>1, <2>1, <2>3, <2>4 DEF Fork
  <2>6. wiping' # None => wiping' # active_resource_id' /\ is_resource_unused(wiping)'
    BY <1>1, <2>3 DEF Fork, is_resource_unused
  <2> QED BY SMTT(60), <1>1, <2>2, <2>3, <2>5, <2>6
          DEF Fork, get_next_inactive_resource_id, NextResource
<1>2. ASSUME NEW w \in Worker, acquire_current_resource(w) PROVE ResourceInv'
  <2>1. /\ acquired_pids' \in [Resource -> [Worker -> Pid \cup {0}]]
        /\ \A r \in Resource, v \in Worker :
             acquired_pids'[r][v] = IF r = active_resource_id /\ v = w
                                      THEN pid[w] ELSE acquired_pids[r][v]
    BY <1>2 DEF acquire_current_resource, acquire_active_resource_id
  <2>2. /\ current' \in [Worker -> Resource \cup {None}]
        /\ \A v \in Worker : current'[v] = IF v = w THEN active_resource_id ELSE current[v]
    BY <1>2 DEF acquire_current_resource
  <2>3. \A v \in Worker : current'[v] \in Resource =>
          pid'[v] # 0 /\ acquired_pids'[current'[v]][v] = pid'[v]
    BY SMTT(60), <1>2, <2>1, <2>2 DEF acquire_current_resource
  <2>4. wiping' # None => wiping' # active_resource_id' /\ is_resource_unused(wiping)'
    BY SMTT(60), <1>2, <2>1 DEF acquire_current_resource, is_resource_unused
  <2> QED BY SMTT(60), <1>2, <2>1, <2>2, <2>3, <2>4
          DEF acquire_current_resource, get_next_inactive_resource_id, NextResource
<1>3. ASSUME NEW w \in Worker, release_resource(w) PROVE ResourceInv'
  <2>1. /\ acquired_pids' \in [Resource -> [Worker -> Pid \cup {0}]]
        /\ \A r \in Resource, v \in Worker :
             acquired_pids'[r][v] = IF r = current[w] /\ v = w THEN 0 ELSE acquired_pids[r][v]
    BY <1>3 DEF release_resource, release
  <2>2. /\ current' \in [Worker -> Resource \cup {None}]
        /\ \A v \in Worker : current'[v] = IF v = w THEN None ELSE current[v]
    BY <1>3 DEF release_resource
  <2>3. \A v \in Worker : current'[v] \in Resource =>
          pid'[v] # 0 /\ acquired_pids'[current'[v]][v] = pid'[v]
    BY SMTT(60), <1>3, <2>1, <2>2, NoneIsNoResource DEF release_resource
  <2>4. wiping' # None => wiping' # active_resource_id' /\ is_resource_unused(wiping)'
    BY SMTT(60), <1>3, <2>1 DEF release_resource, is_resource_unused
  <2> QED BY SMTT(60), <1>3, <2>1, <2>2, <2>3, <2>4
          DEF release_resource, get_next_inactive_resource_id, NextResource
<1>4. ASSUME NEW w \in Worker, Die(w) PROVE ResourceInv'
  <2>1. \A v \in Worker : current'[v] \in Resource =>
          pid'[v] # 0 /\ acquired_pids'[current'[v]][v] = pid'[v]
    BY SMTT(60), <1>4, NoneIsNoResource DEF Die
  <2> QED BY SMTT(60), <1>4, <2>1
          DEF Die, is_resource_unused, get_next_inactive_resource_id, NextResource
<1>5. CASE BeginReset
  BY SMTT(60), <1>5, NextIsAnother
     DEF BeginReset, is_resource_unused, get_next_inactive_resource_id, NextResource
<1>6. CASE EndReset
  BY ZenonT(60), <1>6, NextIsAnother DEF EndReset, switch_active_to_next, get_next_inactive_resource_id
<1>7. ASSUME NEW r \in Resource, BeginClear(r) PROVE ResourceInv'
  <2>1. get_next_inactive_resource_id \in Resource
    BY NextIsAnother DEF get_next_inactive_resource_id
  <2>2. ~switching
    BY <1>7, <2>1, NoneIsNoResource DEF BeginClear
  <2>3. r # active_resource_id
    BY <1>7 DEF BeginClear, OldestDirty
  <2> QED BY <1>7, <2>2, <2>3 DEF BeginClear, is_resource_unused
<1>8. CASE EndClear
  BY <1>8 DEF EndClear, get_next_inactive_resource_id, NextResource
<1> QED BY SMTT(60), <1>1, <1>2, <1>3, <1>4, <1>5, <1>6, <1>7, <1>8
        DEF ResourceNext, MasterOfResources, WorkerStep

\* Confdata touches the ring only by the steps of the ring.
LEMMA ConfdataUsesTheRing ==
  ASSUME [Next]_vars
  PROVE  ResourceNext \/ UNCHANGED resourceVars
<1>1. CASE UNCHANGED vars
  BY SMTT(60), <1>1 DEF vars
<1>2. CASE Event
  BY SMTT(60), <1>2 DEF Event, StoreNewValue, StoreSameValue, StoreIsRefused, Delete, Touch,
     ReadEvent, DeleteExpired, SoftOom, HardOom
<1>3. CASE Cron
  BY <1>3 DEF Cron, StartCycle, AbortOnSizes, Publish, Switch, DoNotPublish, ClearSample,
     SampleIsCleared, EndCycle, ResourceNext, MasterOfResources
<1>4. CASE \E w \in Worker : Script(w) \/ Kill(w)
  BY <1>4 DEF Script, Kill, ResourceNext, WorkerStep
<1> QED BY SMTT(60), <1>1, <1>2, <1>3, <1>4 DEF Next

\* A wiped resource has no user in the table, and a user is in the table.
LEMMA InvProtectsUsers == ResourceInv => ResourceInUseIsKept
BY NoneIsNoResource DEF ResourceInv, ResourceInUseIsKept, is_resource_unused

\* Every step of confdata keeps what is known of the ring.
LEMMA ResourceInvStep ==
  ASSUME ResourceInv, [Next]_vars
  PROVE  ResourceInv'
<1>1. CASE ResourceNext
  BY SMTT(60), <1>1, ResourceStep
<1>2. CASE UNCHANGED resourceVars
  BY <1>2 DEF resourceVars, ringVars, ResourceInv, is_resource_unused,
     get_next_inactive_resource_id, NextResource
<1> QED BY SMTT(60), <1>1, <1>2, ConfdataUsesTheRing

\* It holds in every state of confdata.
LEMMA ResourceInvariant == Spec => []ResourceInv
<1>1. Init => ResourceInv
  BY ResourceInitially DEF Init
<1>2. ResourceInv /\ [Next]_vars => ResourceInv'
  BY ResourceInvStep
<1> QED BY <1>1, <1>2, PTL DEF Spec

\* Confdata moves its ring of samples only as the ring of resources may move:
\* every property of the ring alone holds of it in confdata.
THEOREM ConfdataImplementsTheRing == Spec => ResourceSpec
<1>1. Init => ResourceInit
  BY DEF Init
<1>2. [Next]_vars => [ResourceNext]_resourceVars
  BY ConfdataUsesTheRing
<1> QED BY <1>1, <1>2, PTL DEF Spec, ResourceSpec

\* Whatever the master does between its check of the table of pids and the end
\* of a reset or a clear, and whoever dies meanwhile, no script holds the
\* sample, and the assertion of release holds: for every number of workers and
\* at least two samples.
THEOREM SampleInUseIsKept == Spec => []ResourceInUseIsKept
BY ResourceInvariant, InvProtectsUsers, PTL

-----------------------------------------------------------------------------
(* Maps and the memory they refer to.                                       *)

\* The value that a map has for a key, or Absent or Null.
Val(heap, storage, k) ==
  IF k \in Simple THEN storage[k]
  ELSE LET array == ArrayOf(heap, storage, FirstPlace(k))
       IN  IF k \in DOMAIN array THEN array[k] ELSE Absent

\* A map whose sections have arrays of their own, with the value of each of their keys,
\* and whose keys have values of their own.
MapOK(heap, storage) ==
  /\ storage \in Storage
  /\ \A f \in Section : storage[f] \in Cell => heap[storage[f]] \in Array
  /\ \A f, g \in Section : storage[f] = storage[g] /\ storage[f] \in Cell => f = g
  /\ \A k \in Dotted, f \in Section :
       IF f \in Sections(k) /\ Val(heap, storage, k) \in Cell
         THEN /\ k \in DOMAIN ArrayOf(heap, storage, f)
              /\ ArrayOf(heap, storage, f)[k] = Val(heap, storage, k)
         ELSE k \notin DOMAIN ArrayOf(heap, storage, f)
  /\ \A k \in Key : Val(heap, storage, k) \in Cell => heap[Val(heap, storage, k)] = Value
  /\ \A j, k \in Key :
       Val(heap, storage, j) = Val(heap, storage, k) /\ Val(heap, storage, j) \in Cell => j = k

\* A key with a dot is looked for in one of its own sections first.
LEMMA FirstIsASection ==
  ASSUME NEW k \in Dotted
  PROVE  /\ k \notin Simple /\ FirstPlace(k) \in Sections(k)
         /\ Sections(k) \subseteq Section
<1>1. k \notin Simple /\ SectionsOf[k] \in Seq(Section) /\ SectionsOf[k] # <<>>
  BY ConfdataAssumption DEF Key
<1>2. 1 \in DOMAIN SectionsOf[k]
  BY SMTT(60), <1>1
<1>3. \A i \in DOMAIN SectionsOf[k] : SectionsOf[k][i] \in Section
  BY SMTT(60), <1>1
<1> QED
  BY ZenonT(60), <1>1, <1>2, <1>3 DEF Sections, FirstPlace, Places, Range

\* A key without dots has one place, itself; any other has its sections.
LEMMA PlacesAre ==
  ASSUME NEW k \in Key
  PROVE  /\ Len(Places(k)) \in Nat \ {0} /\ DOMAIN Places(k) = 1 .. Len(Places(k))
         /\ Range(Places(k)) = IF k \in Simple THEN {k} ELSE Sections(k)
         /\ Range(Places(k)) \cap Section = Sections(k)
         /\ FirstPlace(k) \in Range(Places(k))
         /\ k \notin Simple => k \in Dotted
<1>1. CASE k \in Simple
  <2>1. Places(k) = <<k>> /\ Sections(k) = {} /\ k \notin Section
    BY ZenonT(60), <1>1, ConfdataAssumption DEF Places, Sections, Key
  <2>2. Len(<<k>>) = 1 /\ DOMAIN <<k>> = 1 .. 1 /\ <<k>>[1] = k
    BY SMTT(60)
  <2>3. \A i : i \in 1 .. 1 <=> i = 1
    BY SMTT(60)
  <2>4. Range(Places(k)) = {k}
    BY ZenonT(60), <2>1, <2>2, <2>3 DEF Range
  <2>5. FirstPlace(k) = k
    BY ZenonT(60), <2>1, <2>2 DEF FirstPlace
  <2>6. 1 \in Nat \ {0}
    BY SMTT(60)
  <2> QED
    BY ZenonT(60), <1>1, <2>1, <2>2, <2>4, <2>5, <2>6
<1>2. CASE k \notin Simple
  <2>1. k \in Dotted /\ Places(k) = SectionsOf[k]
    BY ZenonT(60), <1>2 DEF Key, Places
  <2>2. SectionsOf[k] \in Seq(Section) /\ SectionsOf[k] # <<>>
    BY ZenonT(60), <2>1, ConfdataAssumption
  <2>3. Len(SectionsOf[k]) \in Nat \ {0} /\ DOMAIN SectionsOf[k] = 1 .. Len(SectionsOf[k])
    BY SMTT(60), <2>2
  <2>4. Range(Places(k)) = Sections(k)
    BY ZenonT(60), <1>2, <2>1 DEF Sections
  <2> QED
    BY ZenonT(60), <1>2, <2>1, <2>3, <2>4, FirstIsASection
<1> QED
  BY <1>1, <1>2

\* All copies of a key answer alike.
LEMMA CopiesAnswer ==
  ASSUME MapOK(content, updating), NEW k \in Key, NEW f \in Range(Places(k))
  PROVE  /\ Has(k, f) <=> Val(content, updating, k) # Absent
         /\ Has(k, f) => ValueAt(k, f) = Val(content, updating, k)
<1>1. CASE k \in Simple
  BY ZenonT(60), <1>1 DEF Has, ValueAt, Val
<1>2. CASE k \notin Simple
  <2>1. k \in Dotted /\ f \in Sections(k) /\ f \in Section /\ FirstPlace(k) \in Section
    BY ZenonT(60), <1>2, PlacesAre, FirstIsASection
  <2> DEFINE v == Val(content, updating, k)
             a == ArrayOf(content, updating, f)
             b == ArrayOf(content, updating, FirstPlace(k))
  <2>2. IF v \in Cell THEN k \in DOMAIN a /\ a[k] = v ELSE k \notin DOMAIN a
    BY ZenonT(60), <2>1 DEF MapOK
  <2>3. v = IF k \in DOMAIN b THEN b[k] ELSE Absent
    BY ZenonT(60), <1>2 DEF Val
  <2>4. Absent \notin Cell
    BY ZenonT(60), ConfdataAssumption
  <2>5. k \in DOMAIN b => b[k] \in Cell
    <3>1. FirstPlace(k) \in Sections(k)
      BY ZenonT(60), <2>1, FirstIsASection
    <3>2. IF v \in Cell THEN k \in DOMAIN b /\ b[k] = v ELSE k \notin DOMAIN b
      BY ZenonT(60), <2>1, <3>1 DEF MapOK
    <3> HIDE DEF v, b
    <3> QED
      BY ZenonT(60), <3>2
  <2>6. (Has(k, f) <=> k \in DOMAIN a) /\ ValueAt(k, f) = a[k]
    BY ZenonT(60), <1>2 DEF Has, ValueAt
  <2> HIDE DEF v, a, b
  <2>7. (Has(k, f) <=> v # Absent) /\ (Has(k, f) => ValueAt(k, f) = v)
    BY ZenonT(60), <2>2, <2>3, <2>4, <2>5, <2>6
  <2> QED
    BY ZenonT(60), <2>7 DEF v
<1> QED
  BY <1>1, <1>2

\* An array is neither a free cell nor a value.
LEMMA ArrayFacts ==
  ASSUME NEW a \in Array
  PROVE  /\ a \notin {Free, Value} /\ DOMAIN a \subseteq Dotted
         /\ a \in [DOMAIN a -> Cell]
<1>1. PICK S \in SUBSET Dotted : a \in [S -> Cell]
  BY ZenonT(60) DEF Array
<1> QED
  BY SMTT(60), <1>1, ConfdataAssumption

\* All that a map refers to: its arrays, and the values of its keys.
Refers(heap, storage, c) ==
  /\ c \in Cell
  /\ \/ \E f \in Section : storage[f] = c
     \/ \E k \in Key : Val(heap, storage, k) = c

\* A map refers to its arrays and to its values, and to nothing else.
LEMMA ReachableCells ==
  ASSUME NEW heap, NEW storage, MapOK(heap, storage), NEW c
  PROVE  c \in Reachable(heap, storage) <=> Refers(heap, storage, c)
<1> DEFINE direct == {storage[f] : f \in FirstKey} \cap Cell
<1>0. Reachable(heap, storage) = direct \cup UNION {Elements(heap, d) : d \in direct}
  BY ZenonT(60) DEF Reachable
<1>1. ASSUME c \in direct
      PROVE  c \in Cell /\ \/ \E f \in Section : storage[f] = c
                           \/ \E k \in Key : Val(heap, storage, k) = c
  <2>1. PICK f \in FirstKey : storage[f] = c
    BY ZenonT(60), <1>1
  <2> QED
    BY ZenonT(60), <1>1, <2>1 DEF FirstKey, Key, Val
<1>2. ASSUME NEW d \in direct, c \in Elements(heap, d)
      PROVE  c \in Cell /\ \E k \in Key : Val(heap, storage, k) = c
  <2>1. PICK f \in FirstKey : storage[f] = d /\ d \in Cell
    BY ZenonT(60)
  <2>2. IsArray(heap, d) /\ \E k \in DOMAIN heap[d] : heap[d][k] = c
    BY ZenonT(60), <1>2 DEF Elements
  <2>3. f \in Section
    <3>1. SUFFICES ASSUME f \in Simple PROVE FALSE
      BY ZenonT(60) DEF FirstKey
    <3>2. f \in Key /\ Val(heap, storage, f) = d
      BY ZenonT(60), <2>1, <3>1 DEF Key, Val
    <3>3. heap[d] = Value
      BY ZenonT(60), <2>1, <3>2 DEF MapOK
    <3> QED
      BY ZenonT(60), <2>2, <3>3 DEF IsArray
  <2>4. heap[d] \in Array /\ ArrayOf(heap, storage, f) = heap[d]
    BY ZenonT(60), <2>1, <2>3 DEF MapOK, ArrayOf
  <2>5. PICK k \in DOMAIN heap[d] : heap[d][k] = c
    BY ZenonT(60), <2>2
  <2>6. k \in Dotted /\ c \in Cell
    BY SMTT(60), <2>4, <2>5, ArrayFacts
  <2>7. Val(heap, storage, k) = c
    BY ZenonT(60), <2>3, <2>4, <2>5, <2>6 DEF MapOK
  <2> QED
    BY ZenonT(60), <2>6, <2>7 DEF Key
<1>3. ASSUME c \in Cell, NEW f \in Section, storage[f] = c
      PROVE  c \in direct
  BY ZenonT(60), <1>3 DEF FirstKey
<1>4. ASSUME c \in Cell, NEW k \in Key, Val(heap, storage, k) = c
      PROVE  c \in direct \/ \E d \in direct : c \in Elements(heap, d)
  <2>1. CASE k \in Simple
    BY ZenonT(60), <1>4, <2>1 DEF Val, FirstKey
  <2>2. CASE k \notin Simple
    <3> DEFINE f == FirstPlace(k)
    <3>1. k \in Dotted /\ f \in Sections(k) /\ f \in Section
      BY ZenonT(60), <2>2, FirstIsASection DEF Key
    <3>2. k \in DOMAIN ArrayOf(heap, storage, f) /\ ArrayOf(heap, storage, f)[k] = c
      BY ZenonT(60), <1>4, <3>1 DEF MapOK
    <3>3. storage[f] \in Cell /\ heap[storage[f]] \in Array
      BY ZenonT(60), <3>1, <3>2 DEF MapOK, ArrayOf, NoElements
    <3>4. IsArray(heap, storage[f]) /\ c \in Elements(heap, storage[f])
      BY ZenonT(60), <3>2, <3>3, ArrayFacts DEF ArrayOf, IsArray, Elements
    <3>5. storage[f] \in direct
      BY ZenonT(60), <3>1, <3>3 DEF FirstKey
    <3> QED
      BY ZenonT(60), <3>4, <3>5
  <2> QED
    BY <2>1, <2>2
<1> HIDE DEF direct
<1> QED
  BY ZenonT(60), <1>0, <1>1, <1>2, <1>3, <1>4 DEF Refers

\* The elements of a section are keys with dots, and each has a cell.
LEMMA ArrayOrNone ==
  ASSUME NEW heap, NEW storage, MapOK(heap, storage), NEW f \in Section
  PROVE  /\ DOMAIN ArrayOf(heap, storage, f) \subseteq Dotted
         /\ \A k \in DOMAIN ArrayOf(heap, storage, f) : ArrayOf(heap, storage, f)[k] \in Cell
         /\ storage[f] \notin Cell => DOMAIN ArrayOf(heap, storage, f) = {}
<1>1. CASE storage[f] \in Cell
  <2>1. ArrayOf(heap, storage, f) = heap[storage[f]] /\ heap[storage[f]] \in Array
    BY ZenonT(60), <1>1 DEF ArrayOf, MapOK
  <2> QED
    BY SMTT(60), <1>1, <2>1, ArrayFacts
<1>2. CASE storage[f] \notin Cell
  <2>1. ArrayOf(heap, storage, f) = NoElements /\ DOMAIN NoElements = {}
    BY ZenonT(60), <1>2 DEF ArrayOf, NoElements
  <2> QED
    BY ZenonT(60), <2>1
<1> QED
  BY <1>1, <1>2

\* A value is a cell, or there is none.
LEMMA ValIsACell ==
  ASSUME NEW heap, NEW storage, MapOK(heap, storage), NEW k \in Key
  PROVE  Val(heap, storage, k) \in Cell \cup {Absent, Null, Empty}
<1>1. CASE k \in Simple
  BY ZenonT(60), <1>1 DEF Val, MapOK, Storage, FirstKey
<1>2. CASE k \notin Simple
  <2>1. k \in Dotted /\ FirstPlace(k) \in Section
    BY ZenonT(60), <1>2, FirstIsASection DEF Key
  <2> QED
    BY ZenonT(60), <1>2, <2>1, ArrayOrNone DEF Val
<1> QED
  BY <1>1, <1>2

\* A map is what it was as long as nobody writes to its cells.
LEMMA MapFrame ==
  ASSUME NEW heap, NEW storage, MapOK(heap, storage), NEW other,
         \A c \in Reachable(heap, storage) : other[c] = heap[c]
  PROVE  /\ MapOK(other, storage)
         /\ Reachable(other, storage) = Reachable(heap, storage)
         /\ \A k \in Key : Val(other, storage, k) = Val(heap, storage, k)
         /\ \A f \in Section : ArrayOf(other, storage, f) = ArrayOf(heap, storage, f)
<1>0. \A c : Refers(heap, storage, c) => other[c] = heap[c]
  BY ZenonT(60), ReachableCells
<1>1. \A f \in Section : ArrayOf(other, storage, f) = ArrayOf(heap, storage, f)
  BY ZenonT(60), <1>0 DEF ArrayOf, Refers
<1>2. \A k \in Key : Val(other, storage, k) = Val(heap, storage, k)
  <2> TAKE k \in Key
  <2>1. CASE k \in Simple
    BY ZenonT(60), <2>1 DEF Val
  <2>2. CASE k \notin Simple
    <3>1. ArrayOf(other, storage, FirstPlace(k)) = ArrayOf(heap, storage, FirstPlace(k))
      BY ZenonT(60), <1>1, <2>2, FirstIsASection DEF Key
    <3> QED
      BY ZenonT(60), <3>1 DEF Val
  <2> QED
    BY <2>1, <2>2
<1>3. MapOK(other, storage)
  <2>1. \A f \in Section : storage[f] \in Cell => other[storage[f]] \in Array
    BY ZenonT(60), <1>0 DEF MapOK, Refers
  <2>2. \A k \in Key : Val(other, storage, k) \in Cell => other[Val(other, storage, k)] = Value
    BY ZenonT(60), <1>0, <1>2 DEF MapOK, Refers
  <2>3. \A j, k \in Key :
          Val(other, storage, j) = Val(other, storage, k) /\ Val(other, storage, j) \in Cell => j = k
    BY ZenonT(60), <1>2 DEF MapOK
  <2>4. \A k \in Dotted, f \in Section :
       IF f \in Sections(k) /\ Val(other, storage, k) \in Cell
         THEN /\ k \in DOMAIN ArrayOf(other, storage, f)
              /\ ArrayOf(other, storage, f)[k] = Val(other, storage, k)
         ELSE k \notin DOMAIN ArrayOf(other, storage, f)
    <3> TAKE k \in Dotted, f \in Section
    <3>1. Val(other, storage, k) = Val(heap, storage, k)
      BY ZenonT(60), <1>2 DEF Key
    <3>2. ArrayOf(other, storage, f) = ArrayOf(heap, storage, f)
      BY ZenonT(60), <1>1
    <3> QED
      BY ZenonT(60), <3>1, <3>2 DEF MapOK
  <2> QED
    BY ZenonT(60), <2>1, <2>2, <2>3, <2>4 DEF MapOK
<1>4. Reachable(other, storage) = Reachable(heap, storage)
  <2>1. ASSUME NEW c PROVE c \in Reachable(other, storage) <=> c \in Reachable(heap, storage)
    <3>1. c \in Reachable(other, storage) <=> Refers(other, storage, c)
      BY ZenonT(60), <1>3, ReachableCells
    <3>2. c \in Reachable(heap, storage) <=> Refers(heap, storage, c)
      BY ZenonT(60), ReachableCells
    <3> QED
      BY ZenonT(60), <1>2, <3>1, <3>2 DEF Refers
  <2> QED
    BY ZenonT(60), <2>1
<1> QED
  BY <1>1, <1>2, <1>3, <1>4

\* A map without entries is whole and refers to nothing.
LEMMA EmptyMap ==
  ASSUME NEW heap
  PROVE  MapOK(heap, EmptyStorage) /\ Reachable(heap, EmptyStorage) = {}
<1>1. \A f \in FirstKey : EmptyStorage[f] = Absent
  BY ZenonT(60) DEF EmptyStorage
<1>2. Absent \notin Cell /\ EmptyStorage \in Storage
  BY SMTT(60), ConfdataAssumption DEF EmptyStorage, Storage
<1>3. \A f \in Section : ArrayOf(heap, EmptyStorage, f) = NoElements /\ DOMAIN NoElements = {}
  BY ZenonT(60), <1>1, <1>2 DEF ArrayOf, NoElements, FirstKey
<1>4. \A k \in Key : Val(heap, EmptyStorage, k) = Absent
  BY ZenonT(60), <1>1, <1>3, FirstIsASection DEF Val, Key, FirstKey
<1>5. MapOK(heap, EmptyStorage)
  <2>1. Dotted \subseteq Key /\ Section \subseteq FirstKey
    BY ZenonT(60) DEF Key, FirstKey
  <2> QED
    BY ZenonT(60), <1>1, <1>2, <1>3, <1>4, <2>1 DEF MapOK
<1>6. ASSUME NEW c \in Reachable(heap, EmptyStorage) PROVE FALSE
  <2>1. Refers(heap, EmptyStorage, c)
    BY ZenonT(60), <1>5, <1>6, ReachableCells
  <2> QED
    BY ZenonT(60), <1>1, <1>2, <1>4, <2>1 DEF FirstKey, Refers
<1> QED
  BY ZenonT(60), <1>5, <1>6

-----------------------------------------------------------------------------
(* An event writes a map.                                                   *)

\* Cells that a map refers to are not free.
LEMMA MapIsWhole ==
  ASSUME NEW heap, NEW storage, MapOK(heap, storage), NEW c \in Reachable(heap, storage)
  PROVE  heap[c] # Free
<1>1. Refers(heap, storage, c)
  BY ZenonT(60), ReachableCells
<1>2. CASE \E f \in Section : storage[f] = c
  BY ZenonT(60), <1>1, <1>2, ArrayFacts DEF MapOK, Refers
<1>3. CASE \E k \in Key : Val(heap, storage, k) = c
  BY ZenonT(60), <1>1, <1>3, ConfdataAssumption DEF MapOK, Refers
<1> QED
  BY ZenonT(60), <1>1, <1>2, <1>3 DEF Refers

\* Places that fit get cells of their own.
LEMMA AllocationFits ==
  ASSUME NEW places, NEW cells, Injection(places, cells) # {}
  PROVE  Allocation(places, cells) \in Injection(places, cells)
<1>1. \E a \in [places -> cells] : IsInjective(a)
  BY ZenonT(60) DEF Injection
<1> QED
  BY ZenonT(60), <1>1 DEF Allocation, Injection

\* The handler of an event that changes k to v writes heap and storage.
Writes(k, v, sections, kept, cells, heap, storage) ==
  /\ k \in Key /\ v \in FreeCells \cup {Absent} /\ sections \subseteq Sections(k)
  /\ cells \in Injection(sections, FreeCells \ {v})
  /\ kept = {f \in sections : DOMAIN ArrayWith(k, v, f) # {}}
  /\ heap = HeapWith(k, v, kept, cells)
  /\ storage = StorageWith(k, v, sections, kept, cells)

\* What it is, cell by cell and entry by entry.
Written(k, v, sections, kept, cells, heap, storage) ==
  /\ sections \subseteq Section /\ (sections # {} => k \in Dotted)
  /\ \A f \in Simple : storage[f] = IF f = k THEN v ELSE updating[f]
  /\ \A f \in Section \ sections : storage[f] = updating[f]
  /\ \A f \in sections :
       IF f \in kept
         THEN storage[f] = cells[f] /\ heap[cells[f]] = ArrayWith(k, v, f)
         ELSE storage[f] = Absent /\ DOMAIN ArrayWith(k, v, f) = {}
  /\ \A f \in sections : cells[f] \in FreeCells \ {v}
  /\ \A f, g \in sections : cells[f] = cells[g] => f = g
  /\ v \in Cell => heap[v] = Value
  /\ \A c \in Cell \ FreeCells : heap[c] = content[c]
  /\ \A c \in FreeCells : heap[c] \in {Free, Value} \cup {ArrayWith(k, v, f) : f \in kept}
  /\ storage \in Storage

\* store and delete write to cells that were free, and to no others.
LEMMA WhatIsWritten ==
  ASSUME updating \in Storage,
         NEW k, NEW v, NEW sections, NEW kept, NEW cells, NEW heap, NEW storage,
         Writes(k, v, sections, kept, cells, heap, storage)
  PROVE  Written(k, v, sections, kept, cells, heap, storage)
<1> USE DEF Writes
<1>1. sections \subseteq Section /\ (sections # {} => k \in Dotted)
  BY ZenonT(60), FirstIsASection DEF Sections, Key
<1>2. Simple \cap Section = {} /\ k \notin Section /\ Absent \notin Cell
  BY ZenonT(60), ConfdataAssumption DEF Key
<1>3. /\ \A f \in sections : cells[f] \in FreeCells \ {v}
      /\ \A f, g \in sections : cells[f] = cells[g] => f = g
  <2>1. cells \in [sections -> FreeCells \ {v}] /\ IsInjective(cells)
    BY ZenonT(60) DEF Injection
  <2> QED
    BY ZenonT(60), <2>1 DEF IsInjective
<1>4. \A f \in FirstKey : storage[f] = IF f = k THEN v
                                       ELSE IF f \in kept THEN cells[f]
                                       ELSE IF f \in sections THEN Absent
                                       ELSE updating[f]
  BY ZenonT(60) DEF StorageWith
<1>5. \A c \in Cell : heap[c] = IF c = v THEN Value
                                ELSE IF \E f \in kept : cells[f] = c
                                  THEN ArrayWith(k, v, CHOOSE f \in kept : cells[f] = c)
                                  ELSE content[c]
  BY ZenonT(60) DEF HeapWith
<1>6. \A f \in Simple : storage[f] = IF f = k THEN v ELSE updating[f]
  BY ZenonT(60), <1>1, <1>2, <1>4 DEF FirstKey
<1>7. \A f \in Section \ sections : storage[f] = updating[f]
  BY ZenonT(60), <1>2, <1>4 DEF FirstKey
<1>8. ASSUME NEW f \in kept PROVE heap[cells[f]] = ArrayWith(k, v, f)
  <2>1. cells[f] \in Cell /\ cells[f] # v /\ f \in sections
    BY ZenonT(60), <1>3 DEF FreeCells
  <2>2. (CHOOSE g \in kept : cells[g] = cells[f]) = f
    BY ZenonT(60), <1>3
  <2> QED
    BY ZenonT(60), <1>5, <2>1, <2>2
<1>9. ASSUME NEW f \in sections
      PROVE  IF f \in kept
               THEN storage[f] = cells[f] /\ heap[cells[f]] = ArrayWith(k, v, f)
               ELSE storage[f] = Absent /\ DOMAIN ArrayWith(k, v, f) = {}
  <2>1. f \in FirstKey /\ f # k
    BY ZenonT(60), <1>1, <1>2 DEF FirstKey
  <2> QED
    BY ZenonT(60), <1>4, <1>8, <2>1
<1>10. v \in Cell => heap[v] = Value
  BY ZenonT(60), <1>5
<1>11. ASSUME NEW c \in Cell \ FreeCells PROVE heap[c] = content[c]
  <2>1. c # v
    BY ZenonT(60), <1>2
  <2>2. ~ \E f \in kept : cells[f] = c
    BY ZenonT(60), <1>3
  <2> QED
    BY ZenonT(60), <1>5, <2>1, <2>2
<1>12. ASSUME NEW c \in FreeCells
       PROVE  heap[c] \in {Free, Value} \cup {ArrayWith(k, v, f) : f \in kept}
  <2>1. c \in Cell /\ content[c] = Free
    BY ZenonT(60) DEF FreeCells
  <2>2. CASE \E f \in kept : cells[f] = c
    BY ZenonT(60), <1>8, <2>2
  <2> QED
    BY ZenonT(60), <1>5, <2>1, <2>2
<1>13. storage \in Storage
  <2>1. ASSUME NEW f \in FirstKey PROVE storage[f] \in Cell \cup {Absent, Null, Empty}
    BY ZenonT(60), <1>3, <1>4 DEF Storage, FreeCells
  <2> QED
    BY ZenonT(60), <2>1 DEF StorageWith, Storage
<1> QED
  BY ZenonT(60), <1>1, <1>3, <1>6, <1>7, <1>9, <1>10, <1>11, <1>12, <1>13 DEF Written

\* The array of a section after a key got a value or lost it.
LEMMA ArrayWithIsArray ==
  ASSUME MapOK(content, updating), NEW k \in Dotted, NEW f \in Section,
         NEW v \in Cell \cup {Absent}
  PROVE  ArrayWith(k, v, f) \in Array
<1> DEFINE old == ArrayOf(content, updating, f)
           with == ArrayWith(k, v, f)
           keys == IF v = Absent THEN DOMAIN old \ {k} ELSE DOMAIN old \cup {k}
<1>1. DOMAIN old \subseteq Dotted /\ \A j \in DOMAIN old : old[j] \in Cell
  BY ZenonT(60), ArrayOrNone
<1>2. with = [j \in keys |-> IF j = k THEN v ELSE old[j]]
  BY ZenonT(60) DEF ArrayWith
<1>3. \A j \in keys : (IF j = k THEN v ELSE old[j]) \in Cell
  BY ZenonT(60), <1>1, ConfdataAssumption
<1>4. with \in [keys -> Cell] /\ keys \in SUBSET Dotted
  BY ZenonT(60), <1>1, <1>2, <1>3
<1> QED
  BY ZenonT(60), <1>4 DEF Array

\* The array of section f in the map that was written.
ArrayWritten(f, k, v, heap, storage) ==
  /\ storage[f] \in Cell => heap[storage[f]] \in Array
  /\ f \in Sections(k) => ArrayWith(k, v, f) \in Array
  /\ \A j \in Dotted \ {k} :
       /\ j \in DOMAIN ArrayOf(heap, storage, f) <=> j \in DOMAIN ArrayOf(content, updating, f)
       /\ j \in DOMAIN ArrayOf(heap, storage, f) =>
            ArrayOf(heap, storage, f)[j] = ArrayOf(content, updating, f)[j]
  /\ k \in DOMAIN ArrayOf(heap, storage, f) <=> f \in Sections(k) /\ v # Absent
  /\ k \in DOMAIN ArrayOf(heap, storage, f) => ArrayOf(heap, storage, f)[k] = v

\* In every section only the element of the written key changes.
LEMMA ArraysAreWritten ==
  ASSUME content \in [Cell -> Array \cup {Free, Value}], MapOK(content, updating),
         NEW k, NEW v, NEW kept, NEW cells, NEW heap, NEW storage,
         Writes(k, v, Sections(k), kept, cells, heap, storage),
         NEW f \in Section
  PROVE  ArrayWritten(f, k, v, heap, storage)
<1> DEFINE old == ArrayOf(content, updating, f)
           new == ArrayOf(heap, storage, f)
<1>0. Absent \notin Cell /\ v \in Cell \cup {Absent}
  BY ZenonT(60), ConfdataAssumption DEF FreeCells, Writes
<1>w. Written(k, v, Sections(k), kept, cells, heap, storage)
  BY ZenonT(60), WhatIsWritten DEF MapOK
<1>1. DOMAIN old \subseteq Dotted /\ \A j \in DOMAIN old : old[j] \in Cell
  BY ZenonT(60), ArrayOrNone
<1>2. CASE f \in Sections(k)
  <2> DEFINE with == ArrayWith(k, v, f)
             keys == IF v = Absent THEN DOMAIN old \ {k} ELSE DOMAIN old \cup {k}
  <2>1. with = [j \in keys |-> IF j = k THEN v ELSE old[j]]
    BY ZenonT(60) DEF ArrayWith
  <2>2. k \in Dotted /\ IF f \in kept
          THEN storage[f] = cells[f] /\ heap[cells[f]] = with /\ cells[f] \in Cell
          ELSE storage[f] = Absent /\ DOMAIN with = {}
    BY ZenonT(60), <1>2, <1>w DEF FreeCells, Written
  <2>4. with \in Array
    BY ZenonT(60), <1>0, <2>2, ArrayWithIsArray
  <2>5. DOMAIN new = DOMAIN with /\ \A j \in DOMAIN with : new[j] = with[j]
    <3>1. CASE f \in kept
      BY ZenonT(60), <2>2, <3>1 DEF ArrayOf
    <3>2. CASE f \notin kept
      BY ZenonT(60), <1>0, <2>2, <3>2 DEF ArrayOf, NoElements
    <3> QED
      BY <3>1, <3>2
  <2>6. DOMAIN with = keys /\ \A j \in keys : with[j] = IF j = k THEN v ELSE old[j]
    BY ZenonT(60), <2>1
  <2>7. storage[f] \in Cell => heap[storage[f]] \in Array
    BY ZenonT(60), <1>0, <2>2, <2>4
  <2> HIDE DEF old, new, with
  <2>8. /\ \A j \in Dotted \ {k} : /\ j \in DOMAIN new <=> j \in DOMAIN old
                                   /\ j \in DOMAIN new => new[j] = old[j]
        /\ k \in DOMAIN new <=> v # Absent
        /\ k \in DOMAIN new => new[k] = v
    BY ZenonT(60), <2>5, <2>6
  <2> QED
    BY ZenonT(60), <1>2, <2>4, <2>7, <2>8 DEF old, new, with, ArrayWritten
<1>3. CASE f \notin Sections(k)
  <2>1. storage[f] = updating[f]
    BY ZenonT(60), <1>3, <1>w DEF Written
  <2>2. updating[f] \in Cell => updating[f] \notin FreeCells /\ content[updating[f]] \in Array
    BY ZenonT(60), ArrayFacts DEF MapOK, FreeCells
  <2>3. new = old
    BY ZenonT(60), <2>1, <2>2, <1>w DEF ArrayOf, Written
  <2>4. storage[f] \in Cell => heap[storage[f]] \in Array
    BY ZenonT(60), <2>1, <2>2, <1>w DEF Written
  <2>5. k \notin DOMAIN old
    <3>1. k \in Dotted => k \notin DOMAIN old
      BY ZenonT(60), <1>3 DEF MapOK
    <3> QED
      BY ZenonT(60), <1>1, <3>1
  <2> QED
    BY ZenonT(60), <1>3, <2>3, <2>4, <2>5 DEF ArrayWritten
<1> QED
  BY <1>2, <1>3

\* The map that was written has v for k and is otherwise as before; its new cells were
\* free.
Rewritten(k, v, heap, storage) ==
  /\ MapOK(heap, storage)
  /\ \A j \in Key : Val(heap, storage, j) = IF j = k THEN v ELSE Val(content, updating, j)
  /\ \A f \in Section \ Sections(k) : storage[f] = updating[f]
  /\ \A f \in Sections(k) : storage[f] \in Cell => storage[f] \in FreeCells
  /\ \A c \in Cell : heap[c] \in Array \cup {Free, Value}
  /\ \A c \in Cell \ FreeCells : heap[c] = content[c]

\* The map is whole after store or delete, and has the value in every section of the key.
LEMMA MapIsRewritten ==
  ASSUME content \in [Cell -> Array \cup {Free, Value}], MapOK(content, updating),
         NEW k, NEW v, NEW kept, NEW cells, NEW heap, NEW storage,
         Writes(k, v, Sections(k), kept, cells, heap, storage)
  PROVE  Rewritten(k, v, heap, storage)
<1>w. Written(k, v, Sections(k), kept, cells, heap, storage)
  BY ZenonT(60), WhatIsWritten DEF MapOK
<1>a. \A f \in Section : ArrayWritten(f, k, v, heap, storage)
  BY ZenonT(60), ArraysAreWritten
<1>0. k \in Key /\ v \in FreeCells \cup {Absent} /\ v \in Cell \cup {Absent} /\ Absent \notin Cell
  BY ZenonT(60), ConfdataAssumption DEF FreeCells, Writes
<1>1. \A j \in Key : Val(heap, storage, j) = IF j = k THEN v ELSE Val(content, updating, j)
  <2> TAKE j \in Key
  <2>1. CASE j \in Simple
    BY ZenonT(60), <1>w, <2>1 DEF Val, Written
  <2>2. CASE j \notin Simple
    <3> DEFINE f == FirstPlace(j)
    <3>1. j \in Dotted /\ f \in Section /\ f \in Sections(j)
      BY ZenonT(60), <2>2, FirstIsASection DEF Key
    <3>2. ArrayWritten(f, k, v, heap, storage)
      BY ZenonT(60), <1>a, <3>1
    <3> HIDE DEF f
    <3>3. CASE j = k
      BY ZenonT(60), <2>2, <3>1, <3>2, <3>3 DEF ArrayWritten, Val, f
    <3>4. CASE j # k
      BY ZenonT(60), <2>2, <3>1, <3>2, <3>4 DEF ArrayWritten, Val, f
    <3> QED
      BY <3>3, <3>4
  <2> QED
    BY <2>1, <2>2
<1>2. \A f \in Sections(k) : storage[f] \in Cell => storage[f] \in FreeCells
  BY ZenonT(60), <1>0, <1>w DEF Written
<1>3. \A f \in Section : updating[f] \in Cell => updating[f] \notin FreeCells
  BY ZenonT(60), ArrayFacts DEF MapOK, FreeCells
<1>4. \A j \in Key : Val(content, updating, j) \in Cell => Val(content, updating, j) \notin FreeCells
  BY ZenonT(60), ConfdataAssumption DEF MapOK, FreeCells
<1>5. ASSUME NEW f \in Section, NEW g \in Section, storage[f] = storage[g], storage[f] \in Cell
      PROVE  f = g
  <2>1. CASE f \in Sections(k) /\ g \in Sections(k)
    BY ZenonT(60), <1>0, <1>5, <1>w, <2>1 DEF Written
  <2>2. CASE f \notin Sections(k) /\ g \notin Sections(k)
    BY ZenonT(60), <1>5, <1>w, <2>2 DEF Written, MapOK
  <2>3. CASE f \in Sections(k) /\ g \notin Sections(k)
    BY ZenonT(60), <1>2, <1>3, <1>5, <1>w, <2>3 DEF Written
  <2>4. CASE f \notin Sections(k) /\ g \in Sections(k)
    BY ZenonT(60), <1>2, <1>3, <1>5, <1>w, <2>4 DEF Written
  <2> QED
    BY <2>1, <2>2, <2>3, <2>4
<1>6. ASSUME NEW j \in Dotted, NEW f \in Section
      PROVE  IF f \in Sections(j) /\ Val(heap, storage, j) \in Cell
               THEN /\ j \in DOMAIN ArrayOf(heap, storage, f)
                    /\ ArrayOf(heap, storage, f)[j] = Val(heap, storage, j)
               ELSE j \notin DOMAIN ArrayOf(heap, storage, f)
  <2>1. j \in Key /\ ArrayWritten(f, k, v, heap, storage)
    BY ZenonT(60), <1>a DEF Key
  <2>2. CASE j = k
    BY ZenonT(60), <1>0, <1>1, <2>1, <2>2 DEF ArrayWritten
  <2>3. CASE j # k
    <3>1. Val(heap, storage, j) = Val(content, updating, j)
      BY ZenonT(60), <1>1, <2>1, <2>3
    <3>2. IF f \in Sections(j) /\ Val(content, updating, j) \in Cell
            THEN /\ j \in DOMAIN ArrayOf(content, updating, f)
                 /\ ArrayOf(content, updating, f)[j] = Val(content, updating, j)
            ELSE j \notin DOMAIN ArrayOf(content, updating, f)
      BY ZenonT(60) DEF MapOK
    <3> QED
      BY ZenonT(60), <2>1, <2>3, <3>1, <3>2 DEF ArrayWritten
  <2> QED
    BY <2>2, <2>3
<1>7. ASSUME NEW j \in Key, Val(heap, storage, j) \in Cell
      PROVE  heap[Val(heap, storage, j)] = Value
  <2>1. CASE j = k
    BY ZenonT(60), <1>1, <1>7, <1>w, <2>1 DEF Written
  <2>2. CASE j # k
    BY ZenonT(60), <1>1, <1>4, <1>7, <1>w, <2>2 DEF Written, MapOK
  <2> QED
    BY <2>1, <2>2
<1>8. ASSUME NEW i \in Key, NEW j \in Key, Val(heap, storage, i) = Val(heap, storage, j),
             Val(heap, storage, i) \in Cell
      PROVE  i = j
  <2>1. CASE i # k /\ j # k
    BY ZenonT(60), <1>1, <1>8, <2>1 DEF MapOK
  <2>2. CASE i = k \/ j = k
    BY ZenonT(60), <1>0, <1>1, <1>4, <1>8, <2>2
  <2> QED
    BY <2>1, <2>2
<1>9. MapOK(heap, storage)
  <2>1. \A f \in Section : storage[f] \in Cell => heap[storage[f]] \in Array
    BY ZenonT(60), <1>a DEF ArrayWritten
  <2> QED
    BY ZenonT(60), <1>5, <1>6, <1>7, <1>8, <1>w, <2>1 DEF MapOK, Written
<1>10. ASSUME NEW c \in Cell PROVE heap[c] \in Array \cup {Free, Value}
  <2>1. CASE c \in FreeCells
    <3>1. heap[c] \in {Free, Value} \cup {ArrayWith(k, v, f) : f \in kept}
      BY ZenonT(60), <1>w, <2>1 DEF Written
    <3>2. \A f \in kept : ArrayWith(k, v, f) \in Array
      BY ZenonT(60), <1>a, <1>w DEF ArrayWritten, Writes, Written
    <3> QED
      BY ZenonT(60), <3>1, <3>2
  <2>2. CASE c \notin FreeCells
    BY ZenonT(60), <1>w, <2>2 DEF Written
  <2> QED
    BY <2>1, <2>2
<1> QED
  BY ZenonT(60), <1>1, <1>2, <1>9, <1>10, <1>w DEF Rewritten, Written

\* c is an array that a change of k replaces, or the value of k.
Replaced(k, c) ==
  (\E f \in Sections(k) : updating[f] = c) \/ Val(content, updating, k) = c

\* A published cell stays in the map unless it is replaced.
LEMMA KeptCells ==
  ASSUME MapOK(content, updating), NEW k \in Key, NEW v \in FreeCells \cup {Absent},
         NEW heap, NEW storage, Rewritten(k, v, heap, storage),
         NEW c \in Cell, content[c] # Free
  PROVE  c \in Reachable(heap, storage) <=>
           c \in Reachable(content, updating) /\ ~Replaced(k, c)
<1>0. MapOK(heap, storage) /\ c \notin FreeCells /\ Absent \notin Cell
  BY ZenonT(60), ConfdataAssumption DEF Rewritten, FreeCells
<1>1. /\ c \in Reachable(heap, storage) <=> Refers(heap, storage, c)
      /\ c \in Reachable(content, updating) <=> Refers(content, updating, c)
  BY ZenonT(60), <1>0, ReachableCells
<1>2. Sections(k) \subseteq Section
  BY ZenonT(60), FirstIsASection DEF Sections, Key
\* No cell is both an array and a value.
<1>3. ASSUME NEW f \in Section, updating[f] = c, NEW j \in Key, Val(content, updating, j) = c
      PROVE  FALSE
  <2>1. content[c] \in Array /\ content[c] = Value
    BY ZenonT(60), <1>3 DEF MapOK
  <2> QED
    BY ZenonT(60), <2>1, ArrayFacts
<1>4. ASSUME NEW f \in Section, storage[f] = c
      PROVE  updating[f] = c /\ f \notin Sections(k)
  BY ZenonT(60), <1>0, <1>4 DEF Rewritten
<1>5. ASSUME NEW j \in Key, Val(heap, storage, j) = c
      PROVE  Val(content, updating, j) = c /\ j # k
  BY ZenonT(60), <1>0, <1>5 DEF Rewritten
<1>6. ASSUME Refers(heap, storage, c) PROVE Refers(content, updating, c) /\ ~Replaced(k, c)
  <2>1. ASSUME NEW f \in Section, storage[f] = c
        PROVE  Refers(content, updating, c) /\ ~Replaced(k, c)
    <3>1. updating[f] = c /\ f \notin Sections(k)
      BY ZenonT(60), <1>4, <2>1
    <3>2. \A g \in Sections(k) : updating[g] # c
      BY ZenonT(60), <1>2, <3>1 DEF MapOK
    <3>3. Val(content, updating, k) # c
      BY ZenonT(60), <1>3, <3>1
    <3> QED
      BY ZenonT(60), <3>1, <3>2, <3>3 DEF Refers, Replaced
  <2>2. ASSUME NEW j \in Key, Val(heap, storage, j) = c
        PROVE  Refers(content, updating, c) /\ ~Replaced(k, c)
    <3>1. Val(content, updating, j) = c /\ j # k
      BY ZenonT(60), <1>5, <2>2
    <3>2. \A g \in Sections(k) : updating[g] # c
      BY ZenonT(60), <1>2, <1>3, <3>1
    <3>3. Val(content, updating, k) # c
      BY ZenonT(60), <3>1 DEF MapOK
    <3> QED
      BY ZenonT(60), <3>1, <3>2, <3>3 DEF Refers, Replaced
  <2> QED
    BY ZenonT(60), <1>6, <2>1, <2>2 DEF Refers
<1>7. ASSUME Refers(content, updating, c), ~Replaced(k, c) PROVE Refers(heap, storage, c)
  <2>1. ASSUME NEW f \in Section, updating[f] = c PROVE storage[f] = c
    BY ZenonT(60), <1>7, <2>1 DEF Replaced, Rewritten
  <2>2. ASSUME NEW j \in Key, Val(content, updating, j) = c PROVE Val(heap, storage, j) = c
    BY ZenonT(60), <1>7, <2>2 DEF Replaced, Rewritten
  <2> QED
    BY ZenonT(60), <1>7, <2>1, <2>2 DEF Refers
<1> QED
  BY ZenonT(60), <1>1, <1>6, <1>7

Added(k, places) == ReplacedArrays(places) \cup ReplacedValue(k, places)

\* The nodes that a change of k adds: the published cells that it replaces.
LEMMA NodesAdded ==
  ASSUME MapOK(content, updating), constants \subseteq Cell, NEW k \in Key,
         NEW places, places = Range(Places(k))
  PROVE  /\ \A n \in Added(k, places) : \E c \in constants :
              \/ n = <<c, "shallow_first">> /\ \E f \in Sections(k) : updating[f] = c
              \/ n = <<c, "deep_last">> /\ Val(content, updating, k) = c
         /\ \A c \in constants :
              /\ (\E f \in Sections(k) : updating[f] = c) =>
                   <<c, "shallow_first">> \in ReplacedArrays(places)
              /\ Val(content, updating, k) = c => <<c, "deep_last">> \in ReplacedValue(k, places)
<1>0. places \cap Section = Sections(k) /\ FirstPlace(k) \in places /\ Absent \notin Cell
  BY ZenonT(60), PlacesAre, ConfdataAssumption
<1>1. ASSUME NEW n \in ReplacedArrays(places)
      PROVE  \E c \in constants :
               n = <<c, "shallow_first">> /\ \E f \in Sections(k) : updating[f] = c
  BY ZenonT(60), <1>0 DEF ReplacedArrays, Node
<1>2. ASSUME NEW c \in constants, NEW f \in Sections(k), updating[f] = c
      PROVE  <<c, "shallow_first">> \in ReplacedArrays(places)
  BY ZenonT(60), <1>0, <1>2 DEF ReplacedArrays, Node
<1>3. \A f \in places : /\ Has(k, f) <=> Val(content, updating, k) # Absent
                        /\ Has(k, f) => ValueAt(k, f) = Val(content, updating, k)
  BY ZenonT(60), CopiesAnswer
<1>5. ASSUME NEW n \in ReplacedValue(k, places)
      PROVE  \E c \in constants : n = <<c, "deep_last">> /\ Val(content, updating, k) = c
  BY ZenonT(60), <1>3 DEF ReplacedValue, Node
<1>6. ASSUME NEW c \in constants, Val(content, updating, k) = c
      PROVE  <<c, "deep_last">> \in ReplacedValue(k, places)
  <2>1. Has(k, FirstPlace(k)) /\ ValueAt(k, FirstPlace(k)) = c
    BY ZenonT(60), <1>0, <1>3, <1>6
  <2> QED
    BY ZenonT(60), <1>0, <2>1 DEF ReplacedValue, Node
<1> QED
  BY ZenonT(60), <1>1, <1>2, <1>5, <1>6 DEF Added

AddedNode(k, n) ==
  /\ n \in GarbageNode /\ n[1] \in constants
  /\ n[2] = "deep_last" => content[n[1]] = Value
  /\ n[1] \in Reachable(content, updating) /\ Replaced(k, n[1])

\* They are for cells of the map, one for each of the published cells that are replaced.
LEMMA AddedNodes ==
  ASSUME MapOK(content, updating), constants \subseteq Cell, NEW k \in Key,
         NEW places, places = Range(Places(k))
  PROVE  /\ \A n \in Added(k, places) : AddedNode(k, n)
         /\ \A n, o \in Added(k, places) : n[1] = o[1] => n = o
         /\ \A c \in constants : Replaced(k, c) => \E n \in Added(k, places) : n[1] = c
<1>0. Sections(k) \subseteq Section
  BY ZenonT(60), FirstIsASection DEF Sections, Key
<1>1. ASSUME NEW c \in constants, NEW f \in Sections(k), updating[f] = c
      PROVE  /\ content[c] \in Array /\ c \in Reachable(content, updating)
             /\ Replaced(k, c) /\ <<c, "shallow_first">> \in Added(k, places)
  <2>1. content[c] \in Array /\ Refers(content, updating, c)
    BY ZenonT(60), <1>0, <1>1 DEF MapOK, Refers
  <2> QED
    BY ZenonT(60), <1>1, <2>1, ReachableCells, NodesAdded DEF Replaced, Added
<1>2. ASSUME NEW c \in constants, Val(content, updating, k) = c
      PROVE  /\ content[c] = Value /\ c \in Reachable(content, updating)
             /\ Replaced(k, c) /\ <<c, "deep_last">> \in Added(k, places)
  <2>1. content[c] = Value /\ Refers(content, updating, c)
    BY ZenonT(60), <1>2 DEF MapOK, Refers
  <2> QED
    BY ZenonT(60), <1>2, <2>1, ReachableCells, NodesAdded DEF Replaced, Added
<1>3. ASSUME NEW n \in Added(k, places)
      PROVE  \E c \in constants :
               \/ n = <<c, "shallow_first">> /\ \E f \in Sections(k) : updating[f] = c
               \/ n = <<c, "deep_last">> /\ Val(content, updating, k) = c
  BY ZenonT(60), NodesAdded DEF Added
<1>4. ASSUME NEW n \in Added(k, places)
      PROVE  /\ AddedNode(k, n)
             /\ \/ n = <<n[1], "shallow_first">> /\ content[n[1]] \in Array
                \/ n = <<n[1], "deep_last">> /\ content[n[1]] = Value
  <2>1. PICK c \in constants :
               \/ n = <<c, "shallow_first">> /\ \E f \in Sections(k) : updating[f] = c
               \/ n = <<c, "deep_last">> /\ Val(content, updating, k) = c
    BY ZenonT(60), <1>3
  <2>2. n[1] = c /\ c \in Cell
    BY SMTT(60), <2>1
  <2>3. CASE n = <<c, "shallow_first">> /\ \E f \in Sections(k) : updating[f] = c
    <3>1. /\ content[c] \in Array /\ c \in Reachable(content, updating)
          /\ Replaced(k, c)
      BY ZenonT(60), <1>1, <2>3
    <3>2. n[2] = "shallow_first" /\ n \in GarbageNode
      BY SMTT(60), <2>2, <2>3 DEF GarbageNode
    <3> QED
      BY ZenonT(60), <2>2, <2>3, <3>1, <3>2 DEF AddedNode
  <2>4. CASE n = <<c, "deep_last">> /\ Val(content, updating, k) = c
    <3>1. /\ content[c] = Value /\ c \in Reachable(content, updating)
          /\ Replaced(k, c)
      BY ZenonT(60), <1>2, <2>4
    <3>2. n \in GarbageNode
      BY SMTT(60), <2>2, <2>4 DEF GarbageNode
    <3> QED
      BY ZenonT(60), <2>2, <2>4, <3>1, <3>2 DEF AddedNode
  <2> QED
    BY ZenonT(60), <2>1, <2>3, <2>4
<1>5. ASSUME NEW n \in Added(k, places), NEW o \in Added(k, places), n[1] = o[1]
      PROVE  n = o
  BY ZenonT(60), <1>4, <1>5, ArrayFacts
<1>6. ASSUME NEW c \in constants, Replaced(k, c)
      PROVE  \E n \in Added(k, places) : n[1] = c
  <2>1. \E way \in {"shallow_first", "deep_last"} : <<c, way>> \in Added(k, places)
    BY ZenonT(60), <1>1, <1>2, <1>6 DEF Replaced
  <2> QED
    BY SMTT(60), <2>1
<1> QED
  BY ZenonT(60), <1>4, <1>5, <1>6

-----------------------------------------------------------------------------
(* Samples and garbage.                                                     *)

\* Published cells are not free, and samples refer to nothing else.
HeapOK ==
  /\ content \in [Cell -> Array \cup {Free, Value}]
  /\ constants \subseteq Cell
  /\ \A c \in constants : content[c] # Free

SamplesOK ==
  \A r \in Resource :
    MapOK(content, sample[r]) /\ Reachable(content, sample[r]) \subseteq constants

MapsOK == MapOK(content, updating) /\ SamplesOK

\* A node is for a published cell that is not in the newest map any more.
NodeOK(l, n) ==
  /\ n[1] \in constants
  /\ ListOf(l)[n] = 1
  /\ n[2] = "deep_last" => content[n[1]] = Value
  /\ n[1] \notin Reachable(content, Newest)

Listed(c) == \E l \in Lists : \E n \in DOMAIN ListOf(l) : n[1] = c

ListsOK ==
  /\ \A l \in Lists : IsGarbage(ListOf(l)) /\ \A n \in DOMAIN ListOf(l) : NodeOK(l, n)
  /\ \A l, m \in Lists : \A n \in DOMAIN ListOf(l), o \in DOMAIN ListOf(m) :
       n[1] = o[1] => l = m /\ n = o
  /\ \A c \in constants \ Reachable(content, Newest) : Listed(c)

\* The order in which samples were published; the list of the map being updated is
\* the last.
Order(l) ==
  IF l = None THEN ResourceAmount + 2
  ELSE IF switching /\ l = wiping THEN ResourceAmount + 1
  ELSE IF l > active_resource_id THEN l - active_resource_id
  ELSE l - active_resource_id + ResourceAmount

\* What a sample refers to is destroyed with this sample or with a later one.
OrderOK ==
  \A r \in Resource, l \in Lists : \A n \in DOMAIN ListOf(l) :
    n[1] \in Reachable(content, sample[r]) => Order(r) <= Order(l)

\* Where the cron is, what it has in hand, and which samples are empty.
CronOK ==
  /\ switching <=> master_pc = "switch"
  /\ IF switching
       THEN /\ updating = EmptyStorage /\ ~has_any_updates
            /\ updating_garbage = NoGarbage
            /\ garbage[wiping] = NoGarbage
       ELSE /\ garbage[active_resource_id] = NoGarbage
            /\ wiping # None => sample[wiping] = EmptyStorage
  /\ master_pc \in {"read", "expire"} => Newest = updating
  /\ \A r \in Resource \ (dirty_inactive_resources \cup {active_resource_id, wiping}) :
       sample[r] = EmptyStorage

PlainTypeOK ==
  /\ sample \in [Resource -> Storage]
  /\ DOMAIN garbage = Resource
  /\ has_any_updates \in BOOLEAN
  /\ element_delays \subseteq Key
  /\ memory_status \in {"NORMAL", "SOFT_OOM", "HARD_OOM"}
  /\ aborted \in {None, "sizes", "copies"}
  /\ master_pc \in {"idle", "read", "expire", "switch", "clear"}
  /\ events \in 0 .. MaxEvents
  /\ kills \in 0 .. MaxKills

DataOK == HeapOK /\ MapsOK /\ ListsOK /\ OrderOK

\* What holds also when an event is cut off: samples are whole, and memory and lists
\* are what they should be.
ReplayTypeOK == updating \in Storage /\ \A l \in Lists : IsGarbage(ListOf(l))

CutOK == HeapOK /\ SamplesOK /\ ReplayTypeOK

\* Without memory the cron does nothing, and without such an end no assertion about the
\* copies fails.
StopOK ==
  /\ memory_status = "HARD_OOM" => master_pc = "idle"
  /\ aborted = "copies" => memory_status = "HARD_OOM"

ConfdataInv ==
  /\ ResourceInv /\ PlainTypeOK /\ CutOK /\ StopOK
  /\ memory_status # "HARD_OOM" => DataOK /\ CronOK

\* Samples are numbered from the oldest to the newest; the list being filled is the last.
LEMMA OrderBounds ==
  ASSUME ResourceInv, NEW r \in Resource
  PROVE  /\ Order(r) \in 1 .. ResourceAmount + 1
         /\ Order(None) = ResourceAmount + 2
<1>1. ResourceAmount \in Nat /\ r \in Nat /\ r < ResourceAmount
      /\ active_resource_id \in Nat /\ active_resource_id < ResourceAmount
  BY SMTT(60), ResourceAssumption DEF ResourceInv, Resource
<1>2. r # None
  BY ZenonT(60), NoneIsNoResource
<1> QED
  BY SMTT(60), <1>1, <1>2 DEF Order

\* An event that changes the map being updated.
LEMMA PutKeeps ==
  ASSUME ResourceInv, DataOK, Newest = updating,
         NEW k \in Key, NEW v \in FreeCells \cup {Absent}, NEW places, places = Range(Places(k)),
         PutElement(k, v, places), has_any_updates' = TRUE,
         UNCHANGED resourceVars, master_pc' # "switch"
  PROVE  DataOK' /\ Newest' = updating'
<1> DEFINE cells == Allocation(Sections(k), FreeCells \ {v})
           kept == {f \in Sections(k) : DOMAIN ArrayWith(k, v, f) # {}}
           storage == StorageWith(k, v, Sections(k), kept, cells)
           heap == HeapWith(k, v, kept, cells)
           added == Added(k, places)
<1>0. /\ HeapOK /\ MapsOK /\ SamplesOK /\ ListsOK /\ OrderOK
      /\ content \in [Cell -> Array \cup {Free, Value}] /\ constants \subseteq Cell
      /\ MapOK(content, updating) /\ \A c \in constants : content[c] # Free
  BY ZenonT(60) DEF DataOK, HeapOK, MapsOK
<1>s. places \cap Section = Sections(k)
  BY ZenonT(60), PlacesAre
<1>1. /\ Injection(Sections(k), FreeCells \ {v}) # {}
      /\ content' = Collected(heap, storage)
      /\ updating' = storage
      /\ updating_garbage' = GarbageWith(k, places)
      /\ UNCHANGED <<constants, sample, garbage>>
  BY ZenonT(60), <1>s DEF PutElement, sampleVars
<1>c. cells \in Injection(Sections(k), FreeCells \ {v})
  BY ZenonT(60), <1>1, AllocationFits
<1>2. Writes(k, v, Sections(k), kept, cells, heap, storage)
  BY ZenonT(60), <1>c DEF Writes
<1>3. Rewritten(k, v, heap, storage)
  BY ZenonT(60), <1>0, <1>2, MapIsRewritten
<1>4. DOMAIN updating_garbage' = DOMAIN updating_garbage \cup added
      /\ \A n \in DOMAIN updating_garbage \cup added :
           updating_garbage'[n] = Times(n, updating_garbage) + (IF n \in added THEN 1 ELSE 0)
  BY ZenonT(60), <1>1 DEF GarbageWith, WithNodes, Added
<1> HIDE DEF cells, kept, storage, heap, added
<1>5. /\ content' \in [Cell -> Array \cup {Free, Value}]
      /\ \A c \in Cell : content'[c] = IF c \in constants \cup Reachable(heap, storage)
                                         THEN heap[c] ELSE Free
  BY ZenonT(60), <1>1, <1>3 DEF Collected, Rewritten
<1>6. \A c \in constants : content'[c] = content[c]
  BY ZenonT(60), <1>0, <1>3, <1>5 DEF Rewritten, FreeCells
<1>7. /\ MapOK(content', updating')
      /\ Reachable(content', updating') = Reachable(heap, storage)
  <2>1. \A c \in Reachable(heap, storage) : c \in Cell
    BY ZenonT(60), <1>3, ReachableCells DEF Rewritten, Refers
  <2>2. \A c \in Reachable(heap, storage) : content'[c] = heap[c]
    BY ZenonT(60), <1>5, <2>1
  <2> QED
    BY ZenonT(60), <1>1, <1>3, <2>2, MapFrame DEF Rewritten
<1>8. ASSUME NEW r \in Resource
      PROVE  MapOK(content', sample'[r]) /\ Reachable(content', sample'[r]) = Reachable(content, sample[r])
  <2>1. MapOK(content, sample[r]) /\ \A c \in Reachable(content, sample[r]) : content'[c] = content[c]
    BY ZenonT(60), <1>0, <1>6 DEF SamplesOK
  <2> QED
    BY ZenonT(60), <1>1, <2>1, MapFrame
<1>9. Newest' = updating'
  BY ZenonT(60), <1>1 DEF Newest
<1>10. \A c \in constants :
         c \in Reachable(content', Newest') <=> c \in Reachable(content, Newest) /\ ~Replaced(k, c)
  BY ZenonT(60), <1>0, <1>3, <1>7, <1>9, KeptCells
\* The lists.
<1>11. /\ \A n \in added : AddedNode(k, n)
       /\ \A n, o \in added : n[1] = o[1] => n = o
       /\ \A c \in constants : Replaced(k, c) => \E n \in added : n[1] = c
  BY ZenonT(60), <1>0, AddedNodes DEF added
<1>12. /\ \A l \in Resource : ListOf(l)' = ListOf(l)
       /\ ListOf(None)' = updating_garbage' /\ ListOf(None) = updating_garbage
  BY ZenonT(60), <1>1, NoneIsNoResource DEF ListOf
<1>13. \A l \in Lists : \A n \in DOMAIN ListOf(l) : NodeOK(l, n) /\ \A o \in added : n[1] # o[1]
  BY ZenonT(60), <1>0, <1>11 DEF ListsOK, NodeOK, AddedNode
<1>14. /\ \A l \in Lists : \A n \in DOMAIN ListOf(l)' :
             n \in DOMAIN ListOf(l) \/ (l = None /\ n \in added)
       /\ \A l \in Lists : \A n \in DOMAIN ListOf(l) :
             n \in DOMAIN ListOf(l)' /\ ListOf(l)'[n] = ListOf(l)[n]
       /\ \A n \in added : n \in DOMAIN ListOf(None)' /\ ListOf(None)'[n] = 1
  <2>1. ASSUME NEW n \in DOMAIN updating_garbage
        PROVE  updating_garbage'[n] = updating_garbage[n]
    <3>1. n \notin added /\ updating_garbage[n] = 1
      BY ZenonT(60), <1>12, <1>13 DEF NodeOK, Lists
    <3>2. updating_garbage'[n] = updating_garbage[n] + 0
      BY ZenonT(60), <1>4, <3>1 DEF Times
    <3> QED
      BY SMTT(60), <3>1, <3>2
  <2>2. ASSUME NEW n \in added
        PROVE  updating_garbage'[n] = 1
    <3>1. n \notin DOMAIN updating_garbage
      BY ZenonT(60), <1>12, <1>13 DEF Lists
    <3>2. updating_garbage'[n] = 0 + 1
      BY ZenonT(60), <1>4, <3>1 DEF Times
    <3> QED
      BY SMTT(60), <3>2
  <2>3. DOMAIN updating_garbage' = DOMAIN updating_garbage \cup added
    BY ZenonT(60), <1>4
  <2>4. ASSUME NEW l \in Lists, NEW n \in DOMAIN ListOf(l)'
        PROVE  n \in DOMAIN ListOf(l) \/ (l = None /\ n \in added)
    <3>1. CASE l \in Resource
      BY ZenonT(60), <1>12, <3>1
    <3>2. CASE l = None
      <4>1. n \in DOMAIN updating_garbage'
        BY ZenonT(60), <1>12, <3>2
      <4> QED
        BY ZenonT(60), <1>12, <2>3, <3>2, <4>1
    <3> QED
      BY ZenonT(60), <3>1, <3>2 DEF Lists
  <2>5. ASSUME NEW l \in Lists, NEW n \in DOMAIN ListOf(l)
        PROVE  n \in DOMAIN ListOf(l)' /\ ListOf(l)'[n] = ListOf(l)[n]
    BY ZenonT(60), <1>12, <2>1, <2>3 DEF Lists
  <2>6. ASSUME NEW n \in added
        PROVE  n \in DOMAIN ListOf(None)' /\ ListOf(None)'[n] = 1
    BY ZenonT(60), <1>12, <2>2, <2>3
  <2> QED
    BY ZenonT(60), <2>4, <2>5, <2>6
<1>15. \A l \in Lists : IsGarbage(ListOf(l))'
  <2>1. \A l \in Resource : IsGarbage(ListOf(l))'
    BY ZenonT(60), <1>0, <1>12 DEF ListsOK, IsGarbage, Lists
  <2>2. IsGarbage(updating_garbage)
    BY ZenonT(60), <1>0, <1>12 DEF ListsOK, Lists
  <2>3. updating_garbage' = [n \in DOMAIN updating_garbage' |-> updating_garbage'[n]]
    BY ZenonT(60), <1>1 DEF GarbageWith, WithNodes
  <2>4. \A n \in DOMAIN updating_garbage' : n \in GarbageNode /\ updating_garbage'[n] \in Nat \ {0}
    <3>1. \A n \in DOMAIN updating_garbage : n \in GarbageNode /\ updating_garbage[n] \in Nat \ {0}
      BY ZenonT(60), <2>2 DEF IsGarbage
    <3>2. 1 \in Nat \ {0}
      BY SMTT(60)
    <3>3. ASSUME NEW n \in DOMAIN updating_garbage
          PROVE  updating_garbage'[n] \in Nat \ {0}
      <4>1. updating_garbage'[n] = updating_garbage[n]
        BY ZenonT(60), <1>12, <1>14 DEF Lists
      <4> QED
        BY ZenonT(60), <3>1, <4>1
    <3>4. ASSUME NEW n \in added
          PROVE  n \in GarbageNode /\ updating_garbage'[n] \in Nat \ {0}
      <4>1. updating_garbage'[n] = 1
        BY ZenonT(60), <1>12, <1>14
      <4> QED
        BY ZenonT(60), <1>11, <3>2, <4>1 DEF AddedNode
    <3> QED
      BY ZenonT(60), <1>4, <3>1, <3>3, <3>4
  <2>5. IsGarbage(updating_garbage)'
    BY ZenonT(60), <2>3, <2>4 DEF IsGarbage
  <2> QED
    BY ZenonT(60), <1>12, <2>1, <2>5 DEF Lists
<1>16. \A l \in Lists : \A n \in DOMAIN ListOf(l)' : NodeOK(l, n)'
  <2> SUFFICES ASSUME NEW l \in Lists, NEW n \in DOMAIN ListOf(l)' PROVE NodeOK(l, n)'
    BY ZenonT(60)
  <2>1. CASE n \in DOMAIN ListOf(l)
    <3>1. NodeOK(l, n) /\ ListOf(l)'[n] = ListOf(l)[n]
      BY ZenonT(60), <1>13, <1>14, <2>1
    <3>2. constants' = constants /\ content'[n[1]] = content[n[1]]
          /\ n[1] \notin Reachable(content', Newest')
      BY ZenonT(60), <1>1, <1>6, <1>10, <3>1 DEF NodeOK
    <3> QED
      BY ZenonT(60), <3>1, <3>2 DEF NodeOK
  <2>2. CASE l = None /\ n \in added
    BY ZenonT(60), <1>1, <1>6, <1>10, <1>11, <1>14, <2>2 DEF NodeOK, AddedNode
  <2> QED
    BY ZenonT(60), <1>14, <2>1, <2>2
<1>17. \A l, m \in Lists : \A n \in DOMAIN ListOf(l)', o \in DOMAIN ListOf(m)' :
         n[1] = o[1] => l = m /\ n = o
  <2> SUFFICES ASSUME NEW l \in Lists, NEW m \in Lists, NEW n \in DOMAIN ListOf(l)',
                      NEW o \in DOMAIN ListOf(m)', n[1] = o[1]
               PROVE  l = m /\ n = o
    BY ZenonT(60)
  <2>1. CASE n \in DOMAIN ListOf(l) /\ o \in DOMAIN ListOf(m)
    BY ZenonT(60), <1>0, <2>1 DEF ListsOK
  <2>2. CASE n \in DOMAIN ListOf(l) /\ o \in added
    BY ZenonT(60), <1>13, <2>2
  <2>3. CASE n \in added /\ o \in DOMAIN ListOf(m)
    BY ZenonT(60), <1>13, <2>3
  <2>4. CASE l = None /\ m = None /\ n \in added /\ o \in added
    BY ZenonT(60), <1>11, <2>4
  <2> QED
    BY ZenonT(60), <1>14, <2>1, <2>2, <2>3, <2>4
<1>18. \A c \in constants' \ Reachable(content', Newest') : Listed(c)'
  <2> SUFFICES ASSUME NEW c \in constants, c \notin Reachable(content', Newest') PROVE Listed(c)'
    BY ZenonT(60), <1>1
  <2>1. CASE c \notin Reachable(content, Newest)
    <3>1. Listed(c)
      BY ZenonT(60), <1>0, <2>1 DEF ListsOK
    <3> QED
      BY ZenonT(60), <1>14, <3>1 DEF Listed
  <2>2. CASE Replaced(k, c)
    <3>1. PICK n \in added : n[1] = c
      BY ZenonT(60), <1>11, <2>2
    <3> QED
      BY ZenonT(60), <1>14, <3>1 DEF Listed, Lists
  <2> QED
    BY ZenonT(60), <1>10, <2>1, <2>2
<1>19. HeapOK' /\ MapsOK' /\ ListsOK'
  <2>1. HeapOK'
    BY ZenonT(60), <1>0, <1>1, <1>5, <1>6 DEF HeapOK
  <2>2. MapsOK'
    BY ZenonT(60), <1>0, <1>1, <1>7, <1>8 DEF MapsOK, SamplesOK
  <2>3. ListsOK'
    BY ZenonT(60), <1>15, <1>16, <1>17, <1>18 DEF ListsOK
  <2> QED
    BY <2>1, <2>2, <2>3
<1>20. OrderOK'
  <2> SUFFICES ASSUME NEW r \in Resource, NEW l \in Lists, NEW n \in DOMAIN ListOf(l)',
                      n[1] \in Reachable(content', sample'[r])
               PROVE  Order(r)' <= Order(l)'
    BY ZenonT(60) DEF OrderOK
  <2>1. Order(r)' = Order(r) /\ Order(l)' = Order(l)
    BY ZenonT(60) DEF Order, resourceVars, ringVars
  <2>2. CASE n \in DOMAIN ListOf(l)
    BY ZenonT(60), <1>0, <1>8, <2>1, <2>2 DEF OrderOK
  <2>3. CASE l = None
    BY SMTT(60), <2>1, <2>3, OrderBounds, ResourceAssumption
  <2> QED
    BY ZenonT(60), <1>14, <2>2, <2>3
<1> QED
  BY ZenonT(60), <1>9, <1>19, <1>20 DEF DataOK

\* The next sample of the ring, in numbers.
LEMMA NextIs ==
  ASSUME ResourceInv
  PROVE  /\ ResourceAmount \in Nat /\ ResourceAmount > 1
         /\ active_resource_id \in 0 .. ResourceAmount - 1
         /\ get_next_inactive_resource_id =
              IF active_resource_id + 1 < ResourceAmount THEN active_resource_id + 1 ELSE 0
<1>1. /\ ResourceAmount \in Nat /\ ResourceAmount > 1
      /\ active_resource_id \in 0 .. ResourceAmount - 1
  BY SMTT(60), ResourceAssumption DEF ResourceInv, Resource
<1>2. CASE active_resource_id + 1 < ResourceAmount
  BY SMTT(60), <1>1, <1>2 DEF get_next_inactive_resource_id, NextResource
<1>3. CASE active_resource_id + 1 = ResourceAmount
  BY SMTT(60), <1>1, <1>3 DEF get_next_inactive_resource_id, NextResource
<1> QED
  BY SMTT(60), <1>1, <1>2, <1>3

\* Without a switch the next sample is the first and the active one is the last.
LEMMA OrderOfTheRing ==
  ASSUME ResourceInv, ~switching, NEW r \in Resource
  PROVE  /\ Order(r) \in 1 .. ResourceAmount
         /\ Order(r) = 1 => r = get_next_inactive_resource_id
         /\ Order(get_next_inactive_resource_id) = 1
         /\ Order(active_resource_id) = ResourceAmount
         /\ r # active_resource_id => Distance(r) = Order(r)
<1>1. /\ ResourceAmount \in Nat /\ ResourceAmount > 1
      /\ active_resource_id \in 0 .. ResourceAmount - 1
      /\ get_next_inactive_resource_id =
           IF active_resource_id + 1 < ResourceAmount THEN active_resource_id + 1 ELSE 0
  BY ZenonT(60), NextIs
<1>2. r \in 0 .. ResourceAmount - 1 /\ None \notin 0 .. ResourceAmount - 1
  BY ZenonT(60), NoneIsNoResource DEF Resource
<1>3. \A s \in 0 .. ResourceAmount - 1 :
        Order(s) = IF s > active_resource_id THEN s - active_resource_id
                   ELSE s - active_resource_id + ResourceAmount
  BY ZenonT(60), <1>2 DEF Order
<1>4. get_next_inactive_resource_id \in 0 .. ResourceAmount - 1
  BY SMTT(60), <1>1
<1>5. r # active_resource_id => Distance(r) = Order(r)
  <2>1. CASE r > active_resource_id
    BY SMTT(60), <1>1, <1>2, <1>3, <2>1 DEF Distance
  <2>2. CASE r < active_resource_id
    <3> DEFINE d == r - active_resource_id + ResourceAmount
    <3>1. d \in 0 .. ResourceAmount - 1 /\ r - active_resource_id = d + (-1) * ResourceAmount
      BY SMTT(60), <1>1, <1>2, <2>2
    <3>2. (r - active_resource_id) % ResourceAmount = d
      BY SMTT(60), <1>1, <1>2, <2>2
    <3> QED
      BY SMTT(60), <1>1, <1>2, <1>3, <2>2, <3>2 DEF Distance
  <2> QED
    BY SMTT(60), <1>1, <1>2, <2>1, <2>2
<1> QED
  BY SMTT(60), <1>1, <1>2, <1>3, <1>4, <1>5

\* No two samples were published together.
LEMMA OrderIsInjective ==
  ASSUME ResourceInv, ~switching, NEW r \in Resource, NEW s \in Resource, Order(r) = Order(s)
  PROVE  r = s
<1>1. /\ ResourceAmount \in Nat /\ active_resource_id \in 0 .. ResourceAmount - 1
  BY ZenonT(60), NextIs
<1>2. r \in 0 .. ResourceAmount - 1 /\ s \in 0 .. ResourceAmount - 1
      /\ None \notin 0 .. ResourceAmount - 1
  BY ZenonT(60), NoneIsNoResource DEF Resource
<1>3. \A t \in 0 .. ResourceAmount - 1 :
        Order(t) = IF t > active_resource_id THEN t - active_resource_id
                   ELSE t - active_resource_id + ResourceAmount
  BY ZenonT(60), <1>2 DEF Order
<1> QED
  BY SMTT(60), <1>1, <1>2, <1>3

\* A switch moves every sample one place down.
LEMMA SwitchKeepsOrder ==
  ASSUME ResourceInv, EndReset, NEW r \in Resource
  PROVE  Order(r)' = Order(r) - 1
<1>1. /\ ResourceAmount \in Nat /\ ResourceAmount > 1
      /\ active_resource_id \in 0 .. ResourceAmount - 1
      /\ get_next_inactive_resource_id =
           IF active_resource_id + 1 < ResourceAmount THEN active_resource_id + 1 ELSE 0
  BY ZenonT(60), NextIs
<1>2. r \in 0 .. ResourceAmount - 1 /\ r # None
  BY ZenonT(60), NoneIsNoResource DEF Resource
<1>3. /\ switching /\ ~switching' /\ wiping = get_next_inactive_resource_id
      /\ active_resource_id' = get_next_inactive_resource_id
  BY ZenonT(60) DEF EndReset, switch_active_to_next, ResourceInv
<1>4. Order(r)' = IF r > active_resource_id' THEN r - active_resource_id'
                  ELSE r - active_resource_id' + ResourceAmount
  BY ZenonT(60), <1>2, <1>3 DEF Order
<1>5. Order(r) = IF r = wiping THEN ResourceAmount + 1
                 ELSE IF r > active_resource_id THEN r - active_resource_id
                 ELSE r - active_resource_id + ResourceAmount
  BY ZenonT(60), <1>2, <1>3 DEF Order
<1> QED
  BY SMTT(60), <1>1, <1>2, <1>3, <1>4, <1>5

\* The sample that is reset comes last.
LEMMA ResetOrder ==
  ASSUME ResourceInv, BeginReset, NEW r \in Resource
  PROVE  /\ ~switching
         /\ Order(r)' = IF r = get_next_inactive_resource_id THEN ResourceAmount + 1 ELSE Order(r)
<1>1. get_next_inactive_resource_id \in Resource /\ r # None
  BY ZenonT(60), NextIsAnother, NoneIsNoResource DEF get_next_inactive_resource_id, ResourceInv
<1>2. ~switching
  BY ZenonT(60), <1>1, NoneIsNoResource DEF BeginReset, ResourceInv
<1> QED
  BY ZenonT(60), <1>1, <1>2 DEF BeginReset, Order, ringVars

\* What is destroyed with a sample is what its list has nodes for.
LEMMA DestroyedCells ==
  ASSUME ListsOK, NEW r \in Resource, NEW c
  PROVE  c \in Destroyed(r) <=> \E n \in DOMAIN ListOf(r) : n[1] = c
<1>1. ListOf(r) = garbage[r] /\ r \in Lists
  BY ZenonT(60), NoneIsNoResource DEF ListOf, Lists
<1>2. ASSUME NEW n \in DOMAIN garbage[r], n[2] = "deep_last"
      PROVE  Elements(content, n[1]) = {}
  <2>1. content[n[1]] = Value
    BY ZenonT(60), <1>1, <1>2 DEF ListsOK, NodeOK
  <2> QED
    BY ZenonT(60), <2>1 DEF Elements, IsArray
<1> QED
  BY ZenonT(60), <1>1, <1>2 DEF Destroyed

\* Memory and a map after the garbage of a sample was destroyed.
LEMMA DestroyKeeps ==
  ASSUME HeapOK, ListsOK, NEW r \in Resource, destroy_garbage(r)
  PROVE  /\ content' \in [Cell -> Array \cup {Free, Value}]
         /\ \A c \in Cell : c \notin Destroyed(r) => content'[c] = content[c]
         /\ \A storage : MapOK(content, storage) /\ (\A c \in Reachable(content, storage) : c \notin Destroyed(r))
              => MapOK(content', storage) /\ Reachable(content', storage) = Reachable(content, storage)
<1>1. /\ content' \in [Cell -> Array \cup {Free, Value}]
      /\ \A c \in Cell : c \notin Destroyed(r) => content'[c] = content[c]
  BY ZenonT(60) DEF destroy_garbage, HeapOK
<1>2. ASSUME NEW storage, MapOK(content, storage),
             \A c \in Reachable(content, storage) : c \notin Destroyed(r)
      PROVE  MapOK(content', storage) /\ Reachable(content', storage) = Reachable(content, storage)
  <2>1. \A c \in Reachable(content, storage) : c \in Cell
    BY ZenonT(60), <1>2, ReachableCells DEF Refers
  <2>2. \A c \in Reachable(content, storage) : content'[c] = content[c]
    BY ZenonT(60), <1>1, <1>2, <2>1
  <2> QED
    BY ZenonT(60), <1>2, <2>2, MapFrame
<1> QED
  BY ZenonT(60), <1>1, <1>2

\* Newest is one of the maps.
LEMMA NewestIsAMap ==
  ASSUME ResourceInv, MapsOK, switching <=> master_pc = "switch"
  PROVE  MapOK(content, Newest)
<1>1. master_pc = "switch" => wiping \in Resource
  BY ZenonT(60), NextIsAnother DEF ResourceInv, get_next_inactive_resource_id
<1> QED
  BY ZenonT(60), <1>1 DEF Newest, MapsOK, SamplesOK, ResourceInv

\* A step that changes neither memory nor lists nor, in effect, the newest map and the order.
LEMMA DataFrame ==
  ASSUME DataOK, UNCHANGED <<heapVars, sampleVars, updating_garbage>>,
         MapOK(content, updating'),
         Reachable(content, Newest') = Reachable(content, Newest),
         \A r \in Resource, l \in Lists : Order(r) <= Order(l) => Order(r)' <= Order(l)'
  PROVE  DataOK'
<1>0. /\ content' = content /\ constants' = constants /\ sample' = sample /\ garbage' = garbage
      /\ updating_garbage' = updating_garbage
  BY ZenonT(60) DEF heapVars, sampleVars
<1>1. \A l : ListOf(l)' = ListOf(l)
  BY ZenonT(60), <1>0 DEF ListOf
<1>2. HeapOK'
  BY ZenonT(60), <1>0 DEF DataOK, HeapOK
<1>3. MapsOK'
  BY ZenonT(60), <1>0 DEF DataOK, MapsOK, SamplesOK
<1>4. ListsOK'
  <2>1. \A l, n : NodeOK(l, n)' <=> NodeOK(l, n)
    BY ZenonT(60), <1>0, <1>1 DEF NodeOK
  <2>2. \A c : Listed(c)' <=> Listed(c)
    BY ZenonT(60), <1>1 DEF Listed
  <2>3. \A l : IsGarbage(ListOf(l))' <=> IsGarbage(ListOf(l))
    BY ZenonT(60), <1>1 DEF IsGarbage
  <2> QED
    BY ZenonT(60), <1>0, <1>1, <2>1, <2>2, <2>3 DEF DataOK, ListsOK
<1>5. OrderOK'
  BY ZenonT(60), <1>0, <1>1 DEF DataOK, OrderOK
<1> QED
  BY ZenonT(60), <1>2, <1>3, <1>4, <1>5 DEF DataOK

\* A step that changes the control, the expiration times or the workers.
LEMMA StillData ==
  ASSUME ResourceInv, DataOK, CronOK, UNCHANGED heapVars, UNCHANGED sampleVars,
         UNCHANGED <<updating, updating_garbage, has_any_updates>>,
         UNCHANGED <<active_resource_id, dirty_inactive_resources, wiping, switching>>,
         \/ master_pc' = master_pc
         \/ master_pc \in {"read", "expire"} /\ master_pc' \in {"idle", "clear"}
         \/ master_pc = "clear" /\ master_pc' = "idle"
  PROVE  DataOK' /\ CronOK'
<1>0. /\ active_resource_id' = active_resource_id /\ wiping' = wiping /\ switching' = switching
      /\ dirty_inactive_resources' = dirty_inactive_resources
      /\ sample' = sample /\ garbage' = garbage /\ updating' = updating
      /\ updating_garbage' = updating_garbage /\ has_any_updates' = has_any_updates
  BY ZenonT(60) DEF sampleVars
<1>p. /\ master_pc' = "switch" <=> master_pc = "switch"
      /\ master_pc' \in {"read", "expire"} => master_pc \in {"read", "expire"}
  BY ZenonT(60)
<1>1. Newest' = Newest
  BY SMTT(60), <1>0, <1>p DEF Newest
<1>2. \A l : Order(l)' = Order(l)
  BY SMTT(60), <1>0 DEF Order
<1>3. DataOK'
  <2>1. MapOK(content, updating') /\ UNCHANGED <<heapVars, sampleVars, updating_garbage>>
    BY ZenonT(60), <1>0 DEF DataOK, MapsOK, SamplesOK
  <2> QED
    BY ZenonT(60), <1>1, <1>2, <2>1, DataFrame
<1>4. CronOK'
  BY SMTT(60), <1>0, <1>1, <1>p DEF CronOK
<1> QED
  BY <1>3, <1>4

\* Only the sample that is cleared can refer to what its list destroys: the older ones are
\* empty, and younger ones come later.
LEMMA ClearedAlone ==
  ASSUME ResourceInv, DataOK, CronOK, NEW r \in Resource, BeginClear(r),
         NEW s \in Resource \ {r}, NEW c \in Reachable(content, sample[s])
  PROVE  c \notin Destroyed(r)
<1> SUFFICES ASSUME c \in Destroyed(r) PROVE FALSE
  OBVIOUS
<1>1. /\ ListsOK /\ OrderOK /\ wiping = None /\ r \in OldestDirty
      /\ r \in dirty_inactive_resources /\ r # active_resource_id
      /\ \A t \in dirty_inactive_resources : Distance(r) <= Distance(t)
  BY ZenonT(60) DEF DataOK, BeginClear, OldestDirty, ResourceInv
<1>2. ~switching
  <2>1. get_next_inactive_resource_id \in Resource
    BY ZenonT(60), NextIsAnother DEF get_next_inactive_resource_id, ResourceInv
  <2> QED
    BY ZenonT(60), <1>1, <2>1, NoneIsNoResource DEF ResourceInv
<1>3. PICK n \in DOMAIN ListOf(r) : n[1] = c
  BY ZenonT(60), <1>1, DestroyedCells
<1>4. Order(s) <= Order(r)
  BY ZenonT(60), <1>1, <1>3 DEF OrderOK, Lists
<1>5. /\ Order(s) \in 1 .. ResourceAmount /\ Order(r) \in 1 .. ResourceAmount
      /\ Order(s) # Order(r)
  BY ZenonT(60), <1>2, OrderOfTheRing, OrderIsInjective
<1>6. CASE s = active_resource_id
  <2>1. Order(s) = ResourceAmount
    BY ZenonT(60), <1>2, <1>6, OrderOfTheRing
  <2> QED
    BY SMTT(60), <1>4, <1>5, <2>1, ResourceAssumption
<1>7. CASE s # active_resource_id /\ s \in dirty_inactive_resources
  <2>1. Distance(r) = Order(r) /\ Distance(s) = Order(s)
    BY ZenonT(60), <1>1, <1>2, <1>7, OrderOfTheRing
  <2>2. Order(r) <= Order(s)
    BY ZenonT(60), <1>1, <1>7, <2>1
  <2> QED
    BY SMTT(60), <1>4, <1>5, <2>2, ResourceAssumption
<1>8. CASE s # active_resource_id /\ s \notin dirty_inactive_resources
  <2>1. sample[s] = EmptyStorage
    BY ZenonT(60), <1>1, <1>8, NoneIsNoResource DEF CronOK
  <2> QED
    BY ZenonT(60), <2>1, EmptyMap
<1> QED
  BY <1>6, <1>7, <1>8

\* clear of a dirty sample: its garbage is destroyed with it.
LEMMA ClearKeeps ==
  ASSUME ResourceInv, PlainTypeOK, DataOK, CronOK, NEW r \in Resource, ClearSample(r)
  PROVE  DataOK' /\ CronOK'
<1>0. /\ HeapOK /\ MapsOK /\ ListsOK /\ OrderOK
      /\ BeginClear(r) /\ destroy_garbage(r)
      /\ constants' = constants \ Destroyed(r)
      /\ garbage' = [garbage EXCEPT ![r] = NoGarbage]
      /\ sample' = [sample EXCEPT ![r] = EmptyStorage]
      /\ updating' = updating /\ updating_garbage' = updating_garbage
      /\ has_any_updates' = has_any_updates
      /\ master_pc = "clear" /\ master_pc' = "clear"
  BY ZenonT(60) DEF DataOK, ClearSample, MasterGoto, replayVars
<1>1. /\ r # active_resource_id /\ wiping = None /\ wiping' = r /\ ~switching /\ ~switching'
      /\ active_resource_id' = active_resource_id /\ active_resource_id \in Resource
      /\ dirty_inactive_resources' = dirty_inactive_resources
  BY ZenonT(60), <1>0 DEF CronOK, BeginClear, OldestDirty, ResourceInv, ringVars
<1>2. /\ \A s \in Resource : sample'[s] = IF s = r THEN EmptyStorage ELSE sample[s]
      /\ \A s \in Resource : garbage'[s] = IF s = r THEN NoGarbage ELSE garbage[s]
  BY ZenonT(60), <1>0 DEF PlainTypeOK
<1>3. /\ content' \in [Cell -> Array \cup {Free, Value}]
      /\ \A c \in Cell : c \notin Destroyed(r) => content'[c] = content[c]
      /\ \A storage : MapOK(content, storage) /\ (\A c \in Reachable(content, storage) : c \notin Destroyed(r))
           => MapOK(content', storage) /\ Reachable(content', storage) = Reachable(content, storage)
  BY ZenonT(60), <1>0, DestroyKeeps
<1>4. \A c : c \in Destroyed(r) <=> \E n \in DOMAIN ListOf(r) : n[1] = c
  BY ZenonT(60), <1>0, DestroyedCells
<1>5. ASSUME NEW s \in Resource, s # r
      PROVE  MapOK(content', sample'[s]) /\ Reachable(content', sample'[s]) = Reachable(content, sample[s])
             /\ \A c \in Reachable(content, sample[s]) : c \notin Destroyed(r)
  <2>1. MapOK(content, sample[s]) /\ sample'[s] = sample[s]
    BY ZenonT(60), <1>0, <1>2, <1>5 DEF MapsOK, SamplesOK
  <2>2. \A c \in Reachable(content, sample[s]) : c \notin Destroyed(r)
    BY ZenonT(60), <1>0, <1>5, ClearedAlone
  <2> QED
    BY ZenonT(60), <1>3, <2>1, <2>2
<1>6. Newest' = Newest /\ (Newest = updating \/ updating = EmptyStorage)
  BY ZenonT(60), <1>0, <1>1, <1>2 DEF Newest
<1>7. \A c \in Reachable(content, Newest) : c \notin Destroyed(r)
  <2>1. \A n \in DOMAIN ListOf(r) : n[1] \notin Reachable(content, Newest)
    BY ZenonT(60), <1>0 DEF ListsOK, NodeOK, Lists
  <2> QED
    BY ZenonT(60), <1>4, <2>1
<1>8. Reachable(content', Newest') = Reachable(content, Newest)
  <2>1. MapOK(content, Newest)
    BY ZenonT(60), <1>0, NewestIsAMap DEF CronOK
  <2> QED
    BY ZenonT(60), <1>3, <1>6, <1>7, <2>1
<1>9. MapOK(content', updating')
  <2>1. \A c \in Reachable(content, updating) : c \notin Destroyed(r)
    BY ZenonT(60), <1>6, <1>7, EmptyMap
  <2> QED
    BY ZenonT(60), <1>0, <1>3, <2>1 DEF MapsOK, SamplesOK
<1>10. MapOK(content', sample'[r]) /\ Reachable(content', sample'[r]) = {}
  BY ZenonT(60), <1>2, EmptyMap
<1>11. HeapOK'
  <2>1. constants' \subseteq Cell
    BY ZenonT(60), <1>0 DEF HeapOK
  <2> QED
    BY ZenonT(60), <1>0, <1>3, <2>1 DEF HeapOK
<1>12. MapsOK'
  <2>1. ASSUME NEW s \in Resource
        PROVE  MapOK(content', sample'[s]) /\ Reachable(content', sample'[s]) \subseteq constants'
    <3>1. CASE s = r
      BY ZenonT(60), <1>10, <3>1
    <3>2. CASE s # r
      BY ZenonT(60), <1>0, <1>5, <3>2 DEF MapsOK, SamplesOK
    <3> QED
      BY <3>1, <3>2
  <2> QED
    BY ZenonT(60), <1>9, <2>1 DEF MapsOK, SamplesOK
\* Only the list of r changes: it is empty now.
<1>13. DOMAIN ListOf(r)' = {} /\ IsGarbage(ListOf(r))' /\ \A l \in Lists : l # r => ListOf(l)' = ListOf(l)
  <2>1. ListOf(r)' = NoGarbage /\ \A l \in Lists : l # r => ListOf(l)' = ListOf(l)
    BY ZenonT(60), <1>0, <1>2, NoneIsNoResource DEF ListOf, Lists
  <2> QED
    BY ZenonT(60), <2>1 DEF NoGarbage, IsGarbage
<1>14. \A l \in Lists : \A n \in DOMAIN ListOf(l)' : l # r /\ n \in DOMAIN ListOf(l) /\ NodeOK(l, n)
                                                    /\ n[1] \notin Destroyed(r)
  <2> SUFFICES ASSUME NEW l \in Lists, NEW n \in DOMAIN ListOf(l)'
               PROVE  l # r /\ n \in DOMAIN ListOf(l) /\ NodeOK(l, n) /\ n[1] \notin Destroyed(r)
    BY ZenonT(60)
  <2>1. l # r /\ n \in DOMAIN ListOf(l)
    BY ZenonT(60), <1>13
  <2> QED
    BY ZenonT(60), <1>0, <1>4, <2>1 DEF ListsOK, Lists
<1>15. \A l \in Lists : IsGarbage(ListOf(l))' /\ \A n \in DOMAIN ListOf(l)' : NodeOK(l, n)'
  <2> SUFFICES ASSUME NEW l \in Lists
               PROVE  IsGarbage(ListOf(l))' /\ \A n \in DOMAIN ListOf(l)' : NodeOK(l, n)'
    BY ZenonT(60)
  <2>1. IsGarbage(ListOf(l))'
    BY ZenonT(60), <1>0, <1>13 DEF ListsOK, IsGarbage
  <2>2. ASSUME NEW n \in DOMAIN ListOf(l)' PROVE NodeOK(l, n)'
    <3>1. NodeOK(l, n) /\ ListOf(l)' = ListOf(l) /\ n[1] \notin Destroyed(r)
      BY ZenonT(60), <1>13, <1>14
    <3>2. n[1] \in constants' /\ content'[n[1]] = content[n[1]]
      BY ZenonT(60), <1>0, <1>3, <3>1 DEF NodeOK, HeapOK
    <3> QED
      BY ZenonT(60), <1>8, <3>1, <3>2 DEF NodeOK
  <2> QED
    BY ZenonT(60), <2>1, <2>2
<1>16. \A c \in constants' \ Reachable(content', Newest') : Listed(c)'
  <2> SUFFICES ASSUME NEW c \in constants, c \notin Destroyed(r), c \notin Reachable(content', Newest')
               PROVE  Listed(c)'
    BY ZenonT(60), <1>0
  <2>1. PICK l \in Lists : \E n \in DOMAIN ListOf(l) : n[1] = c
    BY ZenonT(60), <1>0, <1>8 DEF ListsOK, Listed
  <2>2. l # r
    BY ZenonT(60), <1>4, <2>1
  <2> QED
    BY ZenonT(60), <1>13, <2>1, <2>2 DEF Listed
<1>17. ListsOK'
  <2>1. \A l, m \in Lists : \A n \in DOMAIN ListOf(l)', o \in DOMAIN ListOf(m)' :
          n[1] = o[1] => l = m /\ n = o
    BY ZenonT(60), <1>0, <1>14 DEF ListsOK
  <2> QED
    BY ZenonT(60), <1>15, <1>16, <2>1 DEF ListsOK
<1>18. OrderOK'
  <2> SUFFICES ASSUME NEW s \in Resource, NEW l \in Lists, NEW n \in DOMAIN ListOf(l)',
                      n[1] \in Reachable(content', sample'[s])
               PROVE  Order(s)' <= Order(l)'
    BY ZenonT(60) DEF OrderOK
  <2>1. Order(s)' = Order(s) /\ Order(l)' = Order(l)
    BY ZenonT(60), <1>1 DEF Order
  <2>2. s # r /\ n \in DOMAIN ListOf(l) /\ n[1] \in Reachable(content, sample[s])
    BY ZenonT(60), <1>5, <1>10, <1>14
  <2> QED
    BY ZenonT(60), <1>0, <2>1, <2>2 DEF OrderOK
<1>19. CronOK'
  <2>1. garbage'[active_resource_id'] = NoGarbage /\ sample'[wiping'] = EmptyStorage
    BY ZenonT(60), <1>1, <1>2 DEF CronOK
  <2>2. \A s \in Resource \ (dirty_inactive_resources' \cup {active_resource_id', wiping'}) :
          sample'[s] = EmptyStorage
    BY ZenonT(60), <1>1, <1>2, NoneIsNoResource DEF CronOK
  <2> QED
    BY ZenonT(60), <1>0, <1>1, <2>1, <2>2 DEF CronOK
<1> QED
  BY ZenonT(60), <1>11, <1>12, <1>17, <1>18, <1>19 DEF DataOK

\* Publish gives the active sample the list of the map being updated, and the next sample
\* none.
Source(l) == IF l = active_resource_id THEN None ELSE l

Published(next) ==
  /\ \A s \in Resource : sample'[s] = IF s = next THEN updating ELSE sample[s]
  /\ \A l \in {None, next} : DOMAIN ListOf(l)' = {}
  /\ \A l \in Lists \ {None, next} : ListOf(l)' = ListOf(Source(l))
  /\ \A l \in Lists : IsGarbage(ListOf(l))'

\* What reset and save_garbage leave in the samples and in the lists.
LEMMA WhatIsPublished ==
  ASSUME ResourceInv, PlainTypeOK, DataOK, CronOK, Publish, NEW next,
         next = get_next_inactive_resource_id
  PROVE  /\ next \in Resource /\ next # active_resource_id
         /\ Published(next)
<1>1. next \in Resource /\ next # active_resource_id /\ active_resource_id \in Resource
  BY ZenonT(60), NextIsAnother DEF ResourceInv, get_next_inactive_resource_id
<1>2. /\ sample' = [sample EXCEPT ![next] = updating]
      /\ garbage' = [save_garbage EXCEPT ![next] = NoGarbage]
      /\ updating_garbage' = NoGarbage
      /\ DOMAIN sample = Resource /\ DOMAIN garbage = Resource
  BY ZenonT(60) DEF Publish, PlainTypeOK
<1>3. \A s \in Resource : sample'[s] = IF s = next THEN updating ELSE sample[s]
  BY ZenonT(60), <1>2
<1>4. \A s \in Resource : garbage'[s] = IF s = next THEN NoGarbage
                                        ELSE IF s = active_resource_id THEN updating_garbage
                                        ELSE garbage[s]
  <2>1. /\ DOMAIN save_garbage = Resource
        /\ \A s \in Resource : save_garbage[s] = IF s = active_resource_id THEN updating_garbage
                                                 ELSE garbage[s]
    BY ZenonT(60), <1>2 DEF save_garbage
  <2> QED
    BY ZenonT(60), <1>2, <2>1
<1>5. ListOf(None)' = NoGarbage /\ ListOf(next)' = NoGarbage
  BY ZenonT(60), <1>1, <1>2, <1>4, NoneIsNoResource DEF ListOf
<1>6. \A l \in Lists \ {None, next} : ListOf(l)' = ListOf(Source(l)) /\ Source(l) \in Lists
  BY ZenonT(60), <1>1, <1>4, NoneIsNoResource DEF ListOf, Source, Lists
<1>7. \A l \in Lists : IsGarbage(ListOf(l))'
  <2> SUFFICES ASSUME NEW l \in Lists PROVE IsGarbage(ListOf(l))'
    BY ZenonT(60)
  <2>1. CASE l \in {None, next}
    BY ZenonT(60), <1>5, <2>1 DEF NoGarbage, IsGarbage
  <2>2. CASE l \notin {None, next}
    <3>1. IsGarbage(ListOf(Source(l))) /\ ListOf(l)' = ListOf(Source(l))
      BY ZenonT(60), <1>6, <2>2 DEF DataOK, ListsOK
    <3> QED
      BY ZenonT(60), <3>1 DEF IsGarbage
  <2> QED
    BY <2>1, <2>2
<1>8. \A l \in {None, next} : DOMAIN ListOf(l)' = {}
  BY ZenonT(60), <1>5 DEF NoGarbage
<1> QED
  BY ZenonT(60), <1>1, <1>3, <1>6, <1>7, <1>8 DEF Published

\* No other sample and not the map being updated refer to what is destroyed.
LEMMA ResetAlone ==
  ASSUME ResourceInv, DataOK, CronOK, Publish, NEW next,
         next = get_next_inactive_resource_id, next \in Resource
  PROVE  /\ \A s \in Resource \ {next} : \A c \in Reachable(content, sample[s]) : c \notin Destroyed(next)
         /\ \A c \in Reachable(content, updating) : c \notin Destroyed(next)
<1>0. ListsOK /\ OrderOK /\ ~switching /\ Newest = updating
  BY ZenonT(60), ResetOrder DEF DataOK, Publish, MasterGoto, CronOK
<1>1. \A c : c \in Destroyed(next) <=> \E n \in DOMAIN ListOf(next) : n[1] = c
  BY ZenonT(60), <1>0, DestroyedCells
<1>2. ASSUME NEW c \in Reachable(content, updating), c \in Destroyed(next) PROVE FALSE
  <2>1. \A n \in DOMAIN ListOf(next) : n[1] \notin Reachable(content, updating)
    BY ZenonT(60), <1>0 DEF ListsOK, NodeOK, Lists
  <2> QED
    BY ZenonT(60), <1>1, <1>2, <2>1
<1>3. ASSUME NEW s \in Resource \ {next}, NEW c \in Reachable(content, sample[s]), c \in Destroyed(next)
      PROVE  FALSE
  <2>1. PICK n \in DOMAIN ListOf(next) : n[1] = c
    BY ZenonT(60), <1>1, <1>3
  <2>2. Order(s) <= Order(next)
    BY ZenonT(60), <1>0, <2>1 DEF OrderOK, Lists
  <2>3. /\ Order(s) \in 1 .. ResourceAmount /\ Order(next) = 1
        /\ Order(s) # 1
    BY ZenonT(60), <1>0, OrderOfTheRing
  <2> QED
    BY SMTT(60), <2>2, <2>3, ResourceAssumption
<1> QED
  BY ZenonT(60), <1>2, <1>3

\* finish_confdata_update and reset of the next sample.
LEMMA PublishKeeps ==
  ASSUME ResourceInv, PlainTypeOK, DataOK, CronOK, Publish
  PROVE  DataOK' /\ CronOK'
<1> DEFINE next == get_next_inactive_resource_id
<1>0. /\ HeapOK /\ MapsOK /\ ListsOK /\ OrderOK
      /\ BeginReset /\ destroy_garbage(next)
      /\ constants' = (constants \cup Reachable(content, updating)) \ Destroyed(next)
      /\ updating' = EmptyStorage /\ updating_garbage' = NoGarbage /\ ~has_any_updates'
      /\ master_pc' = "switch" /\ Newest = updating
  BY ZenonT(60) DEF DataOK, Publish, MasterGoto, CronOK
<1>1. next \in Resource /\ next # active_resource_id /\ Published(next)
  BY ZenonT(60), WhatIsPublished
<1> HIDE DEF next
<1>2. /\ ~switching /\ switching' /\ wiping = None /\ wiping' = next
      /\ active_resource_id' = active_resource_id
      /\ dirty_inactive_resources' = dirty_inactive_resources
      /\ \A r \in Resource : Order(r)' = IF r = next THEN ResourceAmount + 1 ELSE Order(r)
  <2>1. /\ switching' /\ wiping = None /\ wiping' = next
        /\ active_resource_id' = active_resource_id
        /\ dirty_inactive_resources' = dirty_inactive_resources
    BY ZenonT(60), <1>0 DEF BeginReset, ringVars, next
  <2>2. \A r \in Resource :
          ~switching /\ Order(r)' = IF r = next THEN ResourceAmount + 1 ELSE Order(r)
    BY ZenonT(60), <1>0, ResetOrder DEF next
  <2> QED
    BY ZenonT(60), <1>1, <2>1, <2>2
<1>3. /\ content' \in [Cell -> Array \cup {Free, Value}]
      /\ \A c \in Cell : c \notin Destroyed(next) => content'[c] = content[c]
      /\ \A storage : MapOK(content, storage) /\ (\A c \in Reachable(content, storage) : c \notin Destroyed(next))
           => MapOK(content', storage) /\ Reachable(content', storage) = Reachable(content, storage)
  BY ZenonT(60), <1>0, <1>1, DestroyKeeps
<1>4. \A c : c \in Destroyed(next) <=> \E n \in DOMAIN ListOf(next) : n[1] = c
  BY ZenonT(60), <1>0, <1>1, DestroyedCells
<1>5. /\ \A s \in Resource \ {next} : \A c \in Reachable(content, sample[s]) : c \notin Destroyed(next)
      /\ \A c \in Reachable(content, updating) : c \notin Destroyed(next)
  BY ZenonT(60), <1>1, ResetAlone DEF next
<1>6. ASSUME NEW s \in Resource, s # next
      PROVE  MapOK(content', sample'[s]) /\ Reachable(content', sample'[s]) = Reachable(content, sample[s])
  <2>1. MapOK(content, sample[s]) /\ sample'[s] = sample[s]
    BY ZenonT(60), <1>0, <1>1, <1>6 DEF MapsOK, SamplesOK, Published
  <2> QED
    BY ZenonT(60), <1>3, <1>5, <1>6, <2>1
<1>7. /\ sample'[next] = updating /\ Newest' = updating
      /\ MapOK(content', updating) /\ Reachable(content', updating) = Reachable(content, updating)
  <2>1. sample'[next] = updating /\ Newest' = updating
    BY ZenonT(60), <1>0, <1>1, <1>2 DEF Newest, Published
  <2> QED
    BY ZenonT(60), <1>0, <1>3, <1>5, <2>1 DEF MapsOK, SamplesOK
<1>8. \A c \in Reachable(content, updating) : c \in Cell /\ content[c] # Free
  BY ZenonT(60), <1>0, ReachableCells, MapIsWhole DEF MapsOK, SamplesOK, Refers
<1>9. HeapOK'
  <2>1. \A c \in constants' : c \in Cell /\ c \notin Destroyed(next) /\ content[c] # Free
    BY ZenonT(60), <1>0, <1>8 DEF HeapOK
  <2> QED
    BY ZenonT(60), <1>3, <2>1 DEF HeapOK
<1>10. MapsOK'
  <2>1. ASSUME NEW s \in Resource
        PROVE  MapOK(content', sample'[s]) /\ Reachable(content', sample'[s]) \subseteq constants'
    <3>1. CASE s = next
      BY ZenonT(60), <1>0, <1>5, <1>7, <3>1
    <3>2. CASE s # next
      BY ZenonT(60), <1>0, <1>5, <1>6, <3>2 DEF MapsOK, SamplesOK
    <3> QED
      BY <3>1, <3>2
  <2> QED
    BY ZenonT(60), <1>0, <2>1, EmptyMap DEF MapsOK, SamplesOK
<1>11. \A l \in Lists : \A n \in DOMAIN ListOf(l)' :
         /\ l # None /\ l # next /\ ListOf(l)' = ListOf(Source(l))
         /\ Source(l) \in Lists /\ Source(l) # next
         /\ n \in DOMAIN ListOf(Source(l))
  <2> SUFFICES ASSUME NEW l \in Lists, NEW n \in DOMAIN ListOf(l)'
               PROVE  /\ l # None /\ l # next /\ ListOf(l)' = ListOf(Source(l))
                      /\ Source(l) \in Lists /\ Source(l) # next
                      /\ n \in DOMAIN ListOf(Source(l))
    BY ZenonT(60)
  <2>1. l # None /\ l # next
    BY ZenonT(60), <1>1 DEF Published
  <2>2. ListOf(l)' = ListOf(Source(l))
    BY ZenonT(60), <1>1, <2>1 DEF Published
  <2>3. Source(l) \in Lists /\ Source(l) # next
    BY ZenonT(60), <1>1, <2>1, NoneIsNoResource DEF Source, Lists
  <2> QED
    BY ZenonT(60), <2>1, <2>2, <2>3
<1>12. ASSUME NEW l \in Lists, NEW n \in DOMAIN ListOf(l)'
       PROVE  NodeOK(l, n)'
  <2>1. /\ ListOf(l)' = ListOf(Source(l)) /\ Source(l) \in Lists /\ Source(l) # next
        /\ n \in DOMAIN ListOf(Source(l))
    BY ZenonT(60), <1>11
  <2>2. NodeOK(Source(l), n)
    BY ZenonT(60), <1>0, <2>1 DEF ListsOK
  <2>3. n[1] \notin Destroyed(next)
    <3>1. ASSUME NEW o \in DOMAIN ListOf(next) PROVE n[1] # o[1]
      <4>1. next \in Lists
        BY ZenonT(60), <1>1 DEF Lists
      <4> QED
        BY ZenonT(60), <1>0, <2>1, <4>1 DEF ListsOK
    <3> QED
      BY ZenonT(60), <1>4, <3>1
  <2>4. n[1] \in constants' /\ content'[n[1]] = content[n[1]]
    BY ZenonT(60), <1>0, <1>3, <2>2, <2>3 DEF NodeOK, HeapOK
  <2> QED
    BY ZenonT(60), <1>0, <1>7, <2>1, <2>2, <2>4 DEF NodeOK
<1>13. ASSUME NEW l \in Lists, NEW m \in Lists, NEW n \in DOMAIN ListOf(l)',
              NEW o \in DOMAIN ListOf(m)', n[1] = o[1]
       PROVE  l = m /\ n = o
  <2>1. /\ Source(l) \in Lists /\ n \in DOMAIN ListOf(Source(l)) /\ l # None
        /\ Source(m) \in Lists /\ o \in DOMAIN ListOf(Source(m)) /\ m # None
    BY ZenonT(60), <1>11
  <2>2. Source(l) = Source(m) /\ n = o
    BY ZenonT(60), <1>0, <1>13, <2>1 DEF ListsOK
  <2> QED
    BY ZenonT(60), <2>1, <2>2 DEF Source
<1>14. ASSUME NEW c \in constants', c \notin Reachable(content', Newest')
       PROVE  Listed(c)'
  <2>1. c \in constants /\ c \notin Destroyed(next) /\ c \notin Reachable(content, Newest)
    BY ZenonT(60), <1>0, <1>7, <1>14
  <2>2. PICK l \in Lists : \E n \in DOMAIN ListOf(l) : n[1] = c
    BY ZenonT(60), <1>0, <2>1 DEF ListsOK, Listed
  <2>3. l # next
    BY ZenonT(60), <1>4, <2>1, <2>2
  <2>4. l # active_resource_id
    <3>1. SUFFICES ASSUME l = active_resource_id PROVE FALSE
      OBVIOUS
    <3>2. ListOf(l) = NoGarbage
      BY ZenonT(60), <1>2, <3>1, NoneIsNoResource DEF CronOK, ListOf, ResourceInv
    <3> QED
      BY ZenonT(60), <2>2, <3>2 DEF NoGarbage
  <2>5. PICK a \in Lists \ {None, next} : a = active_resource_id
    BY ZenonT(60), <1>1, NoneIsNoResource DEF ResourceInv, Lists
  <2>6. CASE l = None
    <3>1. ListOf(a)' = ListOf(Source(a)) /\ Source(a) = None
      BY ZenonT(60), <1>1, <2>5 DEF Published, Source
    <3> QED
      BY ZenonT(60), <2>2, <2>6, <3>1 DEF Listed
  <2>7. CASE l # None
    <3>1. ListOf(l)' = ListOf(l)
      BY ZenonT(60), <1>1, <2>3, <2>4, <2>7 DEF Published, Source
    <3> QED
      BY ZenonT(60), <2>2, <3>1 DEF Listed
  <2> QED
    BY <2>6, <2>7
<1>15. ListsOK'
  BY ZenonT(60), <1>1, <1>12, <1>13, <1>14 DEF ListsOK, Published
<1>16. OrderOK'
  <2> SUFFICES ASSUME NEW s \in Resource, NEW l \in Lists, NEW n \in DOMAIN ListOf(l)',
                      n[1] \in Reachable(content', sample'[s])
               PROVE  Order(s)' <= Order(l)'
    BY ZenonT(60) DEF OrderOK
  <2>1. /\ Source(l) \in Lists /\ n \in DOMAIN ListOf(Source(l)) /\ l # None /\ l # next
        /\ l \in Resource
    BY ZenonT(60), <1>11 DEF Lists
  <2>2. n[1] \notin Reachable(content, updating)
    BY ZenonT(60), <1>0, <2>1 DEF ListsOK, NodeOK
  <2>3. s # next
    BY ZenonT(60), <1>7, <2>2
  <2>4. Order(s)' = Order(s) /\ Order(l)' = Order(l)
    BY ZenonT(60), <1>2, <2>1, <2>3
  <2>5. CASE l = active_resource_id
    <3>1. Order(l) = ResourceAmount /\ Order(s) \in 1 .. ResourceAmount
      BY ZenonT(60), <1>2, <2>5, OrderOfTheRing
    <3> QED
      BY SMTT(60), <2>4, <3>1, ResourceAssumption
  <2>6. CASE l # active_resource_id
    <3>1. Source(l) = l /\ n[1] \in Reachable(content, sample[s])
      BY ZenonT(60), <1>6, <2>3, <2>6 DEF Source
    <3> QED
      BY ZenonT(60), <1>0, <2>1, <2>4, <3>1 DEF OrderOK
  <2> QED
    BY <2>5, <2>6
<1>17. CronOK'
  <2>1. garbage'[wiping'] = NoGarbage
    BY ZenonT(60), <1>1, <1>2 DEF Publish, PlainTypeOK, save_garbage, next
  <2>2. \A r \in Resource \ (dirty_inactive_resources' \cup {active_resource_id', wiping'}) :
          sample'[r] = EmptyStorage
    BY ZenonT(60), <1>1, <1>2, NoneIsNoResource DEF CronOK, Published
  <2> QED
    BY ZenonT(60), <1>0, <1>2, <2>1, <2>2 DEF CronOK
<1> QED
  BY ZenonT(60), <1>9, <1>10, <1>15, <1>16, <1>17 DEF DataOK

\* The sample that was reset becomes the active one.
LEMMA SwitchKeeps ==
  ASSUME ResourceInv, DataOK, CronOK, Switch
  PROVE  DataOK' /\ CronOK'
<1>0. /\ EndReset /\ master_pc = "switch" /\ master_pc' = "clear"
      /\ content' = content /\ constants' = constants /\ sample' = sample /\ garbage' = garbage
      /\ updating' = updating /\ updating_garbage' = updating_garbage
      /\ has_any_updates' = has_any_updates
  BY ZenonT(60) DEF Switch, MasterGoto, dataVars, heapVars, sampleVars, replayVars
<1>1. /\ switching /\ wiping \in Resource /\ active_resource_id' = wiping
      /\ ~switching' /\ wiping' = None
      /\ dirty_inactive_resources' = (dirty_inactive_resources \cup {active_resource_id}) \ {wiping}
  BY ZenonT(60), <1>0, NextIsAnother
     DEF EndReset, switch_active_to_next, ResourceInv, get_next_inactive_resource_id
<1>2. updating = EmptyStorage /\ ~has_any_updates /\ garbage[wiping] = NoGarbage
  BY ZenonT(60), <1>1 DEF CronOK
<1>3. Newest' = Newest
  BY ZenonT(60), <1>0, <1>1, <1>2 DEF Newest
<1>4. ASSUME NEW r \in Resource, NEW l \in Lists, Order(r) <= Order(l)
      PROVE  Order(r)' <= Order(l)'
  <2>1. Order(r)' = Order(r) - 1 /\ Order(r) \in 1 .. ResourceAmount + 1
    BY ZenonT(60), <1>0, SwitchKeepsOrder, OrderBounds
  <2>2. CASE l = None
    <3>1. Order(l)' = ResourceAmount + 2
      BY ZenonT(60), <2>2 DEF Order
    <3> QED
      BY SMTT(60), <2>1, <3>1, ResourceAssumption
  <2>3. CASE l \in Resource
    <3>1. Order(l)' = Order(l) - 1 /\ Order(l) \in 1 .. ResourceAmount + 1
      BY ZenonT(60), <1>0, <2>3, SwitchKeepsOrder, OrderBounds
    <3> QED
      BY SMTT(60), <1>4, <2>1, <3>1, ResourceAssumption
  <2> QED
    BY ZenonT(60), <2>2, <2>3 DEF Lists
<1>5. DataOK'
  <2>1. UNCHANGED <<heapVars, sampleVars, updating_garbage>> /\ MapOK(content, updating')
    BY ZenonT(60), <1>0 DEF heapVars, sampleVars, DataOK, MapsOK, SamplesOK
  <2> QED
    BY ZenonT(60), <1>3, <1>4, <2>1, DataFrame
<1>6. CronOK'
  <2>1. \A r \in Resource \ (dirty_inactive_resources' \cup {active_resource_id', wiping'}) :
          sample'[r] = EmptyStorage
    BY ZenonT(60), <1>0, <1>1 DEF CronOK
  <2> QED
    BY ZenonT(60), <1>0, <1>1, <1>2, <2>1 DEF CronOK
<1> QED
  BY <1>5, <1>6

\* The end of clearing a dirty sample.
LEMMA ClearedKeeps ==
  ASSUME ResourceInv, DataOK, CronOK, SampleIsCleared
  PROVE  DataOK' /\ CronOK'
<1>0. /\ EndClear /\ master_pc = "clear" /\ master_pc' = "clear"
      /\ content' = content /\ constants' = constants /\ sample' = sample /\ garbage' = garbage
      /\ updating' = updating /\ updating_garbage' = updating_garbage
      /\ has_any_updates' = has_any_updates
  BY ZenonT(60) DEF SampleIsCleared, MasterGoto, dataVars, heapVars, sampleVars, replayVars
<1>1. /\ ~switching /\ ~switching' /\ wiping' = None /\ wiping # None
      /\ active_resource_id' = active_resource_id
      /\ dirty_inactive_resources' = dirty_inactive_resources \ {wiping}
  BY ZenonT(60), <1>0 DEF EndClear
<1>2. Newest' = Newest
  BY ZenonT(60), <1>0, <1>1 DEF Newest
<1>3. \A l : Order(l)' = Order(l)
  BY ZenonT(60), <1>1 DEF Order
<1>4. DataOK'
  <2>1. UNCHANGED <<heapVars, sampleVars, updating_garbage>> /\ MapOK(content, updating')
    BY ZenonT(60), <1>0 DEF heapVars, sampleVars, DataOK, MapsOK, SamplesOK
  <2> QED
    BY ZenonT(60), <1>2, <1>3, <2>1, DataFrame
<1>5. CronOK'
  <2>1. sample[wiping] = EmptyStorage
    BY ZenonT(60), <1>1 DEF CronOK
  <2>2. \A r \in Resource \ (dirty_inactive_resources' \cup {active_resource_id', wiping'}) :
          sample'[r] = EmptyStorage
    BY ZenonT(60), <1>0, <1>1, <2>1 DEF CronOK
  <2> QED
    BY ZenonT(60), <1>0, <1>1, <2>2 DEF CronOK
<1> QED
  BY <1>4, <1>5

\* try_use_previous_confdata_storage_as_init: the map being updated becomes the newest one.
LEMMA StartKeeps ==
  ASSUME ResourceInv, DataOK, CronOK, StartCycle
  PROVE  DataOK' /\ CronOK'
<1>0. /\ master_pc = "idle" /\ master_pc' = "read"
      /\ content' = content /\ constants' = constants /\ sample' = sample /\ garbage' = garbage
      /\ updating_garbage' = updating_garbage /\ has_any_updates' = has_any_updates
      /\ active_resource_id' = active_resource_id /\ wiping' = wiping /\ switching' = switching
      /\ dirty_inactive_resources' = dirty_inactive_resources
      /\ updating' = IF ~has_any_updates /\ updating = EmptyStorage
                       THEN sample[active_resource_id] ELSE updating
  BY ZenonT(60) DEF StartCycle, MasterGoto, heapVars, sampleVars, resourceVars, ringVars
<1>1. Newest' = Newest /\ Newest' = updating'
  BY ZenonT(60), <1>0 DEF Newest
<1>2. \A l : Order(l)' = Order(l)
  BY ZenonT(60), <1>0 DEF Order
<1>3. DataOK'
  <2>1. UNCHANGED <<heapVars, sampleVars, updating_garbage>>
    BY ZenonT(60), <1>0 DEF heapVars, sampleVars
  <2>2. MapOK(content, updating')
    BY ZenonT(60), <1>0 DEF DataOK, MapsOK, SamplesOK, ResourceInv
  <2> QED
    BY ZenonT(60), <1>1, <1>2, <2>1, <2>2, DataFrame
<1>4. CronOK'
  BY ZenonT(60), <1>0, <1>1 DEF CronOK
<1> QED
  BY <1>3, <1>4

\* An entry without a value adds nothing to the map.
LEMMA RefusalKeepsTheMap ==
  ASSUME MapOK(content, updating), NEW k \in Key, NEW storage,
         updating[FirstPlace(k)] = Absent,
         storage = [updating EXCEPT ![FirstPlace(k)] = IF k \in Simple THEN Null ELSE Empty]
  PROVE  /\ MapOK(content, storage) /\ storage # EmptyStorage
         /\ Reachable(content, storage) = Reachable(content, updating)
<1> DEFINE place == FirstPlace(k)
           entry == IF k \in Simple THEN Null ELSE Empty
<1>0. /\ place \in FirstKey /\ entry \in {Null, Empty} /\ updating[place] = Absent
      /\ Cell \cap {Absent, Null, Empty} = {} /\ Absent \notin {Null, Empty}
      /\ updating \in Storage /\ storage = [updating EXCEPT ![place] = entry]
  <2>1. place \in FirstKey
    BY ZenonT(60), PlacesAre, FirstIsASection DEF FirstKey, Key
  <2> QED
    BY ZenonT(60), <2>1, ConfdataAssumption DEF MapOK
<1> HIDE DEF place, entry
<1>1. /\ storage \in Storage
      /\ \A f \in FirstKey : storage[f] = IF f = place THEN entry ELSE updating[f]
  BY SMTT(60), <1>0 DEF Storage
<1>2. storage # EmptyStorage
  <2>1. storage[place] # Absent /\ EmptyStorage[place] = Absent
    BY ZenonT(60), <1>0, <1>1 DEF EmptyStorage
  <2> QED
    BY ZenonT(60), <2>1
<1>3. \A f \in FirstKey : \A c \in Cell : storage[f] = c <=> updating[f] = c
  BY ZenonT(60), <1>0, <1>1
<1>4. \A f \in Section : /\ ArrayOf(content, storage, f) = ArrayOf(content, updating, f)
                         /\ storage[f] \in Cell <=> updating[f] \in Cell
                         /\ storage[f] \in Cell => storage[f] = updating[f]
  <2> TAKE f \in Section
  <2>1. \A c \in Cell : storage[f] = c <=> updating[f] = c
    BY ZenonT(60), <1>3 DEF FirstKey
  <2>2. /\ storage[f] \in Cell <=> updating[f] \in Cell
        /\ storage[f] \in Cell => storage[f] = updating[f]
    BY ZenonT(60), <2>1
  <2>3. ArrayOf(content, storage, f) = ArrayOf(content, updating, f)
    <3>1. CASE storage[f] \in Cell
      BY SMTT(60), <2>2, <3>1 DEF ArrayOf
    <3>2. CASE storage[f] \notin Cell
      BY ZenonT(60), <2>2, <3>2 DEF ArrayOf
    <3> QED
      BY ZenonT(60), <3>1, <3>2
  <2> QED
    BY ZenonT(60), <2>2, <2>3
<1>5. \A j \in Key : \A c \in Cell : Val(content, storage, j) = c <=> Val(content, updating, j) = c
  <2> TAKE j \in Key
  <2>1. CASE j \in Simple
    BY ZenonT(60), <1>3, <2>1 DEF Val, FirstKey
  <2>2. CASE j \notin Simple
    <3>1. FirstPlace(j) \in Section
      BY ZenonT(60), <2>2, FirstIsASection DEF Key
    <3>2. ArrayOf(content, storage, FirstPlace(j)) = ArrayOf(content, updating, FirstPlace(j))
      BY ZenonT(60), <1>4, <3>1
    <3> QED
      BY ZenonT(60), <2>2, <3>2 DEF Val
  <2> QED
    BY ZenonT(60), <2>1, <2>2
<1>6. MapOK(content, storage)
  <2>1. \A j \in Key : /\ Val(content, storage, j) \in Cell <=> Val(content, updating, j) \in Cell
                       /\ Val(content, storage, j) \in Cell => Val(content, storage, j) = Val(content, updating, j)
    BY ZenonT(60), <1>5
  <2>2. \A f \in Section : storage[f] \in Cell => content[storage[f]] \in Array
    BY ZenonT(60), <1>4 DEF MapOK
  <2>3. \A f, g \in Section : storage[f] = storage[g] /\ storage[f] \in Cell => f = g
    BY ZenonT(60), <1>4 DEF MapOK
  <2>4. \A j \in Dotted, f \in Section :
       IF f \in Sections(j) /\ Val(content, storage, j) \in Cell
         THEN /\ j \in DOMAIN ArrayOf(content, storage, f)
              /\ ArrayOf(content, storage, f)[j] = Val(content, storage, j)
         ELSE j \notin DOMAIN ArrayOf(content, storage, f)
    <3> TAKE j \in Dotted, f \in Section
    <3>1. ArrayOf(content, storage, f) = ArrayOf(content, updating, f)
      BY ZenonT(60), <1>4
    <3>2. /\ Val(content, storage, j) \in Cell <=> Val(content, updating, j) \in Cell
          /\ Val(content, storage, j) \in Cell => Val(content, storage, j) = Val(content, updating, j)
      BY ZenonT(60), <2>1 DEF Key
    <3> QED
      BY ZenonT(60), <3>1, <3>2 DEF MapOK
  <2>5. \A j \in Key : Val(content, storage, j) \in Cell => content[Val(content, storage, j)] = Value
    BY ZenonT(60), <2>1 DEF MapOK
  <2>6. \A i, j \in Key :
          Val(content, storage, i) = Val(content, storage, j) /\ Val(content, storage, i) \in Cell => i = j
    BY ZenonT(60), <2>1 DEF MapOK
  <2> QED
    BY ZenonT(60), <1>1, <2>2, <2>3, <2>4, <2>5, <2>6 DEF MapOK
<1>7. ASSUME NEW c PROVE c \in Reachable(content, storage) <=> c \in Reachable(content, updating)
  <2>1. c \in Reachable(content, storage) <=> Refers(content, storage, c)
    BY ZenonT(60), <1>6, ReachableCells
  <2>2. c \in Reachable(content, updating) <=> Refers(content, updating, c)
    BY ZenonT(60), ReachableCells
  <2> QED
    BY ZenonT(60), <1>3, <1>5, <2>1, <2>2 DEF Refers, FirstKey
<1> QED
  BY ZenonT(60), <1>2, <1>6, <1>7

\* A store that leaves a new entry in the map without a value.
LEMMA RefusalKeeps ==
  ASSUME ResourceInv, DataOK, CronOK, NEW k \in Key,
         master_pc = "read", master_pc' = "read", updating[FirstPlace(k)] = Absent,
         updating' = [updating EXCEPT ![FirstPlace(k)] = IF k \in Simple THEN Null ELSE Empty],
         UNCHANGED <<heapVars, sampleVars, updating_garbage, has_any_updates>>,
         UNCHANGED resourceVars
  PROVE  DataOK' /\ CronOK'
<1>0. /\ UNCHANGED <<heapVars, sampleVars, updating_garbage>>
      /\ active_resource_id' = active_resource_id /\ wiping' = wiping /\ switching' = switching
      /\ dirty_inactive_resources' = dirty_inactive_resources
  BY ZenonT(60) DEF resourceVars, ringVars
<1>1. /\ MapOK(content, updating') /\ updating' # EmptyStorage
      /\ Reachable(content, updating') = Reachable(content, updating)
  BY ZenonT(60), <1>0, RefusalKeepsTheMap DEF DataOK, MapsOK
<1>2. Newest' = updating' /\ Newest = updating
  BY ZenonT(60), <1>0, <1>1 DEF Newest, CronOK
<1>3. \A l : Order(l)' = Order(l)
  BY ZenonT(60), <1>0 DEF Order
<1>4. DataOK'
  BY ZenonT(60), <1>0, <1>1, <1>2, <1>3, DataFrame
<1>5. ~switching
  BY ZenonT(60), <1>0 DEF CronOK
<1>6. CronOK'
  BY ZenonT(60), <1>0, <1>2, <1>5 DEF CronOK, sampleVars
<1> QED
  BY <1>4, <1>6

\* An event or an expiration that writes all copies of a key.
LEMMA WriteKeeps ==
  ASSUME ResourceInv, DataOK, CronOK, NEW k \in Key, NEW v \in FreeCells \cup {Absent},
         PutElement(k, v, Range(Places(k))), has_any_updates' = TRUE, UNCHANGED resourceVars,
         master_pc \in {"read", "expire"}, master_pc' \in {"read", "expire"}
  PROVE  DataOK' /\ CronOK'
<1>0. /\ master_pc # "switch" /\ master_pc' # "switch" /\ Newest = updating /\ ~switching
      /\ sample' = sample /\ garbage' = garbage
      /\ active_resource_id' = active_resource_id /\ wiping' = wiping /\ switching' = switching
      /\ dirty_inactive_resources' = dirty_inactive_resources
  BY ZenonT(60) DEF CronOK, PutElement, sampleVars, resourceVars, ringVars
<1>1. DataOK' /\ Newest' = updating'
  BY ZenonT(60), <1>0, PutKeeps
<1>2. CronOK'
  BY ZenonT(60), <1>0, <1>1 DEF CronOK
<1> QED
  BY <1>1, <1>2

\* Whole maps and lists are more than an event that is cut off leaves.
LEMMA DataIsCutOK == (DataOK => CutOK) /\ (DataOK' => CutOK')
<1>1. DataOK => CutOK
  BY ZenonT(60) DEF DataOK, CutOK, MapsOK, MapOK, ListsOK, ReplayTypeOK
<1>2. DataOK' => CutOK'
  BY ZenonT(60) DEF DataOK, CutOK, MapsOK, MapOK, ListsOK, ReplayTypeOK
<1> QED
  BY <1>1, <1>2

\* A list with more nodes.
LEMMA NodesAreGarbage ==
  ASSUME NEW list, IsGarbage(list), NEW nodes, nodes \subseteq GarbageNode
  PROVE  IsGarbage(WithNodes(list, nodes))
<1> DEFINE new == WithNodes(list, nodes)
<1>1. /\ new = [n \in DOMAIN list \cup nodes |-> Times(n, list) + (IF n \in nodes THEN 1 ELSE 0)]
      /\ DOMAIN list \subseteq GarbageNode /\ \A n \in DOMAIN list : list[n] \in Nat \ {0}
  BY ZenonT(60) DEF IsGarbage, WithNodes
<1>2. ASSUME NEW n \in DOMAIN list \cup nodes
      PROVE  Times(n, list) + (IF n \in nodes THEN 1 ELSE 0) \in Nat \ {0}
  <2>1. CASE n \in DOMAIN list
    <3>1. Times(n, list) = list[n] /\ list[n] \in Nat \ {0}
      BY ZenonT(60), <1>1, <2>1 DEF Times
    <3> QED
      BY SMTT(60), <3>1
  <2>2. CASE n \notin DOMAIN list
    <3>1. Times(n, list) = 0 /\ n \in nodes
      BY ZenonT(60), <2>2 DEF Times
    <3> QED
      BY SMTT(60), <3>1
  <2> QED
    BY <2>1, <2>2
<1>3. DOMAIN new = DOMAIN list \cup nodes /\ new \in [DOMAIN list \cup nodes -> Nat \ {0}]
  BY ZenonT(60), <1>1, <1>2
<1> HIDE DEF new
<1>4. DOMAIN new \subseteq GarbageNode /\ new \in [DOMAIN new -> Nat \ {0}]
  BY ZenonT(60), <1>1, <1>3
<1> QED
  BY ZenonT(60), <1>4 DEF new, IsGarbage

\* Writing some copies of a key leaves the samples alone.
LEMMA PartKeeps ==
  ASSUME DataOK, NEW k \in Key, NEW v \in FreeCells \cup {Absent},
         NEW places, places \subseteq Range(Places(k)), PutElement(k, v, places)
  PROVE  /\ CutOK' /\ sample' = sample
         /\ \A c \in constants : content'[c] = content[c]
<1> DEFINE sections == places \cap Section
           cells == Allocation(sections, FreeCells \ {v})
           kept == {f \in sections : DOMAIN ArrayWith(k, v, f) # {}}
           storage == StorageWith(k, v, sections, kept, cells)
           heap == HeapWith(k, v, kept, cells)
<1>0. /\ content \in [Cell -> Array \cup {Free, Value}] /\ constants \subseteq Cell
      /\ \A c \in constants : content[c] # Free
      /\ SamplesOK /\ updating \in Storage /\ \A l \in Lists : IsGarbage(ListOf(l))
      /\ MapOK(content, updating)
  BY ZenonT(60) DEF DataOK, MapsOK, MapOK, ListsOK, HeapOK
<1>1. /\ Injection(sections, FreeCells \ {v}) # {}
      /\ content' = Collected(heap, storage)
      /\ updating' = storage
      /\ updating_garbage' = GarbageWith(k, places)
      /\ UNCHANGED <<constants, sample, garbage>>
  BY ZenonT(60) DEF PutElement, sampleVars
<1>2. sections \subseteq Sections(k)
  BY ZenonT(60), PlacesAre
<1>3. cells \in Injection(sections, FreeCells \ {v})
  BY ZenonT(60), <1>1, AllocationFits
<1>4. Writes(k, v, sections, kept, cells, heap, storage)
  BY ZenonT(60), <1>2, <1>3 DEF Writes
<1>5. Written(k, v, sections, kept, cells, heap, storage)
  BY ZenonT(60), <1>0, <1>4, WhatIsWritten
<1> HIDE DEF cells, kept, storage, heap
<1>6. \A c \in Cell : content'[c] = IF c \in constants \cup Reachable(heap, storage)
                                     THEN heap[c] ELSE Free
  BY ZenonT(60), <1>1 DEF Collected
<1>7. \A c \in constants : content'[c] = content[c]
  BY ZenonT(60), <1>0, <1>5, <1>6 DEF Written, FreeCells
<1>8. \A c \in Cell : heap[c] \in Array \cup {Free, Value}
  <2>1. ASSUME NEW f \in kept PROVE ArrayWith(k, v, f) \in Array
    <3>1. f \in Section /\ k \in Dotted /\ v \in Cell \cup {Absent}
      BY ZenonT(60), <1>2, <1>5 DEF kept, FreeCells, Written
    <3> QED
      BY ZenonT(60), <1>0, <3>1, ArrayWithIsArray
  <2>2. \A c \in FreeCells : heap[c] \in {Free, Value} \cup {ArrayWith(k, v, f) : f \in kept}
    BY ZenonT(60), <1>5 DEF Written
  <2>3. \A c \in Cell \ FreeCells : heap[c] = content[c]
    BY ZenonT(60), <1>5 DEF Written
  <2> QED
    BY ZenonT(60), <1>0, <2>1, <2>2, <2>3
<1>9. content' \in [Cell -> Array \cup {Free, Value}]
  <2>1. \A c \in Cell : content'[c] \in Array \cup {Free, Value}
    BY ZenonT(60), <1>6, <1>8
  <2>2. content' = [c \in Cell |-> content'[c]]
    BY ZenonT(60), <1>1 DEF Collected
  <2> QED
    BY ZenonT(60), <2>1, <2>2
<1>10. HeapOK'
  BY ZenonT(60), <1>0, <1>1, <1>7, <1>9 DEF HeapOK
<1>11. SamplesOK'
  <2> SUFFICES ASSUME NEW r \in Resource
               PROVE  /\ MapOK(content', sample[r])
                      /\ Reachable(content', sample[r]) \subseteq constants
    BY ZenonT(60), <1>1 DEF SamplesOK
  <2>1. MapOK(content, sample[r]) /\ \A c \in Reachable(content, sample[r]) : content'[c] = content[c]
    BY ZenonT(60), <1>0, <1>7 DEF SamplesOK
  <2>2. MapOK(content', sample[r]) /\ Reachable(content', sample[r]) = Reachable(content, sample[r])
    BY ZenonT(60), <2>1, MapFrame
  <2> QED
    BY ZenonT(60), <1>0, <2>2 DEF SamplesOK
<1>12. ReplayTypeOK'
  <2>1. updating' \in Storage
    BY ZenonT(60), <1>1, <1>5 DEF Written
  <2>2. Added(k, places) \subseteq GarbageNode
    <3> SUFFICES ASSUME NEW n \in Added(k, places) PROVE n \in GarbageNode
      BY ZenonT(60)
    <3>1. \E c \in constants : n = <<c, "shallow_first">> \/ n = <<c, "deep_last">>
      BY ZenonT(60) DEF Added, ReplacedArrays, ReplacedValue, Node
    <3> QED
      BY SMTT(60), <1>0, <3>1 DEF GarbageNode
  <2>3. IsGarbage(updating_garbage)
    BY ZenonT(60), <1>0 DEF Lists, ListOf
  <2>4. IsGarbage(GarbageWith(k, places))
    BY ZenonT(60), <2>2, <2>3, NodesAreGarbage DEF GarbageWith, Added
  <2>5. \A l \in Lists : ListOf(l)' = IF l = None THEN updating_garbage' ELSE ListOf(l)
    BY ZenonT(60), <1>1 DEF ListOf
  <2>6. ASSUME NEW l \in Lists PROVE IsGarbage(ListOf(l))'
    <3>1. CASE l = None
      BY ZenonT(60), <1>1, <2>4, <3>1 DEF IsGarbage, ListOf
    <3>2. CASE l # None
      BY ZenonT(60), <1>0, <2>5, <3>2 DEF IsGarbage
    <3> QED
      BY <3>1, <3>2
  <2> QED
    BY ZenonT(60), <2>1, <2>6 DEF ReplayTypeOK
<1> QED
  BY ZenonT(60), <1>1, <1>7, <1>10, <1>11, <1>12 DEF CutOK

\* Steps of the cron that leave maps and lists alone.
LEMMA ControlKeeps ==
  ASSUME ResourceInv, DataOK, CronOK, UNCHANGED resourceVars, UNCHANGED heapVars,
         UNCHANGED sampleVars, UNCHANGED <<updating, updating_garbage, has_any_updates>>,
         \/ master_pc' = master_pc
         \/ master_pc \in {"read", "expire"} /\ master_pc' \in {"idle", "clear"}
         \/ master_pc = "clear" /\ master_pc' = "idle"
  PROVE  DataOK' /\ CronOK'
<1>1. UNCHANGED <<active_resource_id, dirty_inactive_resources, wiping, switching>>
  BY ZenonT(60) DEF resourceVars, ringVars
<1> QED
  BY ZenonT(60), <1>1, StillData

\* What an event comes to whose first copy is written.
Complete(k, v) ==
  /\ PutElement(k, v, Range(Places(k))) /\ has_any_updates' = TRUE
  /\ memory_status' = memory_status /\ aborted' = aborted /\ master_pc' \in {"read", "expire"}

CutOff(k, v) ==
  /\ \E places \in SUBSET Range(Places(k)) : PutElement(k, v, places)
  /\ memory_status' = "HARD_OOM" /\ master_pc' = "idle"

\* When the copies agree, the handler writes all of them or runs out of memory.
LEMMA CompleteOrCutOff ==
  ASSUME MapOK(content, updating), has_any_updates \in BOOLEAN, NEW k \in Key, NEW v, NEW status,
         NEW delays, NEW there \in {"read", "expire"},
         generic_operation(k, v, status, delays, there), NEW oom \in Nat,
         \A i \in DOMAIN Places(k) :
           status[i] = status[1] \/ (i = oom /\ status[i] = "out_of_memory")
  PROVE  Complete(k, v) \/ CutOff(k, v)
<1> DEFINE copies == DOMAIN Places(k)
           full == {i \in copies : \A h \in 1 .. i : status[h] = "full_update"}
           stop == {i \in copies \ full : \A h \in 1 .. i - 1 : status[h] = "full_update"}
           runs_out == \E i \in stop : status[i] = "out_of_memory"
           asserts == \E i \in stop : \/ status[i] \notin {"throttled_out", "out_of_memory"}
                                      \/ k \in TwoDots /\ i = Len(Places(k))
<1>0. /\ 1 \in full
      /\ PutElement(k, v, {Places(k)[i] : i \in full})
      /\ has_any_updates' = (has_any_updates \/ full = copies)
      /\ element_delays' \in IF full = copies THEN delays ELSE {element_delays}
      /\ memory_status' = IF runs_out THEN "HARD_OOM" ELSE memory_status
      /\ aborted' = IF asserts \/ ValuesDiffer(k, full) THEN "copies" ELSE aborted
      /\ master_pc' = IF runs_out THEN "idle" ELSE there
  BY ZenonT(60) DEF generic_operation
<1>1. copies = 1 .. Len(Places(k)) /\ Len(Places(k)) \in Nat
  BY ZenonT(60), PlacesAre
<1>2. status[1] = "full_update"
  <2>1. 1 \in 1 .. 1
    BY SMTT(60)
  <2> QED
    BY ZenonT(60), <1>0, <2>1
<1>3. \A i \in copies : status[i] = "full_update" \/ (i = oom /\ status[i] = "out_of_memory")
  BY ZenonT(60), <1>2
<1>4. ~ValuesDiffer(k, full)
  <2> SUFFICES ASSUME NEW h \in full, NEW i \in full, Has(k, Places(k)[h]), Has(k, Places(k)[i])
               PROVE  ValueAt(k, Places(k)[i]) = ValueAt(k, Places(k)[h])
    BY ZenonT(60) DEF ValuesDiffer
  <2>1. Places(k)[h] \in Range(Places(k)) /\ Places(k)[i] \in Range(Places(k))
    BY ZenonT(60) DEF Range
  <2> QED
    BY ZenonT(60), <2>1, CopiesAnswer
<1>5. CASE \A i \in copies : status[i] = "full_update"
  <2>1. \A i \in copies : \A h \in 1 .. i : h \in copies
    BY SMTT(60), <1>1
  <2>2. full = copies
    BY ZenonT(60), <1>5, <2>1
  <2>3. stop = {}
    BY ZenonT(60), <2>2
  <2>4. {Places(k)[i] : i \in full} = Range(Places(k))
    BY ZenonT(60), <2>2 DEF Range
  <2>5. ~runs_out /\ ~asserts
    BY ZenonT(60), <2>3
  <2> HIDE DEF copies, full, stop, runs_out, asserts
  <2>6. has_any_updates' = TRUE
    BY ZenonT(60), <1>0, <2>2
  <2> QED
    BY ZenonT(60), <1>0, <1>4, <2>2, <2>4, <2>5, <2>6 DEF Complete
<1>6. CASE \E i \in copies : status[i] # "full_update"
  <2>1. oom \in copies /\ status[oom] = "out_of_memory"
    BY ZenonT(60), <1>3, <1>6
  <2>2. status[oom] # "full_update"
    BY SMTT(60), <2>1
  <2>3. oom \in 1 .. oom
    BY SMTT(60), <1>1, <2>1
  <2>4. oom \notin full
    BY ZenonT(60), <2>2, <2>3
  <2>5. \A h \in 1 .. oom - 1 : h \in copies /\ h # oom
    BY SMTT(60), <1>1, <2>1
  <2>6. \A h \in 1 .. oom - 1 : status[h] = "full_update"
    BY ZenonT(60), <1>3, <2>5
  <2>7. oom \in stop
    BY ZenonT(60), <2>1, <2>4, <2>6
  <2>8. runs_out
    BY ZenonT(60), <2>1, <2>7
  <2>9. {Places(k)[i] : i \in full} \in SUBSET Range(Places(k))
    BY ZenonT(60) DEF Range
  <2> HIDE DEF copies, full, stop, runs_out, asserts
  <2> QED
    BY ZenonT(60), <1>0, <2>8, <2>9 DEF CutOff
<1> QED
  BY <1>5, <1>6

\* The answer to a store or a delete does not depend on the copy.
LEMMA AnswersAgree ==
  ASSUME MapOK(content, updating), NEW k \in Key,
         NEW f \in Range(Places(k)), NEW g \in Range(Places(k))
  PROVE  /\ DeleteStatus(k, f) = DeleteStatus(k, g)
         /\ \A operation, outdated, value :
              StoreStatus(k, f, operation, outdated, value) = StoreStatus(k, g, operation, outdated, value)
<1>1. /\ Has(k, f) <=> Has(k, g)
      /\ Has(k, f) => ValueAt(k, f) = ValueAt(k, g)
  BY ZenonT(60), CopiesAnswer
<1>2. CASE Has(k, f)
  BY ZenonT(60), <1>1, <1>2 DEF DeleteStatus, StoreStatus, can_element_be_saved
<1>3. CASE ~Has(k, f)
  BY ZenonT(60), <1>1, <1>3 DEF DeleteStatus, StoreStatus, can_element_be_saved
<1> QED
  BY <1>2, <1>3

\* The copies where memory may run out are not the first.
LEMMA FirstHasMemory ==
  ASSUME NEW k \in Key, NEW oom \in OutOfMemory(k)
  PROVE  oom \in Nat /\ oom # 1 /\ 1 \in DOMAIN Places(k)
<1>1. Len(Places(k)) \in Nat \ {0} /\ DOMAIN Places(k) = 1 .. Len(Places(k))
  BY ZenonT(60), PlacesAre
<1>2. oom \in {0} \cup 2 .. Len(Places(k))
  BY ZenonT(60) DEF OutOfMemory
<1> QED
  BY SMTT(60), <1>1, <1>2

\* A store with a new value writes all copies, or is cut off.
LEMMA StoreWrites ==
  ASSUME MapOK(content, updating), has_any_updates \in BOOLEAN, NEW k \in Key,
         NEW operation \in Operation, StoreNewValue(k, operation)
  PROVE  \E v \in FreeCells : Complete(k, v) \/ CutOff(k, v)
<1> DEFINE v == CHOOSE c \in FreeCells : TRUE
           Answer(i, oom, outdated, value) ==
             IF i = oom THEN "out_of_memory"
             ELSE StoreStatus(k, Places(k)[i], operation, outdated, value)
<1>1. v \in FreeCells
  BY ZenonT(60) DEF StoreNewValue
<1>2. PICK outdated \in Outdated(k), value \in EventValue(k), oom \in OutOfMemory(k) :
        generic_operation(k, v, [i \in DOMAIN Places(k) |-> Answer(i, oom, outdated, value)],
                          update_element_in_expiration_trace(k), "read")
  BY ZenonT(60) DEF StoreNewValue
<1> DEFINE status == [i \in DOMAIN Places(k) |-> Answer(i, oom, outdated, value)]
<1>3. oom \in Nat /\ oom # 1 /\ 1 \in DOMAIN Places(k)
  BY ZenonT(60), FirstHasMemory
<1>4. \A i \in DOMAIN Places(k) :
        status[i] = status[1] \/ (i = oom /\ status[i] = "out_of_memory")
  <2>1. \A i \in DOMAIN Places(k) : Places(k)[i] \in Range(Places(k))
    BY ZenonT(60) DEF Range
  <2>2. \A i \in DOMAIN Places(k) :
          StoreStatus(k, Places(k)[i], operation, outdated, value)
          = StoreStatus(k, Places(k)[1], operation, outdated, value)
    <3> SUFFICES ASSUME NEW i \in DOMAIN Places(k), NEW f, f = Places(k)[i], NEW g, g = Places(k)[1]
                 PROVE  StoreStatus(k, f, operation, outdated, value)
                        = StoreStatus(k, g, operation, outdated, value)
      BY ZenonT(60)
    <3>1. f \in Range(Places(k)) /\ g \in Range(Places(k))
      BY ZenonT(60), <1>3, <2>1
    <3>2. \A op, out, val : StoreStatus(k, f, op, out, val) = StoreStatus(k, g, op, out, val)
      BY ZenonT(60), <3>1, AnswersAgree
    <3> QED
      BY ZenonT(60), <3>2
  <2> QED
    BY ZenonT(60), <1>3, <2>2
<1>5. generic_operation(k, v, status, update_element_in_expiration_trace(k), "read")
  BY ZenonT(60), <1>2
<1> HIDE DEF v, status
<1> QED
  BY ZenonT(60), <1>1, <1>3, <1>4, <1>5, CompleteOrCutOff

\* So does a delete.
LEMMA DeleteWrites ==
  ASSUME MapOK(content, updating), has_any_updates \in BOOLEAN, NEW k \in Key,
         NEW there \in {"read", "expire"}, DeleteElement(k, there)
  PROVE  Complete(k, Absent) \/ CutOff(k, Absent)
<1> DEFINE Answer(i, oom) ==
             IF i = oom /\ updating[Places(k)[i]] \in constants THEN "out_of_memory"
             ELSE DeleteStatus(k, Places(k)[i])
<1>1. PICK oom \in OutOfMemory(k) :
        generic_operation(k, Absent, [i \in DOMAIN Places(k) |-> Answer(i, oom)],
                          {element_delays \ {k}}, there)
  BY ZenonT(60) DEF DeleteElement
<1> DEFINE status == [i \in DOMAIN Places(k) |-> Answer(i, oom)]
<1>2. oom \in Nat /\ oom # 1 /\ 1 \in DOMAIN Places(k)
  BY ZenonT(60), FirstHasMemory
<1>3. \A i \in DOMAIN Places(k) :
        status[i] = status[1] \/ (i = oom /\ status[i] = "out_of_memory")
  <2>1. \A i \in DOMAIN Places(k) : Places(k)[i] \in Range(Places(k))
    BY ZenonT(60) DEF Range
  <2>2. \A i \in DOMAIN Places(k) :
          DeleteStatus(k, Places(k)[i]) = DeleteStatus(k, Places(k)[1])
    BY ZenonT(60), <1>2, <2>1, AnswersAgree
  <2> QED
    BY ZenonT(60), <1>2, <2>2
<1>4. generic_operation(k, Absent, status, {element_delays \ {k}}, there)
  BY ZenonT(60), <1>1
<1> HIDE DEF status
<1> QED
  BY ZenonT(60), <1>2, <1>3, <1>4, CompleteOrCutOff

\* The ways in which an event ends.
WritesCopies(k, v) == (Complete(k, v) \/ CutOff(k, v)) /\ UNCHANGED resourceVars

NewEntry(k) ==
  /\ updating[FirstPlace(k)] = Absent
  /\ updating' = [updating EXCEPT ![FirstPlace(k)] = IF k \in Simple THEN Null ELSE Empty]
  /\ UNCHANGED <<heapVars, sampleVars, updating_garbage, has_any_updates>>
  /\ UNCHANGED resourceVars
  /\ master_pc = "read" /\ master_pc' = "read"
  /\ UNCHANGED <<memory_status, aborted>>

NoEntry ==
  /\ UNCHANGED resourceVars /\ UNCHANGED heapVars /\ UNCHANGED sampleVars
  /\ UNCHANGED <<updating, updating_garbage, has_any_updates>>
  /\ UNCHANGED aborted
  /\ \/ master_pc' = master_pc /\ memory_status' # "HARD_OOM"
     \/ master_pc' = "idle" /\ memory_status' = "HARD_OOM"

\* Every event of the binlog ends in one of them.
LEMMA EventEnds ==
  ASSUME MapOK(content, updating), PlainTypeOK, memory_status # "HARD_OOM", Event
  PROVE  /\ master_pc \in {"read", "expire"}
         /\ \/ \E k \in Key : \E v \in FreeCells \cup {Absent} : WritesCopies(k, v)
            \/ \E k \in Key : NewEntry(k)
            \/ NoEntry
<1> DEFINE goal == /\ master_pc \in {"read", "expire"}
                   /\ \/ \E k \in Key : \E v \in FreeCells \cup {Absent} : WritesCopies(k, v)
                      \/ \E k \in Key : NewEntry(k)
                      \/ NoEntry
<1>0. has_any_updates \in BOOLEAN
  BY ZenonT(60) DEF PlainTypeOK
<1>1. ASSUME NEW k \in Key, NEW operation \in Operation, StoreNewValue(k, operation)
      PROVE  goal
  <2>1. master_pc = "read" /\ UNCHANGED resourceVars
    BY ZenonT(60), <1>1 DEF StoreNewValue, ReadEvent
  <2>2. \E v \in FreeCells : Complete(k, v) \/ CutOff(k, v)
    BY ZenonT(60), <1>0, <1>1, StoreWrites
  <2> QED
    BY ZenonT(60), <2>1, <2>2 DEF WritesCopies
<1>2. ASSUME NEW k \in Key, NEW operation \in Operation, StoreSameValue(k, operation)
      PROVE  goal
  <2>1. /\ master_pc = "read" /\ UNCHANGED resourceVars /\ (Exists(k) \/ k \in Simple)
        /\ updating' = IF Exists(k) THEN updating ELSE [updating EXCEPT ![k] = Null]
        /\ UNCHANGED heapVars /\ UNCHANGED sampleVars
        /\ UNCHANGED <<updating_garbage, has_any_updates, memory_status, aborted, master_pc>>
    BY ZenonT(60), <1>2 DEF StoreSameValue, ReadEvent, controlVars
  <2>2. CASE Exists(k)
    BY ZenonT(60), <2>1, <2>2 DEF NoEntry
  <2>3. CASE ~Exists(k)
    <3>1. FirstPlace(k) = k /\ k \in Simple
      BY ZenonT(60), <2>1, <2>3, PlacesAre
    <3>2. updating[k] = Absent
      BY ZenonT(60), <2>3, <3>1 DEF Exists, Has
    <3> QED
      BY ZenonT(60), <2>1, <2>3, <3>1, <3>2 DEF NewEntry
  <2> QED
    BY <2>2, <2>3
<1>3. ASSUME NEW k \in Key, NEW operation \in Operation, StoreIsRefused(k, operation)
      PROVE  goal
  BY ZenonT(60), <1>3 DEF StoreIsRefused, ReadEvent, controlVars, NewEntry
<1>4. ASSUME NEW k \in Key, Delete(k) PROVE goal
  <2>1. master_pc = "read" /\ UNCHANGED resourceVars /\ DeleteElement(k, "read")
    BY ZenonT(60), <1>4 DEF Delete, ReadEvent
  <2>2. Complete(k, Absent) \/ CutOff(k, Absent)
    BY ZenonT(60), <1>0, <2>1, DeleteWrites
  <2> QED
    BY ZenonT(60), <2>1, <2>2 DEF WritesCopies
<1>5. ASSUME NEW k \in Key, Touch(k) PROVE goal
  BY ZenonT(60), <1>5 DEF Touch, ReadEvent, controlVars, NoEntry
<1>6. ASSUME NEW k \in Key, DeleteExpired(k) PROVE goal
  <2>1. master_pc \in {"read", "expire"} /\ UNCHANGED resourceVars /\ DeleteElement(k, "expire")
    BY ZenonT(60), <1>6 DEF DeleteExpired, InUpdate
  <2>2. Complete(k, Absent) \/ CutOff(k, Absent)
    BY ZenonT(60), <1>0, <2>1, DeleteWrites
  <2> QED
    BY ZenonT(60), <2>1, <2>2 DEF WritesCopies
<1>7. CASE SoftOom
  BY ZenonT(60), <1>7 DEF SoftOom, InUpdate, replayVars, controlVars, NoEntry
<1>8. CASE HardOom
  BY ZenonT(60), <1>8 DEF HardOom, InUpdate, replayVars, NoEntry
<1> QED
  BY ZenonT(60), <1>1, <1>2, <1>3, <1>4, <1>5, <1>6, <1>7, <1>8 DEF Event

\* Events and cycles end with the memory.
LEMMA BusyHasMemory ==
  ASSUME StopOK, Event \/ Cron
  PROVE  memory_status # "HARD_OOM"
<1>1. CASE Event
  <2>1. master_pc \in {"read", "expire"}
    BY ZenonT(60), <1>1 DEF Event, StoreNewValue, StoreSameValue, StoreIsRefused, Delete, Touch,
       DeleteExpired, SoftOom, HardOom, ReadEvent, InUpdate
  <2> QED
    BY ZenonT(60), <2>1 DEF StopOK
<1>2. CASE Cron
  <2>1. memory_status # "HARD_OOM" \/ master_pc \in {"read", "expire", "switch", "clear"}
    BY ZenonT(60), <1>2 DEF Cron, StartCycle, AbortOnSizes, Publish, Switch, DoNotPublish,
       ClearSample, SampleIsCleared, EndCycle, MasterGoto
  <2> QED
    BY ZenonT(60), <2>1 DEF StopOK
<1> QED
  BY <1>1, <1>2

\* Every event of the binlog.  One that is cut off leaves the samples as they are.
LEMMA EventKeeps ==
  ASSUME ResourceInv, PlainTypeOK, StopOK, DataOK, CronOK, memory_status # "HARD_OOM", Event
  PROVE  /\ CutOK' /\ StopOK'
         /\ memory_status' # "HARD_OOM" => DataOK' /\ CronOK'
<1>0. MapOK(content, updating) /\ aborted # "copies"
  BY ZenonT(60) DEF DataOK, MapsOK, StopOK
<1>1. /\ master_pc \in {"read", "expire"}
      /\ \/ \E k \in Key : \E v \in FreeCells \cup {Absent} : WritesCopies(k, v)
         \/ \E k \in Key : NewEntry(k)
         \/ NoEntry
  BY ZenonT(60), <1>0, EventEnds
<1>2. ASSUME NEW k \in Key, NEW v \in FreeCells \cup {Absent}, WritesCopies(k, v)
      PROVE  /\ CutOK' /\ StopOK'
             /\ memory_status' # "HARD_OOM" => DataOK' /\ CronOK'
  <2>1. CASE Complete(k, v)
    <3>1. DataOK' /\ CronOK'
      BY ZenonT(60), <1>1, <1>2, <2>1, WriteKeeps DEF WritesCopies, Complete
    <3>2. StopOK'
      BY ZenonT(60), <1>0, <2>1 DEF Complete, StopOK
    <3> QED
      BY ZenonT(60), <3>1, <3>2, DataIsCutOK
  <2>2. CASE CutOff(k, v)
    <3>1. CutOK'
      BY ZenonT(60), <2>2, PartKeeps DEF CutOff
    <3>2. StopOK' /\ memory_status' = "HARD_OOM"
      BY ZenonT(60), <2>2 DEF CutOff, StopOK
    <3> QED
      BY ZenonT(60), <3>1, <3>2
  <2> QED
    BY ZenonT(60), <1>2, <2>1, <2>2 DEF WritesCopies
<1>3. ASSUME NEW k \in Key, NewEntry(k)
      PROVE  CutOK' /\ StopOK' /\ DataOK' /\ CronOK'
  <2>1. DataOK' /\ CronOK'
    BY ZenonT(60), <1>3, RefusalKeeps DEF NewEntry
  <2>2. StopOK'
    BY ZenonT(60), <1>0, <1>3 DEF NewEntry, StopOK
  <2> QED
    BY ZenonT(60), <2>1, <2>2, DataIsCutOK
<1>4. CASE NoEntry
  <2>1. DataOK' /\ CronOK'
    BY ZenonT(60), <1>1, <1>4, ControlKeeps DEF NoEntry
  <2>2. StopOK'
    BY ZenonT(60), <1>0, <1>4 DEF NoEntry, StopOK
  <2> QED
    BY ZenonT(60), <2>1, <2>2, DataIsCutOK
<1> QED
  BY ZenonT(60), <1>1, <1>2, <1>3, <1>4

\* Every step of the cron.
LEMMA CronKeeps ==
  ASSUME ResourceInv, PlainTypeOK, DataOK, CronOK, Cron
  PROVE  DataOK' /\ CronOK'
<1>1. CASE StartCycle
  BY ZenonT(60), <1>1, StartKeeps
<1>2. CASE AbortOnSizes
  <2>1. /\ UNCHANGED resourceVars /\ UNCHANGED heapVars /\ UNCHANGED sampleVars
        /\ UNCHANGED <<updating, updating_garbage, has_any_updates>> /\ master_pc' = master_pc
    BY ZenonT(60), <1>2 DEF AbortOnSizes, dataVars, replayVars
  <2> QED
    BY ZenonT(60), <2>1, ControlKeeps
<1>3. CASE Publish
  BY ZenonT(60), <1>3, PublishKeeps
<1>4. CASE Switch
  BY ZenonT(60), <1>4, SwitchKeeps
<1>5. CASE DoNotPublish
  <2>1. /\ UNCHANGED resourceVars /\ UNCHANGED heapVars /\ UNCHANGED sampleVars
        /\ UNCHANGED <<updating, updating_garbage, has_any_updates>>
        /\ master_pc \in {"read", "expire"} /\ master_pc' = "clear"
    BY ZenonT(60), <1>5 DEF DoNotPublish, MasterGoto, dataVars, replayVars
  <2> QED
    BY ZenonT(60), <2>1, ControlKeeps
<1>6. ASSUME NEW r \in Resource, ClearSample(r) PROVE DataOK' /\ CronOK'
  BY ZenonT(60), <1>6, ClearKeeps
<1>7. CASE SampleIsCleared
  BY ZenonT(60), <1>7, ClearedKeeps
<1>8. CASE EndCycle
  <2>1. /\ UNCHANGED resourceVars /\ UNCHANGED heapVars /\ UNCHANGED sampleVars
        /\ UNCHANGED <<updating, updating_garbage, has_any_updates>>
        /\ master_pc = "clear" /\ master_pc' = "idle"
    BY ZenonT(60), <1>8 DEF EndCycle, MasterGoto, dataVars, replayVars
  <2> QED
    BY ZenonT(60), <2>1, ControlKeeps
<1> QED
  BY ZenonT(60), <1>1, <1>2, <1>3, <1>4, <1>5, <1>6, <1>7, <1>8 DEF Cron

\* Workers take and release samples and die; they change no map.
LEMMA WorkersKeep ==
  ASSUME ResourceInv, DataOK, CronOK, NEW w \in Worker, Script(w) \/ Kill(w)
  PROVE  DataOK' /\ CronOK'
<1>1. /\ UNCHANGED dataVars /\ master_pc' = master_pc
      /\ UNCHANGED <<active_resource_id, dirty_inactive_resources, wiping, switching>>
  BY ZenonT(60) DEF Script, Kill, Fork, Die, acquire_current_resource, release_resource,
     controlVars, ringVars
<1>2. /\ UNCHANGED heapVars /\ UNCHANGED sampleVars
      /\ UNCHANGED <<updating, updating_garbage, has_any_updates>>
  BY ZenonT(60), <1>1 DEF dataVars, replayVars
<1> QED
  BY ZenonT(60), <1>1, <1>2, StillData

\* The cron stops for other reasons.
LEMMA CronStops ==
  ASSUME StopOK, memory_status # "HARD_OOM", Cron
  PROVE  StopOK'
<1>1. memory_status' = memory_status /\ (aborted' = aborted \/ aborted' = "sizes")
  BY ZenonT(60) DEF Cron, StartCycle, AbortOnSizes, Publish, Switch, DoNotPublish,
     ClearSample, SampleIsCleared, EndCycle, MasterGoto, dataVars
<1> QED
  BY ZenonT(60), <1>1 DEF StopOK

\* Steps that change neither maps nor lists.
LEMMA StillCutOK ==
  ASSUME CutOK, StopOK, UNCHANGED dataVars, UNCHANGED controlVars
  PROVE  CutOK' /\ StopOK' /\ memory_status' = memory_status
<1>1. /\ content' = content /\ constants' = constants /\ sample' = sample /\ garbage' = garbage
      /\ updating' = updating /\ updating_garbage' = updating_garbage
      /\ memory_status' = memory_status /\ aborted' = aborted /\ master_pc' = master_pc
  BY ZenonT(60) DEF dataVars, heapVars, sampleVars, replayVars, controlVars
<1>2. HeapOK'
  BY ZenonT(60), <1>1 DEF CutOK, HeapOK
<1>3. SamplesOK'
  BY ZenonT(60), <1>1 DEF CutOK, SamplesOK
<1>4. ReplayTypeOK'
  BY ZenonT(60), <1>1 DEF CutOK, ReplayTypeOK, ListOf
<1> QED
  BY ZenonT(60), <1>1, <1>2, <1>3, <1>4 DEF CutOK, StopOK

\* Every step keeps what is known of memory, maps, lists and their order.
LEMMA DataStep ==
  ASSUME ConfdataInv, [Next]_vars
  PROVE  /\ CutOK' /\ StopOK'
         /\ memory_status' # "HARD_OOM" => DataOK' /\ CronOK'
<1>0. /\ ResourceInv /\ PlainTypeOK /\ CutOK /\ StopOK
      /\ memory_status # "HARD_OOM" => DataOK /\ CronOK
  BY ZenonT(60) DEF ConfdataInv
<1>1. CASE UNCHANGED vars
  <2>1. /\ UNCHANGED resourceVars /\ UNCHANGED heapVars /\ UNCHANGED sampleVars
        /\ UNCHANGED <<updating, updating_garbage, has_any_updates>> /\ master_pc' = master_pc
        /\ UNCHANGED dataVars /\ UNCHANGED controlVars
    BY ZenonT(60), <1>1 DEF vars, dataVars, replayVars, controlVars
  <2>2. memory_status # "HARD_OOM" => DataOK' /\ CronOK'
    BY ZenonT(60), <1>0, <2>1, ControlKeeps
  <2> QED
    BY ZenonT(60), <1>0, <2>1, <2>2, StillCutOK
<1>2. CASE Event
  BY ZenonT(60), <1>0, <1>2, BusyHasMemory, EventKeeps
<1>3. CASE Cron
  <2>1. memory_status # "HARD_OOM"
    BY ZenonT(60), <1>0, <1>3, BusyHasMemory
  <2>2. DataOK' /\ CronOK'
    BY ZenonT(60), <1>0, <1>3, <2>1, CronKeeps
  <2>3. StopOK'
    BY ZenonT(60), <1>0, <1>3, <2>1, CronStops
  <2> QED
    BY ZenonT(60), <2>2, <2>3, DataIsCutOK
<1>4. CASE \E w \in Worker : Script(w) \/ Kill(w)
  <2>1. UNCHANGED dataVars /\ UNCHANGED controlVars
    BY ZenonT(60), <1>4 DEF Script, Kill
  <2>2. memory_status # "HARD_OOM" => DataOK' /\ CronOK'
    BY ZenonT(60), <1>0, <1>4, WorkersKeep
  <2> QED
    BY ZenonT(60), <1>0, <2>1, <2>2, StillCutOK
<1> QED
  BY ZenonT(60), <1>1, <1>2, <1>3, <1>4 DEF Next

\* The types of what generic_operation writes.
LEMMA GenericTypes ==
  ASSUME PlainTypeOK, NEW k, NEW v, NEW status, NEW delays \in SUBSET SUBSET Key,
         NEW there \in {"read", "expire"}, generic_operation(k, v, status, delays, there),
         events' \in 0 .. MaxEvents, kills' = kills
  PROVE  PlainTypeOK'
<1>1. PICK places : PutElement(k, v, places)
  BY ZenonT(60) DEF generic_operation
<1>2. sample' = sample /\ garbage' = garbage
  BY ZenonT(60), <1>1 DEF PutElement, sampleVars
<1>3. element_delays' \in delays \cup {element_delays}
  BY ZenonT(60) DEF generic_operation
<1>4. /\ memory_status' \in {memory_status, "HARD_OOM"} /\ aborted' \in {aborted, "copies"}
      /\ master_pc' \in {"idle", there}
  BY ZenonT(60) DEF generic_operation
<1>5. has_any_updates' \in BOOLEAN
  BY ZenonT(60) DEF generic_operation
<1> QED
  BY ZenonT(60), <1>2, <1>3, <1>4, <1>5 DEF PlainTypeOK

\* Every step keeps the types.
LEMMA PlainTypeStep ==
  ASSUME ResourceInv, PlainTypeOK, CutOK, [Next]_vars
  PROVE  PlainTypeOK'
<1>0. /\ MaxEvents \in Nat /\ MaxKills \in Nat /\ Expiring \subseteq Key
      /\ updating \in Storage /\ EmptyStorage \in Storage
  BY ZenonT(60), ConfdataAssumption, EmptyMap DEF CutOK, ReplayTypeOK, MapOK
<1>1. CASE UNCHANGED vars
  BY SMTT(60), <1>1 DEF PlainTypeOK, vars, dataVars, heapVars, sampleVars, replayVars, controlVars
<1>2. CountEvent => events' \in 0 .. MaxEvents
  BY SMTT(60), <1>0 DEF CountEvent, PlainTypeOK
<1>3. ASSUME NEW k \in Key PROVE update_element_in_expiration_trace(k) \in SUBSET SUBSET Key
  BY ZenonT(60), <1>0 DEF update_element_in_expiration_trace, PlainTypeOK
<1>4. ASSUME NEW k \in Key, NEW there \in {"read", "expire"}, DeleteElement(k, there), CountEvent,
             kills' = kills
      PROVE  PlainTypeOK'
  <2>1. {element_delays \ {k}} \in SUBSET SUBSET Key
    BY ZenonT(60) DEF PlainTypeOK
  <2>2. \E status : generic_operation(k, Absent, status, {element_delays \ {k}}, there)
    BY ZenonT(60), <1>4 DEF DeleteElement
  <2> QED
    BY ZenonT(60), <1>2, <1>4, <2>1, <2>2, GenericTypes
<1>5. ASSUME NEW k \in Key, NEW operation \in Operation,
             \/ StoreNewValue(k, operation) \/ StoreSameValue(k, operation)
             \/ StoreIsRefused(k, operation)
      PROVE  PlainTypeOK'
  <2>1. CASE StoreNewValue(k, operation)
    <3>1. /\ CountEvent /\ kills' = kills
          /\ \E v, status : generic_operation(k, v, status, update_element_in_expiration_trace(k),
                                             "read")
      BY ZenonT(60), <2>1 DEF StoreNewValue, ReadEvent
    <3> QED
      BY ZenonT(60), <1>2, <1>3, <3>1, GenericTypes
  <2>2. CASE StoreSameValue(k, operation)
    <3>1. /\ element_delays' \in update_element_in_expiration_trace(k)
          /\ aborted' = aborted /\ master_pc' = master_pc /\ kills' = kills /\ events' = events
          /\ sample' = sample /\ garbage' = garbage /\ has_any_updates' = has_any_updates
          /\ memory_status' = memory_status
      BY ZenonT(60), <2>2 DEF StoreSameValue, ReadEvent, controlVars, sampleVars
    <3> QED
      BY ZenonT(60), <1>3, <3>1 DEF PlainTypeOK
  <2>3. CASE StoreIsRefused(k, operation)
    <3>1. /\ CountEvent /\ element_delays' = element_delays
          /\ aborted' = aborted /\ master_pc' = master_pc /\ kills' = kills
          /\ sample' = sample /\ garbage' = garbage /\ has_any_updates' = has_any_updates
          /\ memory_status' = memory_status
      BY ZenonT(60), <2>3 DEF StoreIsRefused, ReadEvent, controlVars, sampleVars
    <3> QED
      BY ZenonT(60), <1>2, <3>1 DEF PlainTypeOK
  <2> QED
    BY ZenonT(60), <1>5, <2>1, <2>2, <2>3
<1>6. ASSUME NEW k \in Key, Delete(k) \/ Touch(k) \/ DeleteExpired(k)
      PROVE  PlainTypeOK'
  <2>1. CASE Delete(k)
    <3>1. CountEvent /\ DeleteElement(k, "read") /\ kills' = kills
      BY ZenonT(60), <2>1 DEF Delete, ReadEvent
    <3> QED
      BY ZenonT(60), <1>4, <3>1
  <2>2. CASE Touch(k)
    <3>1. /\ element_delays' \in update_element_in_expiration_trace(k)
          /\ aborted' = aborted /\ master_pc' = master_pc /\ kills' = kills /\ events' = events
          /\ sample' = sample /\ garbage' = garbage /\ has_any_updates' = has_any_updates
          /\ memory_status' = memory_status
      BY ZenonT(60), <2>2 DEF Touch, ReadEvent, controlVars, sampleVars
    <3> QED
      BY ZenonT(60), <1>3, <3>1 DEF PlainTypeOK
  <2>3. CASE DeleteExpired(k)
    <3>1. CountEvent /\ DeleteElement(k, "expire") /\ kills' = kills
      BY ZenonT(60), <2>3 DEF DeleteExpired
    <3> QED
      BY ZenonT(60), <1>4, <3>1
  <2> QED
    BY ZenonT(60), <1>6, <2>1, <2>2, <2>3
<1>7. CASE SoftOom \/ HardOom
  BY SMTT(60), <1>7 DEF SoftOom, HardOom, PlainTypeOK, sampleVars, replayVars, controlVars
<1>8. CASE StartCycle \/ AbortOnSizes \/ DoNotPublish \/ EndCycle
  BY SMTT(60), <1>8 DEF StartCycle, AbortOnSizes, DoNotPublish, EndCycle, MasterGoto, PlainTypeOK,
     dataVars, heapVars, sampleVars, replayVars
<1>9. CASE Switch \/ SampleIsCleared
  BY SMTT(60), <1>9 DEF Switch, SampleIsCleared, EndReset, EndClear, MasterGoto, PlainTypeOK,
     dataVars, heapVars, sampleVars, replayVars
<1>10. CASE Publish
  <2>1. sample' \in [Resource -> Storage] /\ DOMAIN garbage' = Resource
    BY ZenonT(60), <1>0, <1>10 DEF Publish, PlainTypeOK, save_garbage
  <2>2. /\ has_any_updates' = FALSE /\ element_delays' = element_delays
        /\ memory_status' = memory_status /\ events' = events /\ kills' = kills
        /\ aborted' = aborted /\ master_pc' = "switch"
    BY ZenonT(60), <1>10 DEF Publish, MasterGoto
  <2> QED
    BY ZenonT(60), <2>1, <2>2 DEF PlainTypeOK
<1>11. ASSUME NEW r \in Resource, ClearSample(r) PROVE PlainTypeOK'
  <2>1. sample' \in [Resource -> Storage] /\ DOMAIN garbage' = Resource
    BY ZenonT(60), <1>0, <1>11 DEF ClearSample, PlainTypeOK
  <2>2. /\ has_any_updates' = has_any_updates /\ element_delays' = element_delays
        /\ memory_status' = memory_status /\ events' = events /\ kills' = kills
        /\ aborted' = aborted /\ master_pc' = "clear"
    BY ZenonT(60), <1>11 DEF ClearSample, MasterGoto, replayVars
  <2> QED
    BY ZenonT(60), <2>1, <2>2 DEF PlainTypeOK
<1>12. ASSUME NEW w \in Worker, Script(w) \/ Kill(w) PROVE PlainTypeOK'
  <2>1. /\ UNCHANGED dataVars /\ aborted' = aborted /\ master_pc' = master_pc /\ events' = events
        /\ kills' = kills \/ (kills < MaxKills /\ kills' = kills + 1)
    BY ZenonT(60), <1>12 DEF Script, Kill, controlVars
  <2>2. kills' \in 0 .. MaxKills
    BY SMTT(60), <1>0, <2>1 DEF PlainTypeOK
  <2> QED
    BY ZenonT(60), <2>1, <2>2 DEF PlainTypeOK, dataVars, sampleVars, replayVars
<1> QED
  BY ZenonT(60), <1>1, <1>5, <1>6, <1>7, <1>8, <1>9, <1>10, <1>11, <1>12 DEF Next, Event, Cron

\* The first sample.
LoadedCells(loaded) == Allocation(PlacesFor(loaded), Cell)

LoadedHeap(loaded, heap) ==
  /\ heap \in [Cell -> Array \cup {Free, Value}]
  /\ \A k \in loaded : heap[LoadedCells(loaded)[k]] = Value
  /\ \A k \in loaded : \A f \in Sections(k) :
       /\ DOMAIN heap[LoadedCells(loaded)[f]] = {j \in loaded : f \in Sections(j)}
       /\ heap[LoadedCells(loaded)[f]] \in Array
       /\ \A j \in DOMAIN heap[LoadedCells(loaded)[f]] :
            heap[LoadedCells(loaded)[f]][j] = LoadedCells(loaded)[j]

\* Memory suffices for the first sample, with a cell for each place.
LEMMA LoadedPlaces ==
  ASSUME NEW loaded \in Snapshots
  PROVE  /\ loaded \subseteq Key
         /\ \A k \in loaded : Sections(k) \subseteq Section /\ (Sections(k) # {} => k \in Dotted)
         /\ \A k \in loaded : k \in PlacesFor(loaded) /\ k \notin Section /\ Sections(k) \subseteq PlacesFor(loaded)
         /\ \A p \in PlacesFor(loaded) : LoadedCells(loaded)[p] \in Cell
         /\ \A p, q \in PlacesFor(loaded) : LoadedCells(loaded)[p] = LoadedCells(loaded)[q] => p = q
<1>1. loaded \subseteq Key /\ \A k \in loaded : k \notin Section
  BY ZenonT(60), ConfdataAssumption
<1>2. \A k \in loaded : Sections(k) \subseteq Section /\ (Sections(k) # {} => k \in Dotted)
  BY ZenonT(60), <1>1, FirstIsASection DEF Sections, Key
<1>3. \A k \in loaded : k \in PlacesFor(loaded) /\ Sections(k) \subseteq PlacesFor(loaded)
  BY ZenonT(60) DEF PlacesFor
<1>4. LoadedCells(loaded) \in Injection(PlacesFor(loaded), Cell)
  BY ZenonT(60), SnapshotsFit DEF LoadedCells
<1>5. /\ \A p \in PlacesFor(loaded) : LoadedCells(loaded)[p] \in Cell
      /\ \A p, q \in PlacesFor(loaded) : LoadedCells(loaded)[p] = LoadedCells(loaded)[q] => p = q
  BY ZenonT(60), <1>4 DEF Injection, IsInjective
<1> QED
  BY ZenonT(60), <1>1, <1>2, <1>3, <1>5

\* What memory holds once the first sample is loaded.
LEMMA WhatIsLoaded ==
  ASSUME NEW loaded \in Snapshots, Loaded(loaded)
  PROVE  LoadedHeap(loaded, content)
<1> DEFINE cells == LoadedCells(loaded)
           sections == UNION {Sections(k) : k \in loaded}
           array(c) == [k \in {j \in loaded : \E f \in Sections(j) : cells[f] = c} |-> cells[k]]
           cell(c) == CASE \E k \in loaded : cells[k] = c -> Value
                        [] \E f \in sections : cells[f] = c -> array(c)
                        [] OTHER -> Free
<1>0. /\ loaded \subseteq Key
      /\ \A k \in loaded : Sections(k) \subseteq Section /\ (Sections(k) # {} => k \in Dotted)
      /\ \A k \in loaded : k \in PlacesFor(loaded) /\ k \notin Section /\ Sections(k) \subseteq PlacesFor(loaded)
      /\ \A p \in PlacesFor(loaded) : cells[p] \in Cell
      /\ \A p, q \in PlacesFor(loaded) : cells[p] = cells[q] => p = q
  BY ZenonT(60), LoadedPlaces
<1>1. content = [c \in Cell |-> cell(c)]
  BY ZenonT(60) DEF Loaded, LoadedCells
<1> HIDE DEF cells
<1>2. ASSUME NEW c \in Cell PROVE array(c) \in Array
  <2>1. {j \in loaded : \E f \in Sections(j) : cells[f] = c} \in SUBSET Dotted
    BY ZenonT(60), <1>0
  <2>2. array(c) \in [{j \in loaded : \E f \in Sections(j) : cells[f] = c} -> Cell]
    BY ZenonT(60), <1>0
  <2> QED
    BY ZenonT(60), <2>1, <2>2 DEF Array
<1>3. ASSUME NEW c \in Cell
      PROVE  /\ (\E k \in loaded : cells[k] = c) => content[c] = Value
             /\ ~(\E k \in loaded : cells[k] = c) /\ (\E f \in sections : cells[f] = c) =>
                  content[c] = array(c)
             /\ content[c] \in {Value, array(c), Free}
  <2> DEFINE P == \E k \in loaded : cells[k] = c
             Q == \E f \in sections : cells[f] = c
             a == array(c)
  <2>1. content[c] = CASE P -> Value [] Q -> a [] OTHER -> Free
    BY ZenonT(60), <1>1
  <2> HIDE DEF P, Q, a
  <2>2. /\ P => content[c] \in {Value, a}
        /\ P /\ ~Q => content[c] = Value
        /\ ~P /\ Q => content[c] = a
        /\ content[c] \in {Value, a, Free}
    BY SMTT(60), <2>1
  <2>3. P => ~Q
    <3> SUFFICES ASSUME NEW k \in loaded, cells[k] = c, NEW j \in loaded, NEW f \in Sections(j), cells[f] = c
                 PROVE  FALSE
      BY ZenonT(60) DEF P, Q
    <3>1. k = f
      BY ZenonT(60), <1>0
    <3> QED
      BY ZenonT(60), <1>0, <3>1
  <2> QED
    BY ZenonT(60), <2>2, <2>3 DEF P, Q, a
<1>4. content \in [Cell -> Array \cup {Free, Value}]
  <2>1. content = [c \in Cell |-> content[c]]
    <3> HIDE DEF cell
    <3> QED
      BY ZenonT(60), <1>1
  <2> HIDE DEF array, cell
  <2>2. \A c \in Cell : content[c] \in Array \cup {Free, Value}
    <3> TAKE c \in Cell
    <3>1. array(c) \in Array /\ content[c] \in {Value, array(c), Free}
      BY ZenonT(60), <1>2, <1>3
    <3> QED
      BY ZenonT(60), <3>1
  <2> QED
    BY ZenonT(60), <2>1, <2>2
<1>5. \A k \in loaded : content[cells[k]] = Value
  BY ZenonT(60), <1>0, <1>3
<1>6. ASSUME NEW k \in loaded, NEW f \in Sections(k)
      PROVE  /\ DOMAIN content[cells[f]] = {j \in loaded : f \in Sections(j)}
             /\ content[cells[f]] \in Array
             /\ \A j \in DOMAIN content[cells[f]] : content[cells[f]][j] = cells[j]
  <2>1. cells[f] \in Cell /\ f \in sections /\ f \in PlacesFor(loaded)
    BY ZenonT(60), <1>0
  <2>2. ~ \E j \in loaded : cells[j] = cells[f]
    BY ZenonT(60), <1>0, <2>1
  <2>3. content[cells[f]] = array(cells[f])
    BY ZenonT(60), <1>3, <2>1, <2>2
  <2>4. {j \in loaded : \E g \in Sections(j) : cells[g] = cells[f]} = {j \in loaded : f \in Sections(j)}
    BY ZenonT(60), <1>0, <2>1
  <2>5. array(cells[f]) = [j \in {j \in loaded : f \in Sections(j)} |-> cells[j]]
    BY ZenonT(60), <2>4
  <2> QED
    BY ZenonT(60), <1>2, <2>1, <2>3, <2>5
<1> QED
  BY ZenonT(60), <1>4, <1>5, <1>6 DEF LoadedHeap, cells

IsLoaded(first, loaded) ==
  first = [f \in FirstKey |-> IF f \in (loaded \ Dotted) \cup UNION {Sections(k) : k \in loaded}
                                THEN LoadedCells(loaded)[f] ELSE Absent]

\* The map of the first sample is whole.
LEMMA FirstMap ==
  ASSUME NEW loaded \in Snapshots, LoadedHeap(loaded, content), NEW first, IsLoaded(first, loaded)
  PROVE  MapOK(content, first)
<1> DEFINE cells == LoadedCells(loaded)
<1>0. /\ loaded \subseteq Key
      /\ \A k \in loaded : Sections(k) \subseteq Section /\ (Sections(k) # {} => k \in Dotted)
      /\ \A k \in loaded : k \in PlacesFor(loaded) /\ k \notin Section /\ Sections(k) \subseteq PlacesFor(loaded)
      /\ \A p \in PlacesFor(loaded) : cells[p] \in Cell
      /\ \A p, q \in PlacesFor(loaded) : cells[p] = cells[q] => p = q
  BY ZenonT(60), LoadedPlaces
<1>1. /\ content \in [Cell -> Array \cup {Free, Value}]
      /\ \A k \in loaded : content[cells[k]] = Value
      /\ \A k \in loaded : \A f \in Sections(k) :
           /\ DOMAIN content[cells[f]] = {j \in loaded : f \in Sections(j)}
           /\ content[cells[f]] \in Array
           /\ \A j \in DOMAIN content[cells[f]] : content[cells[f]][j] = cells[j]
  BY ZenonT(60) DEF LoadedHeap
<1>2. /\ Absent \notin Cell /\ Simple \cap Dotted = {} /\ Key \cap Section = {}
      /\ Simple \subseteq Key /\ Dotted \subseteq Key /\ Section \subseteq FirstKey /\ Simple \subseteq FirstKey
  BY ZenonT(60), ConfdataAssumption DEF Key, FirstKey
<1>3. /\ DOMAIN first = FirstKey
      /\ \A k \in Simple : first[k] = IF k \in loaded THEN cells[k] ELSE Absent
      /\ \A f \in Section : first[f] = IF \E k \in loaded : f \in Sections(k) THEN cells[f] ELSE Absent
  <2>1. \A f \in FirstKey : first[f] = IF f \in (loaded \ Dotted) \cup UNION {Sections(k) : k \in loaded}
                                         THEN cells[f] ELSE Absent
    BY ZenonT(60) DEF IsLoaded
  <2>2. \A k \in Simple : k \in (loaded \ Dotted) \cup UNION {Sections(j) : j \in loaded} <=> k \in loaded
    <3> TAKE k \in Simple
    <3>1. k \notin Dotted /\ \A j \in loaded : k \notin Sections(j)
      BY ZenonT(60), <1>0, <1>2
    <3> QED
      BY ZenonT(60), <3>1
  <2>3. \A f \in Section : f \in (loaded \ Dotted) \cup UNION {Sections(k) : k \in loaded}
                           <=> \E k \in loaded : f \in Sections(k)
    <3> TAKE f \in Section
    <3>1. f \notin loaded
      BY ZenonT(60), <1>0
    <3> QED
      BY ZenonT(60), <3>1
  <2>4. DOMAIN first = FirstKey
    BY ZenonT(60) DEF IsLoaded
  <2> HIDE DEF cells
  <2>5. ASSUME NEW k \in Simple PROVE first[k] = IF k \in loaded THEN cells[k] ELSE Absent
    BY ZenonT(60), <1>2, <2>1, <2>2
  <2>6. ASSUME NEW f \in Section
        PROVE  first[f] = IF \E k \in loaded : f \in Sections(k) THEN cells[f] ELSE Absent
    BY ZenonT(60), <1>2, <2>1, <2>3
  <2> QED
    BY ZenonT(60), <2>4, <2>5, <2>6
<1> HIDE DEF cells
<1>4. first \in Storage
  <2>1. \A f \in FirstKey : first[f] \in Cell \cup {Absent, Null, Empty}
    BY ZenonT(60), <1>0, <1>3 DEF FirstKey
  <2>2. first = [f \in FirstKey |-> first[f]]
    BY ZenonT(60) DEF IsLoaded
  <2> QED
    BY ZenonT(60), <2>1, <2>2 DEF Storage
<1>5. ASSUME NEW f \in Section
      PROVE  /\ DOMAIN ArrayOf(content, first, f) = {j \in loaded : f \in Sections(j)}
             /\ \A j \in DOMAIN ArrayOf(content, first, f) : ArrayOf(content, first, f)[j] = cells[j]
             /\ first[f] \in Cell => content[first[f]] \in Array
             /\ first[f] \in Cell => first[f] = cells[f] /\ f \in PlacesFor(loaded)
  <2>1. CASE \E k \in loaded : f \in Sections(k)
    <3>1. first[f] = cells[f] /\ f \in PlacesFor(loaded) /\ cells[f] \in Cell
      BY ZenonT(60), <1>0, <1>3, <2>1
    <3>2. ArrayOf(content, first, f) = content[cells[f]]
      BY ZenonT(60), <3>1 DEF ArrayOf
    <3>3. /\ DOMAIN content[cells[f]] = {j \in loaded : f \in Sections(j)}
          /\ content[cells[f]] \in Array
          /\ \A j \in DOMAIN content[cells[f]] : content[cells[f]][j] = cells[j]
      <4>1. PICK k \in loaded : f \in Sections(k)
        BY ZenonT(60), <2>1
      <4> QED
        BY ZenonT(60), <1>1, <4>1
    <3> QED
      BY ZenonT(60), <3>1, <3>2, <3>3
  <2>2. CASE ~ \E k \in loaded : f \in Sections(k)
    <3>1. first[f] = Absent
      BY ZenonT(60), <1>3, <2>2
    <3>2. ArrayOf(content, first, f) = NoElements /\ DOMAIN NoElements = {}
      BY ZenonT(60), <1>2, <3>1 DEF ArrayOf, NoElements
    <3> QED
      BY ZenonT(60), <1>2, <2>2, <3>1, <3>2
  <2> QED
    BY ZenonT(60), <2>1, <2>2
<1>6. ASSUME NEW k \in Key
      PROVE  Val(content, first, k) = IF k \in loaded THEN cells[k] ELSE Absent
  <2>1. CASE k \in Simple
    BY ZenonT(60), <1>3, <2>1 DEF Val
  <2>2. CASE k \notin Simple
    <3> DEFINE f == FirstPlace(k)
               a == ArrayOf(content, first, f)
    <3>1. f \in Section /\ f \in Sections(k)
      BY ZenonT(60), <2>2, FirstIsASection DEF Key
    <3>2. /\ k \in DOMAIN a <=> k \in loaded
          /\ k \in DOMAIN a => a[k] = cells[k]
      BY ZenonT(60), <1>5, <3>1
    <3>3. Val(content, first, k) = IF k \in DOMAIN a THEN a[k] ELSE Absent
      BY ZenonT(60), <2>2 DEF Val
    <3> HIDE DEF a
    <3> QED
      BY ZenonT(60), <3>2, <3>3
  <2> QED
    BY ZenonT(60), <2>1, <2>2
<1>7. \A f, g \in Section : first[f] = first[g] /\ first[f] \in Cell => f = g
  <2> SUFFICES ASSUME NEW f \in Section, NEW g \in Section, first[f] = first[g], first[f] \in Cell
               PROVE  f = g
    BY ZenonT(60)
  <2>1. /\ first[f] = cells[f] /\ f \in PlacesFor(loaded)
        /\ first[g] = cells[g] /\ g \in PlacesFor(loaded)
    BY ZenonT(60), <1>5
  <2> QED
    BY ZenonT(60), <1>0, <2>1
<1>8. ASSUME NEW k \in Dotted, NEW f \in Section
      PROVE  IF f \in Sections(k) /\ Val(content, first, k) \in Cell
               THEN /\ k \in DOMAIN ArrayOf(content, first, f)
                    /\ ArrayOf(content, first, f)[k] = Val(content, first, k)
               ELSE k \notin DOMAIN ArrayOf(content, first, f)
  <2>1. /\ k \in DOMAIN ArrayOf(content, first, f) <=> k \in loaded /\ f \in Sections(k)
        /\ k \in DOMAIN ArrayOf(content, first, f) => ArrayOf(content, first, f)[k] = cells[k]
    BY ZenonT(60), <1>5
  <2>2. /\ k \in loaded => Val(content, first, k) = cells[k] /\ cells[k] \in Cell
        /\ k \notin loaded => Val(content, first, k) = Absent
    BY ZenonT(60), <1>0, <1>2, <1>6
  <2> QED
    BY ZenonT(60), <1>2, <2>1, <2>2
<1>9. ASSUME NEW k \in Key, Val(content, first, k) \in Cell
      PROVE  k \in loaded /\ Val(content, first, k) = cells[k]
  BY SMTT(60), <1>2, <1>6, <1>9
<1>10. ASSUME NEW j \in Key, NEW k \in Key, Val(content, first, j) = Val(content, first, k),
              Val(content, first, j) \in Cell
       PROVE  j = k
  <2>1. j \in loaded /\ k \in loaded /\ cells[j] = cells[k]
    BY SMTT(60), <1>9, <1>10
  <2> QED
    BY ZenonT(60), <1>0, <2>1
<1>11. \A k \in Key : Val(content, first, k) \in Cell => content[Val(content, first, k)] = Value
  BY SMTT(60), <1>1, <1>9
<1> QED
  BY ZenonT(60), <1>4, <1>5, <1>7, <1>8, <1>10, <1>11 DEF MapOK

\* The first sample is the newest and there is no garbage.
LEMMA InitiallyInv == Init => ConfdataInv
<1> SUFFICES ASSUME Init PROVE ConfdataInv
  OBVIOUS
<1>1. PICK loaded \in Snapshots : Loaded(loaded)
  BY ZenonT(60) DEF Init
<1> DEFINE first == sample[active_resource_id]
<1>2. /\ active_resource_id = 0 /\ wiping = None /\ switching = FALSE
      /\ dirty_inactive_resources = {} /\ active_resource_id \in Resource
  BY SMTT(60), ResourceAssumption DEF Init, ResourceInit, Resource
<1>3. /\ garbage = [r \in Resource |-> NoGarbage] /\ updating = EmptyStorage
      /\ updating_garbage = NoGarbage /\ has_any_updates = FALSE /\ memory_status = "NORMAL"
      /\ aborted = None /\ master_pc = "idle" /\ events = 0 /\ kills = 0
  BY ZenonT(60) DEF Init
<1>4. /\ IsLoaded(first, loaded) /\ constants = Reachable(content, first) /\ element_delays = {}
      /\ sample = [r \in Resource |-> IF r = active_resource_id THEN first ELSE EmptyStorage]
  BY ZenonT(60), <1>1, <1>2 DEF Loaded, IsLoaded, LoadedCells
<1> HIDE DEF first
<1>5. /\ content \in [Cell -> Array \cup {Free, Value}] /\ MapOK(content, first)
  BY ZenonT(60), <1>1, <1>4, WhatIsLoaded, FirstMap DEF LoadedHeap
<1>6. /\ MapOK(content, EmptyStorage) /\ Reachable(content, EmptyStorage) = {}
      /\ first \in Storage /\ EmptyStorage \in Storage
  BY ZenonT(60), <1>5, EmptyMap DEF MapOK
<1>7. \A r \in Resource : sample[r] = IF r = active_resource_id THEN first ELSE EmptyStorage
  BY ZenonT(60), <1>4
<1>8. HeapOK
  <2>1. \A c \in constants : c \in Cell /\ content[c] # Free
    BY ZenonT(60), <1>4, <1>5, ReachableCells, MapIsWhole DEF Refers
  <2> QED
    BY ZenonT(60), <1>5, <2>1 DEF HeapOK
<1>9. MapsOK
  <2>1. ASSUME NEW r \in Resource
        PROVE  MapOK(content, sample[r]) /\ Reachable(content, sample[r]) \subseteq constants
    <3>1. CASE r = active_resource_id
      BY ZenonT(60), <1>4, <1>5, <1>7, <3>1
    <3>2. CASE r # active_resource_id
      BY ZenonT(60), <1>6, <1>7, <3>2
    <3> QED
      BY ZenonT(60), <3>1, <3>2
  <2> QED
    BY ZenonT(60), <1>3, <1>6, <2>1 DEF MapsOK, SamplesOK
<1>10. \A l \in Lists : DOMAIN ListOf(l) = {} /\ IsGarbage(ListOf(l))
  <2>1. \A l \in Lists : ListOf(l) = NoGarbage
    BY ZenonT(60), <1>3 DEF ListOf, Lists
  <2> QED
    BY ZenonT(60), <2>1 DEF NoGarbage, IsGarbage
<1>11. Newest = first
  BY ZenonT(60), <1>2, <1>3, <1>7 DEF Newest
<1>12. ListsOK
  <2>1. \A c \in constants : c \in Reachable(content, Newest)
    BY ZenonT(60), <1>4, <1>11
  <2> QED
    BY ZenonT(60), <1>10, <2>1 DEF ListsOK
<1>13. OrderOK
  BY ZenonT(60), <1>10 DEF OrderOK
<1>14. CronOK
  BY ZenonT(60), <1>2, <1>3, <1>7 DEF CronOK
<1>15. PlainTypeOK
  <2>1. 0 \in 0 .. MaxEvents /\ 0 \in 0 .. MaxKills
    BY SMTT(60), ConfdataAssumption
  <2>2. sample \in [Resource -> Storage] /\ DOMAIN garbage = Resource
    BY ZenonT(60), <1>3, <1>4, <1>6
  <2> QED
    BY ZenonT(60), <1>3, <1>4, <2>1, <2>2 DEF PlainTypeOK
<1>16. ResourceInv
  BY ZenonT(60), ResourceInitially DEF Init
<1> QED
  <2>1. DataOK
    BY ZenonT(60), <1>8, <1>9, <1>12, <1>13 DEF DataOK
  <2>2. StopOK
    BY ZenonT(60), <1>3, ConfdataAssumption DEF StopOK
  <2> QED
    BY ZenonT(60), <1>14, <1>15, <1>16, <2>1, <2>2, DataIsCutOK DEF ConfdataInv

\* The invariant holds in every state.
LEMMA ConfdataInvariant == Spec => []ConfdataInv
<1>1. ConfdataInv /\ [Next]_vars => ConfdataInv'
  <2> SUFFICES ASSUME ConfdataInv, [Next]_vars PROVE ConfdataInv'
    OBVIOUS
  <2>0. ResourceInv /\ PlainTypeOK /\ CutOK
    BY ZenonT(60) DEF ConfdataInv
  <2>1. ResourceInv'
    BY ZenonT(60), <2>0, ResourceInvStep
  <2>2. PlainTypeOK'
    BY ZenonT(60), <2>0, PlainTypeStep
  <2>3. CutOK' /\ StopOK' /\ (memory_status' # "HARD_OOM" => DataOK' /\ CronOK')
    BY ZenonT(60), DataStep
  <2> QED
    BY ZenonT(60), <2>1, <2>2, <2>3 DEF ConfdataInv
<1> QED
  BY <1>1, InitiallyInv, PTL DEF Spec

-----------------------------------------------------------------------------
(* What follows for the maps in use and for the garbage.                    *)

\* Scripts and the replay read maps that the invariant speaks of.
LEMMA MapsInUseAreMaps ==
  ASSUME ConfdataInv, NEW storage \in MapsInUse
  PROVE  /\ MapOK(content, storage)
         /\ Reachable(content, storage) \subseteq constants \/ storage = updating
<1>1. \/ memory_status # "HARD_OOM" /\ storage = updating
      \/ \E r \in Resource : storage = sample[r]
  BY ZenonT(60) DEF MapsInUse, ConfdataInv, ResourceInv
<1>2. SamplesOK /\ (memory_status # "HARD_OOM" => MapOK(content, updating))
  BY ZenonT(60) DEF ConfdataInv, CutOK, DataOK, MapsOK
<1> QED
  BY ZenonT(60), <1>1, <1>2 DEF SamplesOK

\* Every variable has its type: for every number of workers, samples, keys and cells.
THEOREM ConfdataTypeCorrect == Spec => []TypeOK
<1>1. ConfdataInv => TypeOK
  <2> SUFFICES ASSUME ConfdataInv PROVE TypeOK
    OBVIOUS
  <2>1. \A r \in Resource : IsGarbage(garbage[r])
    BY ZenonT(60), NoneIsNoResource DEF ConfdataInv, CutOK, ReplayTypeOK, Lists, ListOf
  <2>2. IsGarbage(updating_garbage) /\ updating \in Storage
    BY ZenonT(60) DEF ConfdataInv, CutOK, ReplayTypeOK, Lists, ListOf
  <2>3. content \in [Cell -> Array \cup {Free, Value}] /\ constants \subseteq Cell
    BY ZenonT(60) DEF ConfdataInv, CutOK, HeapOK
  <2>4. dirty_inactive_resources \subseteq Resource
    BY ZenonT(60) DEF ConfdataInv, ResourceInv
  <2> QED
    BY ZenonT(60), <2>1, <2>2, <2>3, <2>4 DEF ConfdataInv, ResourceInv, PlainTypeOK, TypeOK
<1> QED
  BY <1>1, ConfdataInvariant, PTL

\* A script never meets destroyed memory.  The garbage that is destroyed with a sample is
\* referred to by this sample and by older ones only, and the older ones are empty by
\* then: the ring is cleared from the oldest sample on, and the sample that is reset is
\* the oldest one.
THEOREM ScriptsReadWholeMaps == Spec => []MapsInUseAreWhole
<1>1. ConfdataInv => MapsInUseAreWhole
  <2> SUFFICES ASSUME ConfdataInv, NEW storage \in MapsInUse, NEW c \in Reachable(content, storage)
               PROVE  content[c] # Free /\ (c \in constants \/ storage = updating)
    BY ZenonT(60) DEF MapsInUseAreWhole
  <2>1. MapOK(content, storage) /\ (Reachable(content, storage) \subseteq constants \/ storage = updating)
    BY ZenonT(60), MapsInUseAreMaps
  <2> QED
    BY ZenonT(60), <2>1, MapIsWhole
<1> QED
  BY <1>1, ConfdataInvariant, PTL

\* No value or array that was published leaks or is destroyed twice: it is in the newest
\* map or has one node in one list.
THEOREM GarbageIsDestroyedOnce == Spec => []GarbageIsComplete
<1>1. ConfdataInv => GarbageIsComplete
  <2> SUFFICES ASSUME ConfdataInv, memory_status # "HARD_OOM" PROVE GarbageIsComplete
    BY ZenonT(60) DEF GarbageIsComplete
  <2>0. ListsOK /\ CronOK
    BY ZenonT(60) DEF ConfdataInv, DataOK
  <2>1. ASSUME NEW c \in constants, c \in Reachable(content, Newest) PROVE NodesOf(c) = {}
    <3>1. ASSUME NEW l \in Lists, NEW n \in DOMAIN ListOf(l) PROVE n[1] # c
      <4>1. NodeOK(l, n)
        BY ZenonT(60), <2>0 DEF ListsOK
      <4> QED
        BY ZenonT(60), <2>1, <4>1 DEF NodeOK
    <3>2. ASSUME NEW x \in NodesOf(c) PROVE FALSE
      <4>1. PICK l \in Lists : x \in {l} \X {n \in DOMAIN ListOf(l) : n[1] = c}
        BY ZenonT(60) DEF NodesOf
      <4>2. PICK n \in DOMAIN ListOf(l) : n[1] = c
        BY SMTT(60), <4>1
      <4> QED
        BY ZenonT(60), <3>1, <4>2
    <3> QED
      BY ZenonT(60), <3>2
  <2>2. ASSUME NEW c \in constants, c \notin Reachable(content, Newest)
        PROVE  \E x \in NodesOf(c) : NodesOf(c) = {x}
    <3>1. PICK l \in Lists : \E n \in DOMAIN ListOf(l) : n[1] = c
      BY ZenonT(60), <2>0, <2>2 DEF ListsOK, Listed
    <3>2. PICK n \in DOMAIN ListOf(l) : n[1] = c
      BY ZenonT(60), <3>1
    <3>3. \A m \in Lists : \A o \in DOMAIN ListOf(m) : o[1] = c => m = l /\ o = n
      BY ZenonT(60), <2>0, <3>2 DEF ListsOK
    <3>4. <<l, n>> \in NodesOf(c)
      <4>1. <<l, n>> \in {l} \X {o \in DOMAIN ListOf(l) : o[1] = c}
        BY SMTT(60), <3>2
      <4> QED
        BY ZenonT(60), <4>1 DEF NodesOf
    <3>5. ASSUME NEW x \in NodesOf(c) PROVE x = <<l, n>>
      <4>1. PICK m \in Lists : x \in {m} \X {o \in DOMAIN ListOf(m) : o[1] = c}
        BY ZenonT(60) DEF NodesOf
      <4>2. PICK o \in DOMAIN ListOf(m) : o[1] = c /\ x = <<m, o>>
        BY SMTT(60), <4>1
      <4> QED
        BY ZenonT(60), <3>3, <4>2
    <3> QED
      BY ZenonT(60), <3>4, <3>5
  <2>3. \A l \in Lists : \A n \in DOMAIN ListOf(l) : n[1] \in constants /\ ListOf(l)[n] = 1
    BY ZenonT(60), <2>0 DEF ListsOK, NodeOK
  <2>4. master_pc # "switch" => garbage[active_resource_id] = NoGarbage
    BY ZenonT(60), <2>0 DEF CronOK
  <2> QED
    BY ZenonT(60), <2>1, <2>2, <2>3, <2>4 DEF GarbageIsComplete
<1> QED
  BY <1>1, ConfdataInvariant, PTL

\* A key with several sections has one value in all of them, in every map that a script or
\* the replay may read, although every copy is looked up, judged and written on its own
\* and memory may run out between two of them.  No assertion about the copies fails before.
THEOREM CopiesAgree == Spec => []CopiesAreConsistent
<1>1. ConfdataInv => CopiesAreConsistent
  <2> SUFFICES ASSUME ConfdataInv PROVE CopiesAreConsistent
    OBVIOUS
  <2>1. ASSUME NEW storage \in MapsInUse, NEW k \in Dotted, NEW f \in Sections(k)
        PROVE  (IF k \in DOMAIN ArrayOf(content, storage, f) THEN ArrayOf(content, storage, f)[k]
                ELSE Absent)
               = (IF Val(content, storage, k) \in Cell THEN Val(content, storage, k) ELSE Absent)
    <3>1. MapOK(content, storage) /\ f \in Section
      BY ZenonT(60), MapsInUseAreMaps, FirstIsASection
    <3> DEFINE a == ArrayOf(content, storage, f)
               v == Val(content, storage, k)
    <3>2. IF v \in Cell THEN k \in DOMAIN a /\ a[k] = v ELSE k \notin DOMAIN a
      BY ZenonT(60), <3>1 DEF MapOK
    <3> HIDE DEF a, v
    <3>3. (IF k \in DOMAIN a THEN a[k] ELSE Absent) = (IF v \in Cell THEN v ELSE Absent)
      BY ZenonT(60), <3>2
    <3> QED
      BY ZenonT(60), <3>3 DEF a, v
  <2>2. aborted = "copies" => memory_status = "HARD_OOM"
    BY ZenonT(60) DEF ConfdataInv, StopOK
  <2> QED
    BY ZenonT(60), <2>1, <2>2 DEF CopiesAreConsistent
<1> QED
  BY <1>1, ConfdataInvariant, PTL

-----------------------------------------------------------------------------
(* What a script reads does not change while it reads.                      *)

\* The sample in r, and all that it refers to, are after the step what they were before.
IsFrozen(r) ==
  /\ sample'[r] = sample[r]
  /\ \A c \in Reachable(content, sample[r]) : content'[c] = content[c]

\* A step that changes no memory and no sample.
LEMMA StillFrozen ==
  ASSUME NEW r \in Resource, UNCHANGED heapVars, UNCHANGED sampleVars
  PROVE  IsFrozen(r)
<1>1. content' = content /\ sample' = sample
  BY ZenonT(60) DEF heapVars, sampleVars
<1> QED
  BY ZenonT(60), <1>1 DEF IsFrozen

\* An event writes to cells that were free, and samples refer to published ones: also an
\* event that is cut off.
LEMMA WriteFreezes ==
  ASSUME DataOK, NEW k \in Key, NEW v \in FreeCells \cup {Absent}, WritesCopies(k, v),
         NEW r \in Resource
  PROVE  IsFrozen(r)
<1>1. PICK places \in SUBSET Range(Places(k)) : PutElement(k, v, places)
  BY ZenonT(60) DEF WritesCopies, Complete, CutOff
<1>2. sample' = sample /\ \A c \in constants : content'[c] = content[c]
  BY ZenonT(60), <1>1, PartKeeps
<1>3. Reachable(content, sample[r]) \subseteq constants
  BY ZenonT(60) DEF DataOK, MapsOK, SamplesOK
<1> QED
  BY ZenonT(60), <1>2, <1>3 DEF IsFrozen

\* Every event of the binlog leaves all samples alone.
LEMMA EventFreezes ==
  ASSUME PlainTypeOK, DataOK, memory_status # "HARD_OOM", Event, NEW r \in Resource
  PROVE  IsFrozen(r)
<1>0. MapOK(content, updating)
  BY ZenonT(60) DEF DataOK, MapsOK
<1>1. ASSUME NEW k \in Key, NewEntry(k) PROVE IsFrozen(r)
  <2>1. UNCHANGED heapVars /\ UNCHANGED sampleVars
    BY ZenonT(60), <1>1 DEF NewEntry
  <2> QED
    BY ZenonT(60), <2>1, StillFrozen
<1>2. ASSUME NoEntry PROVE IsFrozen(r)
  <2>1. UNCHANGED heapVars /\ UNCHANGED sampleVars
    BY ZenonT(60), <1>2 DEF NoEntry
  <2> QED
    BY ZenonT(60), <2>1, StillFrozen
<1> QED
  BY ZenonT(60), <1>0, <1>1, <1>2, EventEnds, WriteFreezes

\* Destroying the garbage of one sample leaves another alone that does not refer to it.
LEMMA DestroyFreezes ==
  ASSUME DataOK, NEW next \in Resource, destroy_garbage(next), NEW r \in Resource,
         sample'[r] = sample[r],
         \A c \in Reachable(content, sample[r]) : c \notin Destroyed(next)
  PROVE  IsFrozen(r)
<1>1. HeapOK /\ ListsOK /\ Reachable(content, sample[r]) \subseteq Cell
  BY ZenonT(60) DEF DataOK, HeapOK, MapsOK, SamplesOK
<1>2. \A c \in Cell : c \notin Destroyed(next) => content'[c] = content[c]
  BY ZenonT(60), <1>1, DestroyKeeps
<1> QED
  BY ZenonT(60), <1>1, <1>2 DEF IsFrozen

\* The cron resets and clears samples that the table of pids has no user of.
LEMMA CronFreezes ==
  ASSUME ResourceInv, PlainTypeOK, DataOK, CronOK, Cron,
         NEW r \in Resource, ~is_resource_unused(r)
  PROVE  IsFrozen(r)
<1>1. CASE UNCHANGED heapVars /\ UNCHANGED sampleVars
  BY ZenonT(60), <1>1, StillFrozen
<1>2. CASE Publish
  <2> DEFINE next == get_next_inactive_resource_id
  <2>1. next \in Resource /\ Published(next) /\ next # r /\ destroy_garbage(next)
    BY ZenonT(60), <1>2, WhatIsPublished DEF Publish, BeginReset
  <2>2. \A c \in Reachable(content, sample[r]) : c \notin Destroyed(next)
    BY ZenonT(60), <1>2, <2>1, ResetAlone
  <2> HIDE DEF next
  <2>3. sample'[r] = sample[r]
    BY ZenonT(60), <2>1 DEF Published
  <2> QED
    BY ZenonT(60), <2>1, <2>2, <2>3, DestroyFreezes
<1>3. ASSUME NEW s \in Resource, ClearSample(s) PROVE IsFrozen(r)
  <2>1. /\ BeginClear(s) /\ s # r /\ destroy_garbage(s)
        /\ sample' = [sample EXCEPT ![s] = EmptyStorage]
    BY ZenonT(60), <1>3 DEF ClearSample, BeginClear
  <2>2. \A c \in Reachable(content, sample[r]) : c \notin Destroyed(s)
    BY ZenonT(60), <2>1, ClearedAlone
  <2>3. sample'[r] = sample[r]
    BY ZenonT(60), <2>1 DEF PlainTypeOK
  <2> QED
    BY ZenonT(60), <2>1, <2>2, <2>3, DestroyFreezes
<1>4. ASSUME StartCycle \/ AbortOnSizes \/ Switch \/ DoNotPublish \/ SampleIsCleared \/ EndCycle
      PROVE  UNCHANGED heapVars /\ UNCHANGED sampleVars
  BY ZenonT(60), <1>4 DEF StartCycle, AbortOnSizes, Switch, DoNotPublish, SampleIsCleared, EndCycle,
     dataVars
<1> QED
  BY ZenonT(60), <1>1, <1>2, <1>3, <1>4 DEF Cron

\* A script that keeps its sample keeps the whole map: whatever events the master replays,
\* whatever it publishes, resets, clears and destroys meanwhile, every entry, array and
\* value that the script can reach is the one that it could reach before.
THEOREM ScriptsReadOneSnapshot == Spec => ScriptsReadOneMap
<1>1. ASSUME ConfdataInv, [Next]_vars, NEW r \in Resource, ~is_resource_unused(r)
      PROVE  IsFrozen(r)
  <2>0. /\ ResourceInv /\ PlainTypeOK /\ StopOK
        /\ memory_status # "HARD_OOM" => DataOK /\ CronOK
    BY ZenonT(60), <1>1 DEF ConfdataInv
  <2>1. CASE Event
    BY ZenonT(60), <2>0, <2>1, BusyHasMemory, EventFreezes
  <2>2. CASE Cron
    BY ZenonT(60), <1>1, <2>0, <2>2, BusyHasMemory, CronFreezes
  <2>3. ASSUME (\E p \in Worker : Script(p) \/ Kill(p)) \/ UNCHANGED vars
        PROVE  UNCHANGED heapVars /\ UNCHANGED sampleVars
    BY ZenonT(60), <2>3 DEF Script, Kill, dataVars, vars
  <2>4. ASSUME (\E p \in Worker : Script(p) \/ Kill(p)) \/ UNCHANGED vars
        PROVE  IsFrozen(r)
    BY ZenonT(60), <2>3, <2>4, StillFrozen
  <2> QED
    BY ZenonT(60), <1>1, <2>1, <2>2, <2>4 DEF Next
<1>2. ConfdataInv /\ [Next]_vars =>
        [\A w \in Worker : current[w] \in Resource /\ current'[w] = current[w] =>
           LET r == current[w]
           IN  /\ sample'[r] = sample[r]
               /\ \A c \in Reachable(content, sample[r]) : content'[c] = content[c]]_vars
  <2> SUFFICES ASSUME ConfdataInv, [Next]_vars, NEW w \in Worker, current[w] \in Resource,
                      NEW r, r = current[w]
               PROVE  IsFrozen(r)
    BY ZenonT(60) DEF IsFrozen
  <2>1. r \in Resource /\ ~is_resource_unused(r)
    BY ZenonT(60) DEF ConfdataInv, ResourceInv, is_resource_unused
  <2> QED
    BY ZenonT(60), <1>1, <2>1
<1> QED
  BY <1>2, ConfdataInvariant, PTL DEF Spec, ScriptsReadOneMap
=============================================================================
