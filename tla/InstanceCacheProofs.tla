------------------------- MODULE InstanceCacheProofs -------------------------
(***************************************************************************)
(* The instance cache for any number of workers, keys and elements: the    *)
(* references of every element are counted, and a script reads only        *)
(* elements that are not destroyed.                                        *)
(***************************************************************************)
EXTENDS InstanceCache, FiniteSetTheorems, TLAPS

USE CacheAssumption, SMTT(60)

\* An element is stored under one key at most.
StoredOnce == \A k, l \in Key : storage[k] = storage[l] /\ storage[k] # Nothing => k = l

\* What the local variables of a call are, point by point: the element to insert has no
\* owner but its creator, and all that request_cache points to is in used_elements.
PlaceOK(w) ==
  /\ pc[w] \in {"lock", "insert", "clear"} => key[w] \in Key
  /\ HoldsLocal(w) => local[w] \in Element
  /\ pc[w] = "insert" => refcnt[local[w]] = 1
  /\ pc[w] = "clear" => local[w] \in used_elements[w] \cup {Nothing}
  /\ pc[w] \notin {"insert", "fetched", "clear"} => local[w] = Nothing
  /\ \A k \in Key : request_cache[w][k] \in used_elements[w] \cup {Nothing}

PlacesOK == StoredOnce /\ \A w \in Worker : PlaceOK(w)

CacheInv == TypeOK /\ RefsCounted /\ PlacesOK

-----------------------------------------------------------------------------
(* Counting and choosing.                                                   *)

\* A set of naturals has a least element: the one that a new element is made in.
LEMMA LeastElement ==
  ASSUME NEW S, S \subseteq Nat, S # {}
  PROVE  \E x \in S : \A y \in S : x <= y
<1>1. PICK x \in S : \A y \in S : ~(<<y, x>> \in OpToRel(<, Nat))
  BY ZenonT(60), NatLessThanWellFounded, WFMin
<1>2. \A y \in S : <<y, x>> \in OpToRel(<, Nat) <=> y < x
  BY DEF OpToRel
<1>3. \A y \in S : ~(y < x)
  BY ZenonT(60), <1>1, <1>2
<1>4. x \in Nat /\ \A y \in S : y \in Nat /\ x <= y
  BY <1>3
<1> QED
  BY <1>4

\* The owners of an element can be counted.
LEMMA OwnersAreFinite ==
  ASSUME NEW e
  PROVE  /\ IsFiniteSet(StoredAt(e)) /\ Cardinality(StoredAt(e)) \in Nat
         /\ IsFiniteSet(UsedBy(e)) /\ Cardinality(UsedBy(e)) \in Nat
         /\ IsFiniteSet(LocalOf(e)) /\ Cardinality(LocalOf(e)) \in Nat
<1>1. StoredAt(e) \in SUBSET Key /\ UsedBy(e) \in SUBSET Worker /\ LocalOf(e) \in SUBSET Worker
  BY DEF StoredAt, UsedBy, LocalOf
<1> QED
  BY <1>1, FS_Subset, FS_CardinalityType

\* A set that counts zero is empty.
LEMMA NoneLeft ==
  ASSUME NEW S, IsFiniteSet(S), Cardinality(S) = 0
  PROVE  S = {}
BY FS_EmptySet

\* A release takes one owner away.
LEMMA OneLess ==
  ASSUME NEW S, NEW x \in S, IsFiniteSet(S)
  PROVE  /\ IsFiniteSet(S \ {x}) /\ Cardinality(S \ {x}) \in Nat /\ Cardinality(S) \in Nat
         /\ Cardinality(S) = Cardinality(S \ {x}) + 1
<1>1. IsFiniteSet(S \ {x}) /\ Cardinality(S \ {x}) = Cardinality(S) - 1
  BY FS_RemoveElement
<1> QED
  BY <1>1, FS_CardinalityType

\* A new reference is one more owner.
LEMMA OneMore ==
  ASSUME NEW S, NEW x, x \notin S, IsFiniteSet(S)
  PROVE  /\ IsFiniteSet(S \cup {x}) /\ Cardinality(S) \in Nat
         /\ Cardinality(S \cup {x}) = Cardinality(S) + 1
BY FS_AddElement, FS_CardinalityType

Counted(e) ==
  refcnt[e] = lost[e] + Cardinality(StoredAt(e)) + Cardinality(UsedBy(e))
                      + Cardinality(LocalOf(e))

\* An element with an owner has references left, and is live.
LEMMA OwnedIsLive ==
  ASSUME TypeOK, RefsCounted, NEW e \in Element,
         StoredAt(e) # {} \/ UsedBy(e) # {} \/ LocalOf(e) # {}
  PROVE  refcnt[e] > 0 /\ element[e] = "live"
<1>1. Cardinality(StoredAt(e)) > 0 \/ Cardinality(UsedBy(e)) > 0 \/ Cardinality(LocalOf(e)) > 0
  BY OwnersAreFinite, FS_EmptySet
<1>2. refcnt[e] \in Nat /\ lost[e] \in Nat /\ Counted(e)
  BY DEF TypeOK, ElementTypeOK, RefsCounted, Counted
<1>3. refcnt[e] > 0
  BY <1>1, <1>2, OwnersAreFinite DEF Counted
<1> QED
  BY <1>3 DEF RefsCounted

\* An element without references has no owner.
LEMMA NotLiveNotOwned ==
  ASSUME TypeOK, RefsCounted, NEW e \in Element, element[e] # "live" \/ refcnt[e] = 0
  PROVE  /\ StoredAt(e) = {} /\ UsedBy(e) = {} /\ LocalOf(e) = {}
         /\ refcnt[e] = 0 /\ lost[e] = 0
<1>1. StoredAt(e) = {} /\ UsedBy(e) = {} /\ LocalOf(e) = {}
  BY OwnedIsLive
<1>2. refcnt[e] \in Nat /\ lost[e] \in Nat /\ Counted(e) /\ refcnt[e] = 0
  BY DEF TypeOK, ElementTypeOK, RefsCounted, Counted
<1> QED
  BY <1>1, <1>2, FS_EmptySet DEF Counted

\* The element that w inserts has no other owner.
LEMMA NewElementIsPrivate ==
  ASSUME CacheInv, NEW w \in Worker, pc[w] = "insert"
  PROVE  /\ local[w] \in Element /\ lost[local[w]] = 0 /\ refcnt[local[w]] = 1
         /\ StoredAt(local[w]) = {} /\ UsedBy(local[w]) = {} /\ LocalOf(local[w]) = {w}
<1> DEFINE e == local[w]
<1>1. e \in Element /\ refcnt[e] = 1 /\ w \in LocalOf(e) /\ Counted(e) /\ lost[e] \in Nat
  BY ZenonT(60)
  DEF CacheInv, TypeOK, ElementTypeOK, RefsCounted, Counted, PlacesOK, PlaceOK, LocalOf,
      HoldsLocal
<1> HIDE DEF e
<1>2. /\ Cardinality(LocalOf(e)) = Cardinality(LocalOf(e) \ {w}) + 1
      /\ Cardinality(LocalOf(e) \ {w}) \in Nat /\ IsFiniteSet(LocalOf(e) \ {w})
  BY <1>1, OwnersAreFinite, OneLess
<1>c. Cardinality(StoredAt(e)) \in Nat /\ Cardinality(UsedBy(e)) \in Nat
  BY OwnersAreFinite
<1>3. /\ lost[e] = 0 /\ Cardinality(StoredAt(e)) = 0 /\ Cardinality(UsedBy(e)) = 0
      /\ Cardinality(LocalOf(e) \ {w}) = 0
  BY <1>1, <1>2, <1>c DEF Counted
<1>4. StoredAt(e) = {} /\ UsedBy(e) = {} /\ LocalOf(e) \ {w} = {}
  BY ZenonT(60), <1>2, <1>3, OwnersAreFinite, NoneLeft
<1>5. LocalOf(e) = {w}
  BY <1>1, <1>4
<1> QED
  BY <1>1, <1>3, <1>4, <1>5 DEF e

-----------------------------------------------------------------------------
(* Types.                                                                   *)

USE DEF bufferVars, elementVars, timeVars, keyVars, scriptVars, localVars, workerVars,
        masterVars, Goto

RequestTypeOK == request_cache \in [Worker -> [Key -> Element \cup {Nothing}]]
LockTypeOK == mutex \in [Mutex -> Process \cup {Nobody}] /\ master_pc \in MasterPoint
BoundTypeOK == calls \in 0 .. MaxCalls /\ kills \in 0 .. MaxKills

\* Every step keeps the types of the storage and of the ages of its elements.
LEMMA KeyTypeStep ==
  ASSUME CacheInv, Next
  PROVE  KeyTypeOK'
<1>0. KeyTypeOK /\ \A w \in Worker : PlaceOK(w)
  BY DEF CacheInv, TypeOK, PlacesOK
<1>1. ASSUME NEW w \in Worker, InsertElement(w) PROVE KeyTypeOK'
  <2>1. local[w] \in Element /\ key[w] \in Key
    BY <1>0, <1>1 DEF InsertElement, PlaceOK, HoldsLocal
  <2> QED
    BY <2>1, <1>0, <1>1 DEF InsertElement, KeyTypeOK, Age, Fresh, Expired
<1>2. ASSUME NEW w \in Worker, NEW k \in Key, UpdateTtl(w, k) PROVE KeyTypeOK'
  BY <1>0, <1>2 DEF UpdateTtl, Called, KeyTypeOK, Age, Fresh, Early, Expired
<1>3. ASSUME NEW w \in Worker, NEW k \in Key, Del(w, k) PROVE KeyTypeOK'
  BY <1>0, <1>3 DEF Del, Called, KeyTypeOK, Age, Fresh, Early, Expired
<1>4. ASSUME NEW w \in Worker, Kill(w) PROVE KeyTypeOK'
  BY <1>0, <1>4 DEF Kill, Forget, KeyTypeOK, Age, Fresh, Early, Expired
<1>5. ASSUME PurgeErases PROVE KeyTypeOK'
  BY <1>0, <1>5 DEF PurgeErases, MasterGoto, release, KeyTypeOK, Age, Fresh, Early, Expired
<1>6. ASSUME NEW k \in Key, Tick(k) PROVE KeyTypeOK'
  BY <1>0, <1>6 DEF Tick, KeyTypeOK, Age, Fresh, Early, Expired
<1>7. ASSUME NEW w \in Worker,
             \/ Refresh(w) \/ StartSync(w) \/ SyncNext(w) \/ TryLockFails(w)
             \/ LockAndCopy(w) \/ CopyFails(w) \/ InsertFails(w) \/ Inserted(w)
             \/ NotInserted(w) \/ KeepFetched(w) \/ FinishScript(w) \/ LeaveBuffer(w)
      PROVE  KeyTypeOK'
  <2>1. UNCHANGED <<storage, age, inserted_by_process>>
    BY ZenonT(60), <1>7 DEF Refresh, StartSync, SyncNext, AfterSync, TryLockFails, Forget,
      LockAndCopy, CopyFails, InsertFails, release, Inserted, ClearAndUnlock, clear_garbage,
      NotInserted, KeepFetched, KeepElement, FinishScript, LeaveBuffer
  <2> QED
    BY <1>0, <2>1 DEF KeyTypeOK
<1>8. ASSUME NEW w \in Worker, NEW k \in Key,
             \/ Store(w, k) \/ FetchOwn(w, k) \/ FetchMisses(w, k) \/ FetchHits(w, k)
      PROVE  KeyTypeOK'
  <2>1. UNCHANGED <<storage, age, inserted_by_process>>
    BY ZenonT(60), <1>8 DEF Store, Called, FetchOwn, FetchMisses, FetchShared, FetchHits,
      add_ref
  <2> QED
    BY <1>0, <2>1 DEF KeyTypeOK
<1>9. ASSUME PurgeLocksFirst \/ PurgeLocksSecond \/ PurgeClears PROVE KeyTypeOK'
  <2>1. UNCHANGED <<storage, age, inserted_by_process>>
    BY ZenonT(60), <1>9 DEF PurgeLocksFirst, PurgeLocks, MasterGoto, PurgeOrder,
      PurgeLocksSecond, PurgeClears, clear_garbage
  <2> QED
    BY <1>0, <2>1 DEF KeyTypeOK
<1> QED
  BY <1>1, <1>2, <1>3, <1>4, <1>5, <1>6, <1>7, <1>8, <1>9 DEF Next, Call, Wait, Step,
    MasterStep

\* LockAndCopy finds a place that is free.
LEMMA CopyTakesFreePlace ==
  ASSUME NEW w \in Worker, LockAndCopy(w)
  PROVE  \E e \in Element : /\ element[e] = "none" /\ local' = [local EXCEPT ![w] = e]
                            /\ element' = [element EXCEPT ![e] = "live"]
                            /\ refcnt' = [refcnt EXCEPT ![e] = 1]
                            /\ pc' = [pc EXCEPT ![w] = "insert"]
<1> DEFINE free == {e \in Element : element[e] = "none"}
           e == CHOOSE f \in free : \A g \in free : f <= g
<1>1. free # {} /\ free \subseteq Nat
  BY ZenonT(60) DEF LockAndCopy
<1>2. e \in free
  <2> HIDE DEF free
  <2> QED
    BY ZenonT(60), <1>1, LeastElement
<1>3. /\ element' = [element EXCEPT ![e] = "live"]
      /\ refcnt' = [refcnt EXCEPT ![e] = 1]
      /\ local' = [local EXCEPT ![w] = e]
      /\ pc' = [pc EXCEPT ![w] = "insert"]
  BY ZenonT(60) DEF LockAndCopy
<1> HIDE DEF e
<1> QED
  BY ZenonT(60), <1>2, <1>3

\* Every step keeps the types of the points and the locals of the scripts.
LEMMA ScriptTypeStep ==
  ASSUME CacheInv, Next
  PROVE  ScriptTypeOK'
<1>0. ScriptTypeOK /\ KeyTypeOK /\ \A w \in Worker : PlaceOK(w)
  BY DEF CacheInv, TypeOK, PlacesOK
<1>1. ASSUME NEW w \in Worker, Refresh(w) PROVE ScriptTypeOK'
  BY <1>0, <1>1 DEF Refresh, ScriptTypeOK, Point
<1>2. ASSUME NEW w \in Worker, StartSync(w) PROVE ScriptTypeOK'
  BY <1>0, <1>2 DEF StartSync, ScriptTypeOK, Point
<1>3. ASSUME NEW w \in Worker, SyncNext(w) PROVE ScriptTypeOK'
  BY <1>0, <1>3 DEF SyncNext, AfterSync, ScriptTypeOK, Point
<1>4. ASSUME NEW w \in Worker, TryLockFails(w) PROVE ScriptTypeOK'
  <2>1. key[w] \in Key
    BY <1>0, <1>4 DEF TryLockFails, PlaceOK
  <2> QED
    BY <2>1, <1>0, <1>4 DEF TryLockFails, AfterSync, Forget, ScriptTypeOK, Point
<1>5. ASSUME NEW w \in Worker, LockAndCopy(w) PROVE ScriptTypeOK'
  <2>1. \E e \in Element : local' = [local EXCEPT ![w] = e] /\ pc' = [pc EXCEPT ![w] = "insert"]
    BY <1>5, CopyTakesFreePlace
  <2> QED
    BY <2>1, <1>0, <1>5 DEF LockAndCopy, ScriptTypeOK, Point
<1>6. ASSUME NEW w \in Worker, CopyFails(w) PROVE ScriptTypeOK'
  BY <1>0, <1>6 DEF CopyFails, ScriptTypeOK, Point
<1>7. ASSUME NEW w \in Worker, InsertElement(w) PROVE ScriptTypeOK'
  <2>1. local[w] \in Element /\ key[w] \in Key /\ storage[key[w]] \in Element \cup {Nothing}
    BY <1>0, <1>7 DEF InsertElement, PlaceOK, HoldsLocal, KeyTypeOK
  <2> QED
    BY <2>1, <1>0, <1>7 DEF InsertElement, SwapElements, ScriptTypeOK, Point
<1>8. ASSUME NEW w \in Worker, InsertFails(w) PROVE ScriptTypeOK'
  BY <1>0, <1>8 DEF InsertFails, release, ScriptTypeOK, Point
<1>9. ASSUME NEW w \in Worker, Inserted(w) PROVE ScriptTypeOK'
  BY <1>0, <1>9 DEF Inserted, ClearAndUnlock, clear_garbage, Forget, AfterSync,
    ScriptTypeOK, Point
<1>10. ASSUME NEW w \in Worker, NotInserted(w) PROVE ScriptTypeOK'
  BY <1>0, <1>10 DEF NotInserted, ClearAndUnlock, clear_garbage, Forget, AfterSync,
    ScriptTypeOK, Point
<1>11. ASSUME NEW w \in Worker, KeepFetched(w) PROVE ScriptTypeOK'
  <2>1. local[w] \in Element
    BY <1>0, <1>11 DEF KeepFetched, PlaceOK, HoldsLocal
  <2> QED
    BY <2>1, <1>0, <1>11 DEF KeepFetched, KeepElement, Forget, ScriptTypeOK, Point
<1>12. ASSUME NEW w \in Worker, FinishScript(w) PROVE ScriptTypeOK'
  BY <1>0, <1>12 DEF FinishScript, Forget, ScriptTypeOK, Point
<1>13. ASSUME NEW w \in Worker, LeaveBuffer(w) PROVE ScriptTypeOK'
  BY <1>0, <1>13 DEF LeaveBuffer, ScriptTypeOK, Point
<1>14. ASSUME NEW w \in Worker, Kill(w) PROVE ScriptTypeOK'
  BY <1>0, <1>14 DEF Kill, Forget, ScriptTypeOK, Point
<1>15. ASSUME NEW w \in Worker, NEW k \in Key, Store(w, k) PROVE ScriptTypeOK'
  BY <1>0, <1>15 DEF Store, Called, ScriptTypeOK, Point
<1>16. ASSUME NEW w \in Worker, NEW k \in Key, FetchOwn(w, k) PROVE ScriptTypeOK'
  BY <1>0, <1>16 DEF FetchOwn, ScriptTypeOK, Point
<1>17. ASSUME NEW w \in Worker, NEW k \in Key, FetchMisses(w, k) PROVE ScriptTypeOK'
  BY <1>0, <1>17 DEF FetchMisses, FetchShared, Called, ScriptTypeOK, Point
<1>18. ASSUME NEW w \in Worker, NEW k \in Key, FetchHits(w, k) PROVE ScriptTypeOK'
  <2>1. storage[k] \in Element \cup {Nothing}
    BY <1>0 DEF KeyTypeOK
  <2> QED
    BY <2>1, <1>0, <1>18 DEF FetchHits, ScriptTypeOK, Point
<1>19. ASSUME NEW w \in Worker, NEW k \in Key, UpdateTtl(w, k) PROVE ScriptTypeOK'
  BY <1>0, <1>19 DEF UpdateTtl, Called, ScriptTypeOK, Point
<1>20. ASSUME NEW w \in Worker, NEW k \in Key, Del(w, k) PROVE ScriptTypeOK'
  BY <1>0, <1>20 DEF Del, Called, ScriptTypeOK, Point
<1>21. ASSUME \/ PurgeLocksFirst \/ PurgeLocksSecond \/ PurgeErases \/ PurgeClears
       PROVE  ScriptTypeOK'
  <2>1. UNCHANGED <<pc, used_elements, storing_delayed, local, key>>
    BY ZenonT(60), <1>21 DEF PurgeLocksFirst, PurgeLocks, MasterGoto, PurgeOrder,
      PurgeLocksSecond, PurgeErases, release, PurgeClears, clear_garbage
  <2> QED
    BY <1>0, <2>1 DEF ScriptTypeOK
<1>22. ASSUME NEW k \in Key, Tick(k) PROVE ScriptTypeOK'
  <2>1. UNCHANGED <<pc, used_elements, storing_delayed, local, key>>
    BY ZenonT(60), <1>22 DEF Tick
  <2> QED
    BY <1>0, <2>1 DEF ScriptTypeOK
<1> QED
  BY <1>1, <1>2, <1>3, <1>4, <1>5, <1>6, <1>7, <1>8, <1>9, <1>10, <1>11, <1>12, <1>13,
    <1>14, <1>15, <1>16, <1>17, <1>18, <1>19, <1>20, <1>21, <1>22 DEF Next, Call, Wait,
    Step, MasterStep

\* Every step keeps the types of the flags.
LEMMA FlagTypeStep ==
  ASSUME CacheInv, Next
  PROVE  FlagTypeOK'
<1>0. FlagTypeOK
  BY DEF CacheInv, TypeOK
<1>1. ASSUME NEW w \in Worker, SyncNext(w) PROVE FlagTypeOK'
  BY ZenonT(60), <1>0, <1>1 DEF SyncNext, AfterSync, FlagTypeOK
<1>2. ASSUME NEW w \in Worker, TryLockFails(w) PROVE FlagTypeOK'
  BY <1>0, <1>2 DEF TryLockFails, AfterSync, Forget, FlagTypeOK
<1>3. ASSUME NEW w \in Worker, InsertElement(w) PROVE FlagTypeOK'
  BY ZenonT(60), <1>0, <1>3 DEF InsertElement, SwapElements, FlagTypeOK
<1>4. ASSUME NEW w \in Worker, Inserted(w) PROVE FlagTypeOK'
  BY <1>0, <1>4 DEF Inserted, ClearAndUnlock, clear_garbage, Forget, AfterSync, FlagTypeOK
<1>5. ASSUME NEW w \in Worker, NotInserted(w) PROVE FlagTypeOK'
  BY <1>0, <1>5 DEF NotInserted, ClearAndUnlock, clear_garbage, Forget, AfterSync,
    FlagTypeOK
<1>6. ASSUME NEW w \in Worker, KeepFetched(w) PROVE FlagTypeOK'
  BY <1>0, <1>6 DEF KeepFetched, KeepElement, release, Forget, FlagTypeOK
<1>7. ASSUME NEW w \in Worker, FinishScript(w) PROVE FlagTypeOK'
  BY <1>0, <1>7 DEF FinishScript, Forget, FlagTypeOK
<1>8. ASSUME NEW w \in Worker, LeaveBuffer(w) PROVE FlagTypeOK'
  BY <1>0, <1>8 DEF LeaveBuffer, FlagTypeOK
<1>9. ASSUME NEW w \in Worker, Kill(w) PROVE FlagTypeOK'
  BY <1>0, <1>9 DEF Kill, Forget, FlagTypeOK
<1>10. ASSUME NEW w \in Worker, NEW k \in Key, FetchMisses(w, k) PROVE FlagTypeOK'
  BY ZenonT(60), <1>0, <1>10 DEF FetchMisses, FetchShared, Called, FlagTypeOK
<1>11. ASSUME NEW w \in Worker, NEW k \in Key, UpdateTtl(w, k) PROVE FlagTypeOK'
  BY ZenonT(60), <1>0, <1>11 DEF UpdateTtl, Called, FlagTypeOK
<1>12. ASSUME PurgeErases PROVE FlagTypeOK'
  BY <1>0, <1>12 DEF PurgeErases, MasterGoto, release, FlagTypeOK
<1>13. ASSUME PurgeClears PROVE FlagTypeOK'
  BY ZenonT(60), <1>0, <1>13 DEF PurgeClears, MasterGoto, clear_garbage, FlagTypeOK
<1>14. ASSUME NEW w \in Worker,
              \/ Refresh(w) \/ StartSync(w) \/ LockAndCopy(w) \/ CopyFails(w)
              \/ InsertFails(w)
       PROVE  FlagTypeOK'
  <2>1. UNCHANGED <<early_fetch_performed, memory_swap_required, syncing, ending, active>>
    BY ZenonT(60), <1>14 DEF Refresh, StartSync, LockAndCopy, CopyFails, InsertFails,
      release
  <2> QED
    BY <1>0, <2>1 DEF FlagTypeOK
<1>15. ASSUME NEW w \in Worker, NEW k \in Key,
              \/ Store(w, k) \/ FetchOwn(w, k) \/ FetchHits(w, k) \/ Del(w, k)
       PROVE  FlagTypeOK'
  <2>1. UNCHANGED <<early_fetch_performed, memory_swap_required, syncing, ending, active>>
    BY ZenonT(60), <1>15 DEF Store, Called, FetchOwn, FetchHits, FetchShared, add_ref, Del
  <2> QED
    BY <1>0, <2>1 DEF FlagTypeOK
<1>16. ASSUME PurgeLocksFirst \/ PurgeLocksSecond PROVE FlagTypeOK'
  <2>1. UNCHANGED <<early_fetch_performed, memory_swap_required, syncing, ending, active>>
    BY ZenonT(60), <1>16 DEF PurgeLocksFirst, PurgeLocks, MasterGoto, PurgeOrder,
      PurgeLocksSecond
  <2> QED
    BY <1>0, <2>1 DEF FlagTypeOK
<1>17. ASSUME NEW k \in Key, Tick(k) PROVE FlagTypeOK'
  <2>1. UNCHANGED <<early_fetch_performed, memory_swap_required, syncing, ending, active>>
    BY ZenonT(60), <1>17 DEF Tick
  <2> QED
    BY <1>0, <2>1 DEF FlagTypeOK
<1> QED
  BY <1>1, <1>2, <1>3, <1>4, <1>5, <1>6, <1>7, <1>8, <1>9, <1>10, <1>11, <1>12, <1>13,
    <1>14, <1>15, <1>16, <1>17 DEF Next, Call, Wait, Step, MasterStep

\* Every step keeps the types of the caches of the running script.
LEMMA RequestTypeStep ==
  ASSUME CacheInv, Next
  PROVE  RequestTypeOK'
<1>0. RequestTypeOK /\ ScriptTypeOK /\ \A w \in Worker : PlaceOK(w)
  BY DEF CacheInv, TypeOK, RequestTypeOK, PlacesOK
<1>1. ASSUME NEW w \in Worker, Inserted(w) PROVE RequestTypeOK'
  <2>1. local[w] \in Element /\ key[w] \in Key
    BY <1>0, <1>1 DEF Inserted, ClearAndUnlock, PlaceOK, ScriptTypeOK, RequestTypeOK
  <2> QED
    BY <2>1, <1>0, <1>1 DEF Inserted, RequestTypeOK
<1>2. ASSUME NEW w \in Worker, KeepFetched(w) PROVE RequestTypeOK'
  <2>1. local[w] \in Element /\ key[w] \in Key \cup {Nothing}
    BY <1>0, <1>2 DEF KeepFetched, PlaceOK, HoldsLocal, ScriptTypeOK, RequestTypeOK
  <2> QED
    BY <2>1, <1>0, <1>2 DEF KeepFetched, RequestTypeOK
<1>3. ASSUME NEW w \in Worker, LeaveBuffer(w) PROVE RequestTypeOK'
  BY <1>0, <1>3 DEF LeaveBuffer, RequestTypeOK
<1>4. ASSUME NEW w \in Worker, Kill(w) PROVE RequestTypeOK'
  BY <1>0, <1>4 DEF Kill, Forget, RequestTypeOK
<1>5. ASSUME NEW w \in Worker, NEW k \in Key, Del(w, k) PROVE RequestTypeOK'
  BY <1>0, <1>5 DEF Del, Called, RequestTypeOK
<1>6. ASSUME NEW w \in Worker,
             \/ Refresh(w) \/ StartSync(w) \/ SyncNext(w) \/ TryLockFails(w)
             \/ LockAndCopy(w) \/ CopyFails(w) \/ InsertElement(w) \/ InsertFails(w)
             \/ NotInserted(w) \/ FinishScript(w)
      PROVE  RequestTypeOK'
  <2>1. UNCHANGED <<request_cache>>
    BY ZenonT(60), <1>6 DEF Refresh, StartSync, SyncNext, AfterSync, TryLockFails, Forget,
      LockAndCopy, CopyFails, InsertElement, SwapElements, InsertFails, release,
      NotInserted, ClearAndUnlock, clear_garbage, FinishScript
  <2> QED
    BY <1>0, <2>1 DEF RequestTypeOK
<1>7. ASSUME NEW w \in Worker, NEW k \in Key,
             \/ Store(w, k) \/ FetchOwn(w, k) \/ FetchMisses(w, k) \/ FetchHits(w, k)
             \/ UpdateTtl(w, k)
      PROVE  RequestTypeOK'
  <2>1. UNCHANGED <<request_cache>>
    BY ZenonT(60), <1>7 DEF Store, Called, FetchOwn, FetchMisses, FetchShared, FetchHits,
      add_ref, UpdateTtl
  <2> QED
    BY <1>0, <2>1 DEF RequestTypeOK
<1>8. ASSUME \/ PurgeLocksFirst \/ PurgeLocksSecond \/ PurgeErases \/ PurgeClears
      PROVE  RequestTypeOK'
  <2>1. UNCHANGED <<request_cache>>
    BY ZenonT(60), <1>8 DEF PurgeLocksFirst, PurgeLocks, MasterGoto, PurgeOrder,
      PurgeLocksSecond, PurgeErases, release, PurgeClears, clear_garbage
  <2> QED
    BY <1>0, <2>1 DEF RequestTypeOK
<1>9. ASSUME NEW k \in Key, Tick(k) PROVE RequestTypeOK'
  <2>1. UNCHANGED <<request_cache>>
    BY ZenonT(60), <1>9 DEF Tick
  <2> QED
    BY <1>0, <2>1 DEF RequestTypeOK
<1> QED
  BY <1>1, <1>2, <1>3, <1>4, <1>5, <1>6, <1>7, <1>8, <1>9 DEF Next, Call, Wait, Step,
    MasterStep

\* Every step keeps the types of the two mutexes.
LEMMA LockTypeStep ==
  ASSUME CacheInv, Next
  PROVE  LockTypeOK'
<1>0. LockTypeOK
  BY DEF CacheInv, TypeOK, LockTypeOK
<1>1. ASSUME NEW w \in Worker, LockAndCopy(w) PROVE LockTypeOK'
  BY ZenonT(60), <1>0, <1>1 DEF LockAndCopy, Mutex, Process, MasterPoint, LockTypeOK
<1>2. ASSUME NEW w \in Worker, CopyFails(w) PROVE LockTypeOK'
  BY ZenonT(60), <1>0, <1>2 DEF CopyFails, Mutex, Process, MasterPoint, LockTypeOK
<1>3. ASSUME NEW w \in Worker, Inserted(w) PROVE LockTypeOK'
  BY ZenonT(60), <1>0, <1>3 DEF Inserted, ClearAndUnlock, clear_garbage, Forget,
    AfterSync, Mutex, Process, MasterPoint, LockTypeOK
<1>4. ASSUME NEW w \in Worker, NotInserted(w) PROVE LockTypeOK'
  BY ZenonT(60), <1>0, <1>4 DEF NotInserted, ClearAndUnlock, clear_garbage, Forget,
    AfterSync, Mutex, Process, MasterPoint, LockTypeOK
<1>5. ASSUME NEW w \in Worker, Kill(w) PROVE LockTypeOK'
  BY ZenonT(60), <1>0, <1>5 DEF Kill, Forget, Mutex, Process, MasterPoint, LockTypeOK
<1>6. ASSUME PurgeLocksFirst PROVE LockTypeOK'
  BY ZenonT(60), <1>0, <1>6 DEF PurgeLocksFirst, PurgeLocks, MasterGoto, PurgeOrder,
    Mutex, Process, MasterPoint, LockTypeOK
<1>7. ASSUME PurgeLocksSecond PROVE LockTypeOK'
  BY ZenonT(60), <1>0, <1>7 DEF PurgeLocksSecond, PurgeLocks, MasterGoto, PurgeOrder,
    Mutex, Process, MasterPoint, LockTypeOK
<1>8. ASSUME PurgeErases PROVE LockTypeOK'
  BY <1>0, <1>8 DEF PurgeErases, MasterGoto, release, Mutex, Process, MasterPoint,
    LockTypeOK
<1>9. ASSUME PurgeClears PROVE LockTypeOK'
  BY ZenonT(60), <1>0, <1>9 DEF PurgeClears, MasterGoto, clear_garbage, Mutex, Process,
    MasterPoint, LockTypeOK
<1>10. ASSUME NEW w \in Worker,
              \/ Refresh(w) \/ StartSync(w) \/ SyncNext(w) \/ TryLockFails(w)
              \/ InsertElement(w) \/ InsertFails(w) \/ KeepFetched(w) \/ FinishScript(w)
              \/ LeaveBuffer(w)
       PROVE  LockTypeOK'
  <2>1. UNCHANGED <<mutex, master_pc>>
    BY ZenonT(60), <1>10 DEF Refresh, StartSync, SyncNext, AfterSync, TryLockFails, Forget,
      InsertElement, SwapElements, InsertFails, release, KeepFetched, KeepElement,
      FinishScript, LeaveBuffer
  <2> QED
    BY <1>0, <2>1 DEF LockTypeOK
<1>11. ASSUME NEW w \in Worker, NEW k \in Key,
              \/ Store(w, k) \/ FetchOwn(w, k) \/ FetchMisses(w, k) \/ FetchHits(w, k)
              \/ UpdateTtl(w, k) \/ Del(w, k)
       PROVE  LockTypeOK'
  <2>1. UNCHANGED <<mutex, master_pc>>
    BY ZenonT(60), <1>11 DEF Store, Called, FetchOwn, FetchMisses, FetchShared, FetchHits,
      add_ref, UpdateTtl, Del
  <2> QED
    BY <1>0, <2>1 DEF LockTypeOK
<1>12. ASSUME NEW k \in Key, Tick(k) PROVE LockTypeOK'
  <2>1. UNCHANGED <<mutex, master_pc>>
    BY ZenonT(60), <1>12 DEF Tick
  <2> QED
    BY <1>0, <2>1 DEF LockTypeOK
<1> QED
  BY <1>1, <1>2, <1>3, <1>4, <1>5, <1>6, <1>7, <1>8, <1>9, <1>10, <1>11, <1>12 DEF Next,
    Call, Wait, Step, MasterStep

\* Every step keeps the counters of calls and kills within their bounds.
LEMMA BoundTypeStep ==
  ASSUME CacheInv, Next
  PROVE  BoundTypeOK'
<1>0. BoundTypeOK
  BY DEF CacheInv, TypeOK, BoundTypeOK
<1>1. ASSUME NEW w \in Worker, Kill(w) PROVE BoundTypeOK'
  BY <1>0, <1>1 DEF Kill, Forget, BoundTypeOK
<1>2. ASSUME NEW w \in Worker, NEW k \in Key, Store(w, k) PROVE BoundTypeOK'
  BY <1>0, <1>2 DEF Store, Called, BoundTypeOK
<1>3. ASSUME NEW w \in Worker, NEW k \in Key, FetchMisses(w, k) PROVE BoundTypeOK'
  BY <1>0, <1>3 DEF FetchMisses, FetchShared, Called, BoundTypeOK
<1>4. ASSUME NEW w \in Worker, NEW k \in Key, FetchHits(w, k) PROVE BoundTypeOK'
  BY <1>0, <1>4 DEF FetchHits, FetchShared, Called, add_ref, BoundTypeOK
<1>5. ASSUME NEW w \in Worker, NEW k \in Key, UpdateTtl(w, k) PROVE BoundTypeOK'
  BY <1>0, <1>5 DEF UpdateTtl, Called, BoundTypeOK
<1>6. ASSUME NEW w \in Worker, NEW k \in Key, Del(w, k) PROVE BoundTypeOK'
  BY <1>0, <1>6 DEF Del, Called, BoundTypeOK
<1>7. ASSUME NEW w \in Worker,
             \/ Refresh(w) \/ StartSync(w) \/ SyncNext(w) \/ TryLockFails(w)
             \/ LockAndCopy(w) \/ CopyFails(w) \/ InsertElement(w) \/ InsertFails(w)
             \/ Inserted(w) \/ NotInserted(w) \/ KeepFetched(w) \/ FinishScript(w)
             \/ LeaveBuffer(w)
      PROVE  BoundTypeOK'
  <2>1. UNCHANGED <<calls, kills>>
    BY ZenonT(60), <1>7 DEF Refresh, StartSync, SyncNext, AfterSync, TryLockFails, Forget,
      LockAndCopy, CopyFails, InsertElement, SwapElements, InsertFails, release, Inserted,
      ClearAndUnlock, clear_garbage, NotInserted, KeepFetched, KeepElement, FinishScript,
      LeaveBuffer
  <2> QED
    BY <1>0, <2>1 DEF BoundTypeOK
<1>8. ASSUME NEW w \in Worker, NEW k \in Key, FetchOwn(w, k) PROVE BoundTypeOK'
  <2>1. UNCHANGED <<calls, kills>>
    BY ZenonT(60), <1>8 DEF FetchOwn
  <2> QED
    BY <1>0, <2>1 DEF BoundTypeOK
<1>9. ASSUME \/ PurgeLocksFirst \/ PurgeLocksSecond \/ PurgeErases \/ PurgeClears
      PROVE  BoundTypeOK'
  <2>1. UNCHANGED <<calls, kills>>
    BY ZenonT(60), <1>9 DEF PurgeLocksFirst, PurgeLocks, MasterGoto, PurgeOrder,
      PurgeLocksSecond, PurgeErases, release, PurgeClears, clear_garbage
  <2> QED
    BY <1>0, <2>1 DEF BoundTypeOK
<1>10. ASSUME NEW k \in Key, Tick(k) PROVE BoundTypeOK'
  <2>1. UNCHANGED <<calls, kills>>
    BY ZenonT(60), <1>10 DEF Tick
  <2> QED
    BY <1>0, <2>1 DEF BoundTypeOK
<1> QED
  BY <1>1, <1>2, <1>3, <1>4, <1>5, <1>6, <1>7, <1>8, <1>9, <1>10 DEF Next, Call, Wait, Step,
    MasterStep

-----------------------------------------------------------------------------
(* References.                                                              *)

\* The state of one element agrees with its counter, and the counter with its owners.
RefOK(e) ==
  /\ refcnt[e] \in Nat /\ lost[e] \in Nat
  /\ element[e] = "live" <=> refcnt[e] > 0
  /\ Counted(e)

\* The invariant counts the references of every element.
LEMMA RefsAreOK == CacheInv => \A e \in Element : RefOK(e)
BY DEF CacheInv, TypeOK, ElementTypeOK, RefsCounted, RefOK, Counted

\* Counted references of each element are all that RefsCounted says.
LEMMA RefsFromElements ==
  ASSUME \A e \in Element : RefOK(e)',
         refcnt' = [e \in Element |-> refcnt'[e]], lost' = [e \in Element |-> lost'[e]],
         element' \in [Element -> {"none", "live", "garbage"}]
  PROVE  ElementTypeOK' /\ RefsCounted'
<1>1. refcnt' \in [Element -> Nat] /\ lost' \in [Element -> Nat]
  BY DEF RefOK
<1> QED
  BY ZenonT(60), <1>1 DEF RefOK, Counted, ElementTypeOK, RefsCounted

\* What a move of w does to the owners by local variables.
LEMMA LocalMoves ==
  ASSUME ScriptTypeOK, NEW w \in Worker, NEW x, pc' = [pc EXCEPT ![w] = x],
         \A v \in Worker \ {w} : local'[v] = local[v]
  PROVE  \A e : LocalOf(e)' = IF x \in {"insert", "fetched"} /\ local'[w] = e
                              THEN LocalOf(e) \cup {w} ELSE LocalOf(e) \ {w}
BY DEF ScriptTypeOK, LocalOf, HoldsLocal

\* A worker that leaves the points with a local reference owns nothing by it.
LEMMA LocalLeaves ==
  ASSUME NEW w \in Worker, \A v \in Worker \ {w} : pc'[v] = pc[v] /\ local'[v] = local[v],
         pc'[w] \notin {"insert", "fetched"}
  PROVE  \A e : LocalOf(e)' = LocalOf(e) \ {w}
BY DEF LocalOf, HoldsLocal

\* A worker without a local reference that gets none changes no such owner.
LEMMA LocalKept ==
  ASSUME ScriptTypeOK, NEW w \in Worker, NEW x, pc' = [pc EXCEPT ![w] = x],
         \A v \in Worker \ {w} : local'[v] = local[v],
         x \notin {"insert", "fetched"}, ~HoldsLocal(w)
  PROVE  \A e : LocalOf(e)' = LocalOf(e)
BY DEF ScriptTypeOK, LocalOf, HoldsLocal

\* A step that changes no owner; it may clear the garbage.
LEMMA QuietRefs ==
  ASSUME CacheInv, UNCHANGED elementVars \/ clear_garbage, UNCHANGED <<storage, used_elements>>,
         \A e : LocalOf(e)' = LocalOf(e)
  PROVE  ElementTypeOK' /\ RefsCounted'
<1>0. ElementTypeOK /\ \A e \in Element : RefOK(e)
  BY RefsAreOK DEF CacheInv, TypeOK
<1>1. /\ element' \in [Element -> {"none", "live", "garbage"}]
      /\ \A e \in Element : element'[e] = "live" <=> element[e] = "live"
      /\ UNCHANGED <<refcnt, lost>>
  BY <1>0 DEF clear_garbage, ElementTypeOK
<1>2. \A e : StoredAt(e)' = StoredAt(e) /\ UsedBy(e)' = UsedBy(e)
  BY DEF StoredAt, UsedBy
<1>3. \A e \in Element : RefOK(e)'
  BY <1>0, <1>1, <1>2 DEF RefOK, Counted
<1> QED
  BY <1>0, <1>1, <1>3, RefsFromElements DEF ElementTypeOK

\* The calls that take and drop no reference.
LEMMA QuietCalls ==
  ASSUME CacheInv, NEW w \in Worker,
         \/ Refresh(w) \/ StartSync(w) \/ SyncNext(w) \/ TryLockFails(w) \/ CopyFails(w)
         \/ Inserted(w) \/ NotInserted(w)
         \/ \E k \in Key : \/ Store(w, k) \/ FetchOwn(w, k) \/ FetchMisses(w, k)
                           \/ UpdateTtl(w, k) \/ Del(w, k)
  PROVE  ElementTypeOK' /\ RefsCounted'
<1>0. ScriptTypeOK
  BY DEF CacheInv, TypeOK
<1>1. /\ UNCHANGED elementVars \/ clear_garbage
      /\ UNCHANGED <<storage, used_elements>>
  BY ZenonT(60)
  DEF Refresh, StartSync, SyncNext, TryLockFails, CopyFails, Inserted, NotInserted,
      ClearAndUnlock, Store, FetchOwn, FetchMisses, UpdateTtl, Del
<1>2. ~HoldsLocal(w)
  BY DEF Refresh, StartSync, SyncNext, TryLockFails, CopyFails, Inserted, NotInserted,
         ClearAndUnlock, Store, FetchOwn, FetchMisses, FetchShared, UpdateTtl, Del, Synced,
         HoldsLocal
<1>3. \A v \in Worker \ {w} : local'[v] = local[v]
  BY <1>0
  DEF Refresh, StartSync, SyncNext, TryLockFails, CopyFails, Inserted, NotInserted,
      ClearAndUnlock, Forget, Store, FetchOwn, FetchMisses, UpdateTtl, Del, ScriptTypeOK
<1>4. \E x \in {"run", "sync", "synced", "lock", "clear", "release"} : pc' = [pc EXCEPT ![w] = x]
  BY DEF Refresh, StartSync, SyncNext, TryLockFails, CopyFails, Inserted, NotInserted,
         AfterSync, Store, FetchOwn, FetchMisses, UpdateTtl, Del
<1>5. \A e : LocalOf(e)' = LocalOf(e)
  BY ZenonT(60), <1>0, <1>2, <1>3, <1>4, LocalKept
<1> QED
  BY ZenonT(60), <1>1, <1>5, QuietRefs

\* The steps of the purge that take and drop no reference.
LEMMA QuietMaster ==
  ASSUME CacheInv, PurgeLocksFirst \/ PurgeLocksSecond \/ PurgeClears \/ \E k \in Key : Tick(k)
  PROVE  ElementTypeOK' /\ RefsCounted'
<1>1. /\ UNCHANGED elementVars \/ clear_garbage
      /\ UNCHANGED <<storage, used_elements, pc, local>>
  BY ZenonT(60) DEF PurgeLocksFirst, PurgeLocksSecond, PurgeLocks, PurgeClears, Tick
<1>2. \A e : LocalOf(e)' = LocalOf(e)
  BY <1>1 DEF LocalOf, HoldsLocal
<1> QED
  BY <1>1, <1>2, QuietRefs

\* LockAndCopy: the first reference of a new element.
LEMMA CopyRefs ==
  ASSUME CacheInv, NEW w \in Worker, LockAndCopy(w)
  PROVE  ElementTypeOK' /\ RefsCounted'
<1>0. TypeOK /\ RefsCounted /\ ElementTypeOK /\ ScriptTypeOK /\ \A e \in Element : RefOK(e)
  BY RefsAreOK DEF CacheInv, TypeOK
<1>1. PICK new \in Element : /\ element[new] = "none" /\ local' = [local EXCEPT ![w] = new]
                             /\ element' = [element EXCEPT ![new] = "live"]
                             /\ refcnt' = [refcnt EXCEPT ![new] = 1]
                             /\ pc' = [pc EXCEPT ![w] = "insert"]
  BY CopyTakesFreePlace
<1>2. UNCHANGED <<lost, storage, used_elements>> /\ ~HoldsLocal(w)
  BY DEF LockAndCopy, HoldsLocal
<1>3. \A e : /\ StoredAt(e)' = StoredAt(e) /\ UsedBy(e)' = UsedBy(e)
             /\ e # new => LocalOf(e)' = LocalOf(e)
  BY <1>0, <1>1, <1>2 DEF StoredAt, UsedBy, LocalOf, HoldsLocal, ScriptTypeOK
<1>4. LocalOf(new)' = LocalOf(new) \cup {w}
  BY ZenonT(60), <1>0, <1>1, <1>2, LocalMoves DEF ScriptTypeOK
<1>5. ASSUME NEW e \in Element PROVE RefOK(e)'
  <2>1. CASE e # new
    BY <1>0, <1>1, <1>2, <1>3, <2>1 DEF RefOK, Counted, ElementTypeOK
  <2>2. CASE e = new
    <3>1. /\ StoredAt(e) = {} /\ UsedBy(e) = {} /\ LocalOf(e) = {} /\ lost[e] = 0
      BY <1>0, <1>1, <2>2, NotLiveNotOwned
    <3>2. /\ Cardinality(StoredAt(e)') = 0 /\ Cardinality(UsedBy(e)') = 0
          /\ Cardinality(LocalOf(e)') = 1
      BY <1>3, <1>4, <2>2, <3>1, FS_EmptySet, FS_Singleton
    <3>3. element'[e] = "live" /\ refcnt'[e] = 1 /\ lost'[e] = 0
      BY <1>0, <1>1, <1>2, <2>2, <3>1 DEF ElementTypeOK
    <3> QED
      BY <3>2, <3>3 DEF RefOK, Counted
  <2> QED
    BY <2>1, <2>2
<1> QED
  BY ZenonT(60), <1>0, <1>1, <1>2, <1>5, RefsFromElements DEF ElementTypeOK

\* InsertElement: the new element gets two owners for one, the old one moves from the
\* storage to used_elements.
LEMMA InsertRefs ==
  ASSUME CacheInv, NEW w \in Worker, InsertElement(w)
  PROVE  ElementTypeOK' /\ RefsCounted'
<1> DEFINE k == key[w]
           new == local[w]
           old == storage[k]
<1>0. /\ TypeOK /\ RefsCounted /\ ElementTypeOK /\ ScriptTypeOK /\ KeyTypeOK
      /\ \A e \in Element : RefOK(e)
  BY ZenonT(60), RefsAreOK DEF CacheInv, TypeOK
<1>1. /\ new \in Element /\ lost[new] = 0 /\ refcnt[new] = 1
      /\ StoredAt(new) = {} /\ UsedBy(new) = {} /\ LocalOf(new) = {w}
  BY ZenonT(60), NewElementIsPrivate DEF InsertElement
<1>2. k \in Key /\ old # new
  BY <1>1 DEF CacheInv, PlacesOK, PlaceOK, InsertElement, StoredAt
<1>3. /\ storage' = [storage EXCEPT ![k] = new]
      /\ used_elements' = [used_elements EXCEPT ![w] = @ \cup ({new, old} \ {Nothing})]
      /\ UNCHANGED <<element, lost, local>> /\ pc' = [pc EXCEPT ![w] = "clear"]
      /\ refcnt' = [e \in Element |-> CASE e = new -> 2
                                        [] e = old /\ old \in used_elements[w] -> refcnt[e] - 1
                                        [] OTHER -> refcnt[e]]
  BY ZenonT(60) DEF InsertElement, SwapElements
<1> HIDE DEF k, new, old
<1>4. \A e : LocalOf(e)' = LocalOf(e) \ {w}
  <2>1. pc'[w] = "clear" /\ \A v \in Worker \ {w} : pc'[v] = pc[v] /\ local'[v] = local[v]
    BY ZenonT(60), <1>0, <1>3 DEF ScriptTypeOK
  <2> QED
    BY <2>1, LocalLeaves
<1>5. ASSUME NEW e \in Element PROVE RefOK(e)'
  <2>0. RefOK(e)
    BY <1>0
  <2>1. CASE e = new
    <3>1. StoredAt(e)' = {k} /\ UsedBy(e)' = {w} /\ LocalOf(e)' = {}
      BY <1>0, <1>1, <1>2, <1>3, <1>4, <2>1 DEF StoredAt, UsedBy, KeyTypeOK, ScriptTypeOK
    <3>2. /\ Cardinality(StoredAt(e)') = 1 /\ Cardinality(UsedBy(e)') = 1
          /\ Cardinality(LocalOf(e)') = 0
      BY ZenonT(60), <3>1, FS_EmptySet, FS_Singleton
    <3>3. /\ refcnt'[e] = 2
          /\ element'[e] = element[e] /\ lost'[e] = 0
      BY ZenonT(60), <1>1, <1>2, <1>3, <2>1
    <3>4. element[e] = "live"
      BY <1>1, <2>0, <2>1 DEF RefOK
    <3> QED
      BY <3>2, <3>3, <3>4 DEF RefOK, Counted
  <2>2. CASE e # new /\ e = old
    <3>1. StoredAt(e)' = StoredAt(e) \ {k} /\ k \in StoredAt(e) /\ LocalOf(e)' = LocalOf(e)
      BY <1>0, <1>2, <1>3, <1>4, <2>2 DEF StoredAt, LocalOf, KeyTypeOK, old, new
    <3>2. /\ Cardinality(StoredAt(e)') \in Nat
          /\ Cardinality(StoredAt(e)) = Cardinality(StoredAt(e)') + 1
      BY ZenonT(60), <3>1, OwnersAreFinite, OneLess
    <3>3. element'[e] = element[e] /\ lost'[e] = lost[e] /\ Cardinality(UsedBy(e)) \in Nat
          /\ Cardinality(LocalOf(e)) \in Nat
      BY <1>3, OwnersAreFinite
    <3>4. CASE e \in used_elements[w]
      <4>1. UsedBy(e)' = UsedBy(e) /\ w \in UsedBy(e) /\ refcnt'[e] = refcnt[e] - 1
        BY <1>0, <1>3, <2>2, <3>4 DEF UsedBy, ScriptTypeOK
      <4>2. Cardinality(UsedBy(e)) # 0
        BY ZenonT(60), <4>1, OwnersAreFinite, NoneLeft
      <4> QED
        BY <2>0, <3>1, <3>2, <3>3, <4>1, <4>2 DEF RefOK, Counted
    <3>5. CASE e \notin used_elements[w]
      <4>1. UsedBy(e)' = UsedBy(e) \cup {w} /\ w \notin UsedBy(e) /\ refcnt'[e] = refcnt[e]
        BY <1>0, <1>3, <2>2, <3>5 DEF UsedBy, ScriptTypeOK
      <4>2. Cardinality(UsedBy(e)') = Cardinality(UsedBy(e)) + 1
        BY ZenonT(60), <4>1, OwnersAreFinite, OneMore
      <4> QED
        BY <2>0, <3>1, <3>2, <3>3, <4>1, <4>2 DEF RefOK, Counted
    <3> QED
      BY <3>4, <3>5
  <2>3. CASE e # new /\ e # old
    <3>1. StoredAt(e)' = StoredAt(e) /\ UsedBy(e)' = UsedBy(e) /\ LocalOf(e)' = LocalOf(e)
      <4>1. StoredAt(e)' = StoredAt(e)
        BY <1>0, <1>2, <1>3, <2>3 DEF StoredAt, KeyTypeOK, old
      <4>2. UsedBy(e)' = UsedBy(e)
        BY <1>0, <1>3, <2>3 DEF UsedBy, ScriptTypeOK
      <4>3. LocalOf(e)' = LocalOf(e)
        BY <1>4, <2>3 DEF LocalOf, new
      <4> QED
        BY <4>1, <4>2, <4>3
    <3>2. refcnt'[e] = refcnt[e] /\ element'[e] = element[e] /\ lost'[e] = lost[e]
      BY <1>3, <2>3
    <3> QED
      BY <2>0, <3>1, <3>2 DEF RefOK, Counted
  <2> QED
    BY <2>1, <2>2, <2>3
<1> QED
  BY <1>0, <1>3, <1>5, RefsFromElements DEF ElementTypeOK

\* fetch takes a reference under the storage mutex.
LEMMA FetchRefs ==
  ASSUME CacheInv, NEW w \in Worker, NEW k \in Key, FetchHits(w, k)
  PROVE  ElementTypeOK' /\ RefsCounted'
<1> DEFINE x == storage[k]
<1>0. /\ TypeOK /\ RefsCounted /\ ElementTypeOK /\ ScriptTypeOK /\ KeyTypeOK
      /\ \A e \in Element : RefOK(e)
  BY RefsAreOK DEF CacheInv, TypeOK
<1>1. x \in Element /\ element[x] = "live" /\ ~HoldsLocal(w)
  <2>1. x \in Element /\ StoredAt(x) # {}
    BY <1>0 DEF FetchHits, KeyTypeOK, StoredAt
  <2> QED
    BY ZenonT(60), <1>0, <2>1, OwnedIsLive DEF FetchHits, FetchShared, Synced, HoldsLocal
<1>2. /\ refcnt' = [refcnt EXCEPT ![x] = @ + 1]
      /\ local' = [local EXCEPT ![w] = x] /\ pc' = [pc EXCEPT ![w] = "fetched"]
      /\ UNCHANGED <<element, lost, storage, used_elements>>
  BY ZenonT(60) DEF FetchHits, add_ref
<1> HIDE DEF x
<1>3. ASSUME NEW e \in Element PROVE RefOK(e)'
  <2>1. StoredAt(e)' = StoredAt(e) /\ UsedBy(e)' = UsedBy(e)
    BY <1>2 DEF StoredAt, UsedBy
  <2>2. LocalOf(e)' = IF e = x THEN LocalOf(e) \cup {w} ELSE LocalOf(e)
    BY <1>0, <1>1, <1>2 DEF LocalOf, HoldsLocal, ScriptTypeOK
  <2>3. w \notin LocalOf(e)
    BY <1>1 DEF LocalOf
  <2>4. /\ Cardinality(LocalOf(e)') = IF e = x THEN Cardinality(LocalOf(e)) + 1
                                              ELSE Cardinality(LocalOf(e))
        /\ Cardinality(LocalOf(e)) \in Nat /\ Cardinality(StoredAt(e)) \in Nat
        /\ Cardinality(UsedBy(e)) \in Nat
    BY ZenonT(60), <2>2, <2>3, OwnersAreFinite, OneMore
  <2>5. refcnt'[e] = IF e = x THEN refcnt[e] + 1 ELSE refcnt[e]
    BY <1>0, <1>2 DEF ElementTypeOK
  <2> QED
    BY <1>0, <1>1, <1>2, <2>1, <2>4, <2>5 DEF RefOK, Counted
<1> QED
  BY ZenonT(60), <1>0, <1>2, <1>3, RefsFromElements DEF ElementTypeOK

\* InsertFails drops the only reference of the new element.
LEMMA DropRefs ==
  ASSUME CacheInv, NEW w \in Worker, InsertFails(w)
  PROVE  ElementTypeOK' /\ RefsCounted'
<1> DEFINE new == local[w]
<1>0. ElementTypeOK /\ ScriptTypeOK /\ \A e \in Element : RefOK(e)
  BY RefsAreOK DEF CacheInv, TypeOK
<1>1. /\ new \in Element /\ lost[new] = 0 /\ refcnt[new] = 1
      /\ StoredAt(new) = {} /\ UsedBy(new) = {} /\ LocalOf(new) = {w}
  BY ZenonT(60), NewElementIsPrivate DEF InsertFails
<1>2. /\ refcnt' = [e \in Element |-> IF e \in {new} THEN refcnt[e] - 1 ELSE refcnt[e]]
      /\ element' = [e \in Element |-> IF e \in {new} /\ refcnt[e] = 1 THEN "garbage"
                                                                     ELSE element[e]]
      /\ local' = [local EXCEPT ![w] = Nothing] /\ pc' = [pc EXCEPT ![w] = "clear"]
      /\ UNCHANGED <<lost, storage, used_elements>>
  BY ZenonT(60) DEF InsertFails, release
<1>a. \A e : w \in LocalOf(e) => e = new
  BY DEF LocalOf
<1> HIDE DEF new
<1>3. \A e : StoredAt(e)' = StoredAt(e) /\ UsedBy(e)' = UsedBy(e)
  BY <1>2 DEF StoredAt, UsedBy
<1>4. \A e : LocalOf(e)' = LocalOf(e) \ {w}
  <2>1. pc'[w] = "clear" /\ \A v \in Worker \ {w} : pc'[v] = pc[v] /\ local'[v] = local[v]
    BY ZenonT(60), <1>0, <1>2 DEF ScriptTypeOK
  <2> QED
    BY <2>1, LocalLeaves
<1>5. ASSUME NEW e \in Element PROVE RefOK(e)'
  <2>0. RefOK(e)
    BY <1>0
  <2>1. CASE e = new
    <3>1. StoredAt(e)' = {} /\ UsedBy(e)' = {} /\ LocalOf(e)' = {}
      BY <1>1, <1>3, <1>4, <2>1
    <3>2. refcnt'[e] = 0 /\ lost'[e] = 0 /\ element'[e] = "garbage"
      BY <1>1, <1>2, <2>1
    <3> QED
      BY <3>1, <3>2, FS_EmptySet DEF RefOK, Counted
  <2>2. CASE e # new
    <3>1. StoredAt(e)' = StoredAt(e) /\ UsedBy(e)' = UsedBy(e) /\ LocalOf(e)' = LocalOf(e)
      BY <1>a, <1>3, <1>4, <2>2
    <3>2. refcnt'[e] = refcnt[e] /\ lost'[e] = lost[e] /\ element'[e] = element[e]
      BY <1>2, <2>2
    <3> QED
      BY <2>0, <3>1, <3>2 DEF RefOK, Counted
  <2> QED
    BY <2>1, <2>2
<1> QED
  BY <1>0, <1>2, <1>5, RefsFromElements DEF ElementTypeOK

\* A reference moves from a local variable to used_elements, or is dropped if it is there.
LEMMA KeepRefs ==
  ASSUME CacheInv, NEW w \in Worker, KeepFetched(w)
  PROVE  ElementTypeOK' /\ RefsCounted'
<1> DEFINE x == local[w]
<1>0. ElementTypeOK /\ ScriptTypeOK /\ \A e \in Element : RefOK(e)
  BY RefsAreOK DEF CacheInv, TypeOK
<1>1. x \in Element /\ \A e : w \in LocalOf(e) <=> e = x
  BY DEF KeepFetched, CacheInv, PlacesOK, PlaceOK, HoldsLocal, LocalOf
<1>2. /\ used_elements' = [used_elements EXCEPT ![w] = @ \cup {x}]
      /\ refcnt' = [e \in Element |-> IF e \in used_elements[w] \cap {x} THEN refcnt[e] - 1
                                                                       ELSE refcnt[e]]
      /\ element' = [e \in Element |-> IF e \in used_elements[w] \cap {x} /\ refcnt[e] = 1
                                       THEN "garbage" ELSE element[e]]
      /\ local' = [local EXCEPT ![w] = Nothing] /\ pc' = [pc EXCEPT ![w] = "run"]
      /\ UNCHANGED <<lost, storage>>
  BY ZenonT(60) DEF KeepFetched, KeepElement, release, Forget
<1> HIDE DEF x
<1>3. \A e : LocalOf(e)' = LocalOf(e) \ {w}
  <2>1. pc'[w] = "run" /\ \A v \in Worker \ {w} : pc'[v] = pc[v] /\ local'[v] = local[v]
    BY ZenonT(60), <1>0, <1>2 DEF ScriptTypeOK
  <2> QED
    BY <2>1, LocalLeaves
<1>4. ASSUME NEW e \in Element PROVE RefOK(e)'
  <2>0. RefOK(e) /\ StoredAt(e)' = StoredAt(e) /\ lost'[e] = lost[e]
    BY <1>0, <1>2 DEF StoredAt
  <2>c. /\ Cardinality(StoredAt(e)) \in Nat /\ Cardinality(UsedBy(e)) \in Nat
        /\ IsFiniteSet(UsedBy(e)) /\ IsFiniteSet(LocalOf(e))
    BY OwnersAreFinite
  <2>1. CASE e # x
    <3>1. UsedBy(e)' = UsedBy(e) /\ LocalOf(e)' = LocalOf(e)
      BY ZenonT(60), <1>0, <1>1, <1>2, <1>3, <2>1 DEF UsedBy, ScriptTypeOK
    <3>2. refcnt'[e] = refcnt[e] /\ element'[e] = element[e]
      BY <1>2, <2>1
    <3> QED
      BY <2>0, <3>1, <3>2 DEF RefOK, Counted
  <2>2. CASE e = x
    <3>1. /\ Cardinality(LocalOf(e)') \in Nat
          /\ Cardinality(LocalOf(e)) = Cardinality(LocalOf(e)') + 1
      BY ZenonT(60), <1>1, <1>3, <2>c, <2>2, OneLess
    <3>2. CASE e \in used_elements[w]
      <4>1. UsedBy(e)' = UsedBy(e) /\ w \in UsedBy(e)
        BY <1>0, <1>2, <2>2, <3>2 DEF UsedBy, ScriptTypeOK
      <4>2. Cardinality(UsedBy(e)) # 0
        BY ZenonT(60), <4>1, <2>c, NoneLeft
      <4>3. refcnt[e] > 1
        BY <2>0, <2>c, <3>1, <4>2 DEF RefOK, Counted
      <4>4. refcnt'[e] = refcnt[e] - 1 /\ element'[e] = element[e]
        BY <1>2, <2>2, <3>2, <4>3
      <4> QED
        BY <2>0, <2>c, <3>1, <4>1, <4>3, <4>4 DEF RefOK, Counted
    <3>3. CASE e \notin used_elements[w]
      <4>1. UsedBy(e)' = UsedBy(e) \cup {w} /\ w \notin UsedBy(e)
        BY <1>0, <1>2, <2>2, <3>3 DEF UsedBy, ScriptTypeOK
      <4>2. Cardinality(UsedBy(e)') = Cardinality(UsedBy(e)) + 1
        BY ZenonT(60), <4>1, <2>c, OneMore
      <4>3. refcnt'[e] = refcnt[e] /\ element'[e] = element[e]
        BY <1>2, <3>3
      <4> QED
        BY <2>0, <2>c, <3>1, <4>2, <4>3 DEF RefOK, Counted
    <3> QED
      BY <3>2, <3>3
  <2> QED
    BY <2>1, <2>2
<1> QED
  BY <1>0, <1>2, <1>4, RefsFromElements DEF ElementTypeOK

\* The end of a script loses the reference of a fetch that it cuts off.
LEMMA FinishRefs ==
  ASSUME CacheInv, NEW w \in Worker, FinishScript(w)
  PROVE  ElementTypeOK' /\ RefsCounted'
<1>0. ElementTypeOK /\ ScriptTypeOK /\ \A e \in Element : RefOK(e)
  BY RefsAreOK DEF CacheInv, TypeOK
<1>1. \A e : w \in LocalOf(e) <=> pc[w] = "fetched" /\ e = local[w]
  BY DEF FinishScript, HoldsLocal, LocalOf
<1>2. /\ lost' = IF pc[w] = "fetched" THEN [lost EXCEPT ![local[w]] = @ + 1] ELSE lost
      /\ local' = [local EXCEPT ![w] = Nothing]
      /\ pc' = [pc EXCEPT ![w] = IF MustSync(w) THEN "sync" ELSE "release"]
      /\ UNCHANGED <<refcnt, element, storage, used_elements>>
  BY ZenonT(60) DEF FinishScript, Forget
<1>3. \A e : LocalOf(e)' = LocalOf(e) \ {w}
  <2>1. \A v \in Worker \ {w} : pc'[v] = pc[v] /\ local'[v] = local[v]
    BY ZenonT(60), <1>0, <1>2 DEF ScriptTypeOK
  <2>2. pc'[w] \in {"sync", "release"}
    BY <1>0, <1>2 DEF ScriptTypeOK
  <2> QED
    BY <2>1, <2>2, LocalLeaves
<1>4. ASSUME NEW e \in Element PROVE RefOK(e)'
  <2>0. /\ RefOK(e) /\ StoredAt(e)' = StoredAt(e) /\ UsedBy(e)' = UsedBy(e)
        /\ refcnt'[e] = refcnt[e] /\ element'[e] = element[e]
    BY <1>0, <1>2 DEF StoredAt, UsedBy
  <2>c. Cardinality(StoredAt(e)) \in Nat /\ Cardinality(UsedBy(e)) \in Nat
    BY OwnersAreFinite
  <2>1. CASE w \in LocalOf(e)
    <3>1. /\ Cardinality(LocalOf(e)') \in Nat
          /\ Cardinality(LocalOf(e)) = Cardinality(LocalOf(e)') + 1
      BY ZenonT(60), <1>3, <2>1, OwnersAreFinite, OneLess
    <3>2. lost'[e] = lost[e] + 1
      BY <1>0, <1>1, <1>2, <2>1 DEF ElementTypeOK
    <3> QED
      BY <2>0, <2>c, <3>1, <3>2 DEF RefOK, Counted
  <2>2. CASE w \notin LocalOf(e)
    <3>1. LocalOf(e)' = LocalOf(e) /\ lost'[e] = lost[e]
      BY <1>0, <1>1, <1>2, <1>3, <2>2 DEF ElementTypeOK
    <3> QED
      BY <2>0, <3>1 DEF RefOK, Counted
  <2> QED
    BY <2>1, <2>2
<1> QED
  BY ZenonT(60), <1>0, <1>2, <1>4, RefsFromElements DEF ElementTypeOK

\* What happens to the owners of an element when a script leaves its used_elements.
LEMMA UsedLeaves ==
  ASSUME ScriptTypeOK, NEW w \in Worker, used_elements' = [used_elements EXCEPT ![w] = {}],
         NEW e
  PROVE  /\ UsedBy(e)' = UsedBy(e) \ {w} /\ Cardinality(UsedBy(e)') \in Nat
         /\ Cardinality(UsedBy(e)) =
              Cardinality(UsedBy(e)') + (IF e \in used_elements[w] THEN 1 ELSE 0)
<1>1. UsedBy(e)' = UsedBy(e) \ {w} /\ (w \in UsedBy(e) <=> e \in used_elements[w])
  BY DEF UsedBy, ScriptTypeOK
<1>2. CASE w \in UsedBy(e)
  <2>1. /\ Cardinality(UsedBy(e)') \in Nat
        /\ Cardinality(UsedBy(e)) = Cardinality(UsedBy(e)') + 1
    BY ZenonT(60), <1>1, <1>2, OwnersAreFinite, OneLess
  <2> QED
    BY <1>1, <1>2, <2>1
<1>3. CASE w \notin UsedBy(e)
  <2>1. UsedBy(e)' = UsedBy(e) /\ Cardinality(UsedBy(e)) \in Nat
    BY <1>1, <1>3, OwnersAreFinite
  <2> QED
    BY <1>1, <1>3, <2>1
<1> QED
  BY <1>2, <1>3

\* free drops the references of used_elements.
LEMMA LeaveRefs ==
  ASSUME CacheInv, NEW w \in Worker, LeaveBuffer(w)
  PROVE  ElementTypeOK' /\ RefsCounted'
<1> DEFINE state == IF AllocatorIsFree THEN "none" ELSE "garbage"
<1>0. ElementTypeOK /\ ScriptTypeOK /\ \A e \in Element : RefOK(e)
  BY RefsAreOK DEF CacheInv, TypeOK
<1>1. /\ element' = [e \in Element |->
                       IF e \in {f \in Element : \/ element[f] = "garbage"
                                                 \/ f \in used_elements[w] /\ refcnt[f] = 1}
                       THEN state ELSE element[e]]
      /\ refcnt' = [e \in Element |-> IF e \in used_elements[w] THEN refcnt[e] - 1
                                                               ELSE refcnt[e]]
      /\ used_elements' = [used_elements EXCEPT ![w] = {}]
      /\ pc' = [pc EXCEPT ![w] = "idle"] /\ pc[w] = "release"
      /\ UNCHANGED <<lost, local, storage>>
  BY ZenonT(60) DEF LeaveBuffer
<1>2. state \in {"none", "garbage"}
  OBVIOUS
<1> HIDE DEF state
<1>3. \A e : LocalOf(e)' = LocalOf(e) /\ StoredAt(e)' = StoredAt(e)
  BY <1>0, <1>1 DEF LocalOf, HoldsLocal, ScriptTypeOK, StoredAt
<1>4. ASSUME NEW e \in Element PROVE RefOK(e)'
  <2>0. RefOK(e) /\ lost'[e] = lost[e]
    BY <1>0, <1>1
  <2>1. /\ Cardinality(UsedBy(e)') \in Nat
        /\ Cardinality(UsedBy(e)) =
             Cardinality(UsedBy(e)') + (IF e \in used_elements[w] THEN 1 ELSE 0)
    BY ZenonT(60), <1>0, <1>1, UsedLeaves
  <2>c. Cardinality(StoredAt(e)) \in Nat /\ Cardinality(LocalOf(e)) \in Nat
    BY OwnersAreFinite
  <2>2. refcnt'[e] = IF e \in used_elements[w] THEN refcnt[e] - 1 ELSE refcnt[e]
    BY <1>1
  <2>3. element'[e] = IF element[e] = "garbage" \/ (e \in used_elements[w] /\ refcnt[e] = 1)
                      THEN state ELSE element[e]
    BY <1>1
  <2>3a. /\ refcnt[e] \in Nat /\ lost[e] \in Nat /\ lost'[e] = lost[e]
         /\ refcnt[e] = lost[e] + Cardinality(StoredAt(e)) + Cardinality(UsedBy(e))
                                + Cardinality(LocalOf(e))
    BY ZenonT(60), <2>0 DEF RefOK, Counted
  <2>3b. refcnt'[e] \in Nat
    BY <2>1, <2>2, <2>3a, <2>c
  <2>3c. refcnt'[e] = lost'[e] + Cardinality(StoredAt(e)) + Cardinality(UsedBy(e)')
                               + Cardinality(LocalOf(e))
    BY <2>1, <2>2, <2>3a, <2>c
  <2>4. refcnt'[e] \in Nat /\ Counted(e)'
    BY ZenonT(60), <1>3, <2>3b, <2>3c DEF Counted
  <2>5. element'[e] = "live" <=> refcnt'[e] > 0
    BY <1>2, <2>0, <2>2, <2>3, <2>4 DEF RefOK
  <2> QED
    BY <2>0, <2>4, <2>5 DEF RefOK
<1>5. element' \in [Element -> {"none", "live", "garbage"}]
  BY <1>0, <1>1, <1>2 DEF ElementTypeOK
<1> QED
  BY <1>0, <1>1, <1>4, <1>5, RefsFromElements DEF ElementTypeOK

\* The references of a worker that dies are lost.
LEMMA KillRefs ==
  ASSUME CacheInv, NEW w \in Worker, Kill(w)
  PROVE  ElementTypeOK' /\ RefsCounted'
<1>0. ElementTypeOK /\ ScriptTypeOK /\ \A e \in Element : RefOK(e)
  BY RefsAreOK DEF CacheInv, TypeOK
<1>1. /\ lost' = [e \in Element |-> lost[e] + (IF e \in used_elements[w] THEN 1 ELSE 0)
                                            + (IF HoldsLocal(w) /\ e = local[w] THEN 1 ELSE 0)]
      /\ used_elements' = [used_elements EXCEPT ![w] = {}]
      /\ pc' = [pc EXCEPT ![w] = "idle"] /\ local' = [local EXCEPT ![w] = Nothing]
      /\ UNCHANGED <<refcnt, element, storage>>
  BY ZenonT(60) DEF Kill, Forget
<1>2. \A e : LocalOf(e)' = LocalOf(e) \ {w}
  <2>1. pc'[w] = "idle" /\ \A v \in Worker \ {w} : pc'[v] = pc[v] /\ local'[v] = local[v]
    BY ZenonT(60), <1>0, <1>1 DEF ScriptTypeOK
  <2> QED
    BY <2>1, LocalLeaves
<1>3. ASSUME NEW e \in Element PROVE RefOK(e)'
  <2>0. /\ RefOK(e) /\ refcnt'[e] = refcnt[e] /\ element'[e] = element[e]
        /\ StoredAt(e)' = StoredAt(e)
    BY <1>0, <1>1 DEF StoredAt
  <2>1. /\ Cardinality(UsedBy(e)') \in Nat
        /\ Cardinality(UsedBy(e)) =
             Cardinality(UsedBy(e)') + (IF e \in used_elements[w] THEN 1 ELSE 0)
    BY ZenonT(60), <1>0, <1>1, UsedLeaves
  <2>2. /\ Cardinality(LocalOf(e)') \in Nat
        /\ Cardinality(LocalOf(e)) =
             Cardinality(LocalOf(e)') + (IF HoldsLocal(w) /\ e = local[w] THEN 1 ELSE 0)
    <3>1. w \in LocalOf(e) <=> HoldsLocal(w) /\ e = local[w]
      BY DEF LocalOf
    <3>2. CASE w \in LocalOf(e)
      <4>1. /\ Cardinality(LocalOf(e)') \in Nat
            /\ Cardinality(LocalOf(e)) = Cardinality(LocalOf(e)') + 1
        BY ZenonT(60), <1>2, <3>2, OwnersAreFinite, OneLess
      <4> QED
        BY <3>1, <3>2, <4>1
    <3>3. CASE w \notin LocalOf(e)
      <4>1. LocalOf(e)' = LocalOf(e) /\ Cardinality(LocalOf(e)) \in Nat
        BY <1>2, <3>3, OwnersAreFinite
      <4> QED
        BY <3>1, <3>3, <4>1
    <3> QED
      BY <3>2, <3>3
  <2>c. Cardinality(StoredAt(e)) \in Nat
    BY OwnersAreFinite
  <2>3. lost'[e] = lost[e] + (IF e \in used_elements[w] THEN 1 ELSE 0)
                           + (IF HoldsLocal(w) /\ e = local[w] THEN 1 ELSE 0)
    BY <1>1
  <2> QED
    BY <2>0, <2>1, <2>2, <2>3, <2>c DEF RefOK, Counted
<1> QED
  BY <1>0, <1>1, <1>3, RefsFromElements DEF ElementTypeOK

\* The purge drops the reference of the storage to the elements that it erases.
LEMMA PurgeRefs ==
  ASSUME CacheInv, PurgeErases
  PROVE  ElementTypeOK' /\ RefsCounted'
<1>0. ElementTypeOK /\ KeyTypeOK /\ StoredOnce /\ \A e \in Element : RefOK(e)
  BY RefsAreOK DEF CacheInv, TypeOK, PlacesOK
<1>1. PICK old \in SUBSET ExpiredKeys :
        /\ release({storage[k] : k \in old})
        /\ storage' = [k \in Key |-> IF k \in old THEN Nothing ELSE storage[k]]
  BY ZenonT(60) DEF PurgeErases
<1> DEFINE S == {storage[k] : k \in old}
<1>2. UNCHANGED <<lost, used_elements, pc, local>>
  BY ZenonT(60), <1>1 DEF PurgeErases, release
<1>3. old \subseteq Key /\ \A k \in old : storage[k] # Nothing
  BY DEF ExpiredKeys
<1>4. \A e : LocalOf(e)' = LocalOf(e) /\ UsedBy(e)' = UsedBy(e)
  BY <1>2 DEF LocalOf, HoldsLocal, UsedBy
<1>5. /\ refcnt' = [e \in Element |-> IF e \in S THEN refcnt[e] - 1 ELSE refcnt[e]]
      /\ element' = [e \in Element |-> IF e \in S /\ refcnt[e] = 1 THEN "garbage"
                                                                  ELSE element[e]]
  BY ZenonT(60), <1>1 DEF release
<1>6. ASSUME NEW e \in Element PROVE RefOK(e)'
  <2>0. RefOK(e) /\ lost'[e] = lost[e]
    BY <1>0, <1>2
  <2>c. Cardinality(UsedBy(e)) \in Nat /\ Cardinality(LocalOf(e)) \in Nat
    BY OwnersAreFinite
  <2>1. CASE e \in S
    <3>1. PICK k \in old : storage[k] = e
      BY <2>1
    <3>2. StoredAt(e) = {k} /\ StoredAt(e)' = {}
      BY <1>0, <1>1, <1>3, <3>1 DEF StoredAt, StoredOnce
    <3>3. Cardinality(StoredAt(e)) = 1 /\ Cardinality(StoredAt(e)') = 0
      BY ZenonT(60), <3>2, FS_Singleton, FS_EmptySet
    <3>4. /\ refcnt'[e] = refcnt[e] - 1
          /\ element'[e] = IF refcnt[e] = 1 THEN "garbage" ELSE element[e]
      BY <1>5, <2>1
    <3> QED
      BY <1>4, <2>0, <2>c, <3>3, <3>4 DEF RefOK, Counted
  <2>2. CASE e \notin S
    <3>1. StoredAt(e)' = StoredAt(e)
      BY <1>0, <1>1, <1>3, <2>2 DEF StoredAt
    <3>2. refcnt'[e] = refcnt[e] /\ element'[e] = element[e]
      BY <1>5, <2>2
    <3> QED
      BY <1>4, <2>0, <3>1, <3>2 DEF RefOK, Counted
  <2> QED
    BY <2>1, <2>2
<1>7. /\ refcnt' = [e \in Element |-> refcnt'[e]] /\ lost' = [e \in Element |-> lost'[e]]
      /\ element' \in [Element -> {"none", "live", "garbage"}]
  <2> HIDE DEF S
  <2> QED
    BY <1>0, <1>2, <1>5 DEF ElementTypeOK
<1> QED
  BY ZenonT(60), <1>6, <1>7, RefsFromElements

\* Every step changes a counter as it changes the owners.
LEMMA RefsStep ==
  ASSUME CacheInv, Next
  PROVE  ElementTypeOK' /\ RefsCounted'
BY ZenonT(60), QuietCalls, QuietMaster, CopyRefs, InsertRefs, FetchRefs, DropRefs, KeepRefs,
   FinishRefs, LeaveRefs, KillRefs, PurgeRefs
DEF Next, Call, Wait, Step, MasterStep

\* Every step keeps the types.
LEMMA TypeStep ==
  ASSUME CacheInv, Next
  PROVE  TypeOK'
BY ZenonT(60), RefsStep, KeyTypeStep, ScriptTypeStep, FlagTypeStep, RequestTypeStep,
   LockTypeStep, BoundTypeStep
DEF TypeOK, RequestTypeOK, LockTypeOK, BoundTypeOK

-----------------------------------------------------------------------------
(* Places.                                                                  *)

\* Every step leaves an element under one key at most: insertion is of an element
\* that only its creator knows.
LEMMA StoredOnceStep ==
  ASSUME CacheInv, Next
  PROVE  StoredOnce'
<1>0. StoredOnce /\ KeyTypeOK
  BY DEF CacheInv, PlacesOK, TypeOK
<1>1. ASSUME NEW w \in Worker, InsertElement(w) PROVE StoredOnce'
  <2>1. storage' = [storage EXCEPT ![key[w]] = local[w]] /\ \A k \in Key : storage[k] # local[w]
    BY ZenonT(60), <1>1, NewElementIsPrivate DEF InsertElement, StoredAt
  <2> QED
    BY <1>0, <2>1 DEF StoredOnce, KeyTypeOK
<1>2. ASSUME PurgeErases PROVE StoredOnce'
  BY <1>0, <1>2 DEF PurgeErases, StoredOnce, KeyTypeOK
<1>3. ASSUME UNCHANGED storage PROVE StoredOnce'
  BY <1>0, <1>3 DEF StoredOnce
<1>4. UNCHANGED storage \/ PurgeErases \/ \E w \in Worker : InsertElement(w)
  <2>1. ASSUME NEW w \in Worker, Call(w) PROVE UNCHANGED storage
    BY ZenonT(60), <2>1
    DEF Call, Refresh, StartSync, Store, FetchOwn, FetchMisses, FetchHits, UpdateTtl, Del
  <2>2. ASSUME NEW w \in Worker, Step(w) PROVE UNCHANGED storage
    BY ZenonT(60), <2>2
    DEF Step, TryLockFails, LockAndCopy, CopyFails, Inserted, NotInserted, ClearAndUnlock,
        KeepFetched, LeaveBuffer
  <2>3. ASSUME NEW w \in Worker, SyncNext(w) \/ InsertFails(w) \/ FinishScript(w) \/ Kill(w)
        PROVE  UNCHANGED storage
    BY ZenonT(60), <2>3 DEF SyncNext, InsertFails, FinishScript, Kill
  <2>4. ASSUME MasterStep, ~PurgeErases PROVE UNCHANGED storage
    BY ZenonT(60), <2>4
    DEF MasterStep, PurgeLocksFirst, PurgeLocksSecond, PurgeLocks, PurgeClears
  <2>5. ASSUME NEW k \in Key, Tick(k) PROVE UNCHANGED storage
    BY ZenonT(60), <2>5 DEF Tick
  <2> QED
    BY <2>1, <2>2, <2>3, <2>4, <2>5 DEF Next, Wait
<1> QED
  BY <1>1, <1>2, <1>3, <1>4

\* Nobody else touches the counter of the element that v is about to insert.
LEMMA NewElementUntouched ==
  ASSUME CacheInv, Next, NEW v \in Worker, pc[v] = "insert", pc'[v] = "insert"
  PROVE  refcnt'[local[v]] = 1
<1> DEFINE x == local[v]
<1>0. ElementTypeOK /\ ScriptTypeOK /\ RefsCounted
  BY DEF CacheInv, TypeOK
<1>1. /\ x \in Element /\ refcnt[x] = 1 /\ element[x] = "live"
      /\ \A k \in Key : storage[k] # x
      /\ \A w \in Worker : x \notin used_elements[w]
      /\ \A w \in Worker \ {v} : pc[w] \in {"insert", "fetched"} => local[w] # x
  <2>1. /\ x \in Element /\ refcnt[x] = 1
        /\ StoredAt(x) = {} /\ UsedBy(x) = {} /\ LocalOf(x) = {v}
    BY NewElementIsPrivate
  <2>2. element[x] = "live"
    <3>1. RefOK(x)
      BY ZenonT(60), <2>1, RefsAreOK
    <3>2. refcnt[x] > 0
      BY <2>1
    <3> QED
      BY ZenonT(60), <3>1, <3>2 DEF RefOK
  <2>3. \A k \in Key : storage[k] # x
    BY <2>1 DEF StoredAt
  <2>4. \A w \in Worker : x \notin used_elements[w]
    BY <2>1 DEF UsedBy
  <2>5. \A w \in Worker \ {v} : pc[w] \in {"insert", "fetched"} => local[w] # x
    BY <2>1 DEF LocalOf, HoldsLocal
  <2> QED
    BY <2>1, <2>2, <2>3, <2>4, <2>5
<1> HIDE DEF x
<1>2. ASSUME NEW w \in Worker, LockAndCopy(w) PROVE refcnt'[x] = 1
  BY ZenonT(60), <1>0, <1>1, <1>2, CopyTakesFreePlace DEF ElementTypeOK
<1>3. ASSUME NEW w \in Worker, InsertElement(w) PROVE refcnt'[x] = 1
  <2>0. pc' = [pc EXCEPT ![w] = "clear"] /\ pc \in [Worker -> Point]
    BY ZenonT(60), <1>0, <1>3 DEF InsertElement, ScriptTypeOK, Goto
  <2>1. w # v
    BY <2>0
  <2>2. local[w] # x /\ storage[key[w]] # x
    BY ZenonT(60), <1>1, <1>3, <2>1 DEF InsertElement, CacheInv, PlacesOK, PlaceOK
  <2>3. refcnt' = [e \in Element |->
          CASE e = local[w] -> 2
            [] e = storage[key[w]] /\ storage[key[w]] \in used_elements[w] -> refcnt[e] - 1
            [] OTHER -> refcnt[e]]
    BY ZenonT(60), <1>3 DEF InsertElement, SwapElements
  <2> QED
    BY <1>1, <2>2, <2>3
<1>4. ASSUME NEW w \in Worker, InsertFails(w) PROVE refcnt'[x] = 1
  <2>0. pc' = [pc EXCEPT ![w] = "clear"] /\ pc \in [Worker -> Point]
    BY ZenonT(60), <1>0, <1>4 DEF InsertFails, ScriptTypeOK, Goto
  <2>1. w # v
    BY <2>0
  <2>2. pc[w] = "insert" /\ release({local[w]})
    BY ZenonT(60), <1>4 DEF InsertFails
  <2>3. refcnt' = [e \in Element |-> IF e \in {local[w]} THEN refcnt[e] - 1 ELSE refcnt[e]]
    BY ZenonT(60), <2>2 DEF release
  <2>4. x # local[w]
    BY ZenonT(60), <1>1, <2>1, <2>2
  <2> QED
    BY <1>1, <2>3, <2>4
<1>5. ASSUME NEW w \in Worker, NEW k \in Key, FetchHits(w, k) PROVE refcnt'[x] = 1
  BY ZenonT(60), <1>0, <1>1, <1>5 DEF FetchHits, add_ref, ElementTypeOK
<1>6. ASSUME NEW w \in Worker, KeepFetched(w) PROVE refcnt'[x] = 1
  BY ZenonT(60), <1>1, <1>6 DEF KeepFetched, KeepElement, release
<1>7. ASSUME NEW w \in Worker, LeaveBuffer(w) PROVE refcnt'[x] = 1
  BY ZenonT(60), <1>1, <1>7 DEF LeaveBuffer
<1>8. ASSUME PurgeErases PROVE refcnt'[x] = 1
  <2>1. PICK old \in SUBSET ExpiredKeys : release({storage[k] : k \in old})
    BY ZenonT(60), <1>8 DEF PurgeErases
  <2>2. refcnt' = [e \in Element |->
                     IF e \in {storage[k] : k \in old} THEN refcnt[e] - 1 ELSE refcnt[e]]
    BY ZenonT(60), <2>1 DEF release
  <2>3. x \notin {storage[k] : k \in old}
    BY ZenonT(60), <1>1, <2>1 DEF ExpiredKeys
  <2> QED
    BY <1>1, <2>2, <2>3
<1>9. \/ UNCHANGED refcnt \/ PurgeErases
      \/ \E w \in Worker : \/ LockAndCopy(w) \/ InsertElement(w) \/ InsertFails(w)
                           \/ KeepFetched(w) \/ LeaveBuffer(w) \/ \E k \in Key : FetchHits(w, k)
  <2>1. ASSUME NEW w \in Worker, Call(w), ~\E k \in Key : FetchHits(w, k)
        PROVE  UNCHANGED refcnt
    BY ZenonT(60), <2>1
    DEF Call, Refresh, StartSync, Store, FetchOwn, FetchMisses, UpdateTtl, Del
  <2>2. ASSUME NEW w \in Worker, TryLockFails(w) \/ CopyFails(w) \/ Inserted(w) \/ NotInserted(w)
        PROVE  UNCHANGED refcnt
    BY ZenonT(60), <2>2
    DEF TryLockFails, CopyFails, Inserted, NotInserted, ClearAndUnlock, clear_garbage
  <2>3. ASSUME NEW w \in Worker, SyncNext(w) \/ FinishScript(w) \/ Kill(w)
        PROVE  UNCHANGED refcnt
    BY ZenonT(60), <2>3 DEF SyncNext, FinishScript, Kill
  <2>4. ASSUME MasterStep, ~PurgeErases PROVE UNCHANGED refcnt
    BY ZenonT(60), <2>4
    DEF MasterStep, PurgeLocksFirst, PurgeLocksSecond, PurgeLocks, PurgeClears, clear_garbage
  <2>5. ASSUME NEW k \in Key, Tick(k) PROVE UNCHANGED refcnt
    BY ZenonT(60), <2>5 DEF Tick
  <2> QED
    BY ZenonT(60), <2>1, <2>2, <2>3, <2>4, <2>5 DEF Next, Wait, Step
<1>10. refcnt'[x] = 1
  BY ZenonT(60), <1>1, <1>2, <1>3, <1>4, <1>5, <1>6, <1>7, <1>8, <1>9
<1> QED
  BY ZenonT(60), <1>10 DEF x

\* What a step of w leaves of the places of another worker.
LEMMA OthersStay ==
  ASSUME CacheInv, NEW w \in Worker, NEW v \in Worker \ {w},
         Call(w) \/ Wait(w) \/ Step(w) \/ FinishScript(w) \/ Kill(w)
  PROVE  /\ pc'[v] = pc[v] /\ key'[v] = key[v] /\ local'[v] = local[v]
         /\ used_elements'[v] = used_elements[v] /\ request_cache'[v] = request_cache[v]
<1>0. ScriptTypeOK /\ request_cache \in [Worker -> [Key -> Element \cup {Nothing}]]
  BY DEF CacheInv, TypeOK
<1>1. pc'[v] = pc[v]
  <2>1. \E x : pc' = [pc EXCEPT ![w] = x]
    BY ZenonT(60)
    DEF Call, Refresh, StartSync, Store, FetchOwn, FetchMisses, FetchHits, UpdateTtl, Del,
        Wait, SyncNext, InsertElement, InsertFails, Step, TryLockFails, LockAndCopy, CopyFails,
        Inserted, NotInserted, KeepFetched, LeaveBuffer, FinishScript, Kill
  <2> QED
    BY ZenonT(60), <1>0, <2>1 DEF ScriptTypeOK
<1>2. key'[v] = key[v]
  <2>1. UNCHANGED key \/ \E x : key' = [key EXCEPT ![w] = x]
    BY ZenonT(60)
    DEF Call, Refresh, StartSync, Store, FetchOwn, FetchMisses, FetchHits, UpdateTtl, Del,
        Wait, SyncNext, InsertElement, InsertFails, Step, TryLockFails, LockAndCopy, CopyFails,
        Inserted, NotInserted, ClearAndUnlock, KeepFetched, LeaveBuffer, FinishScript, Kill,
        Forget
  <2> QED
    BY ZenonT(60), <1>0, <2>1 DEF ScriptTypeOK
<1>3. local'[v] = local[v]
  <2>1. UNCHANGED local \/ \E x : local' = [local EXCEPT ![w] = x]
    BY ZenonT(60)
    DEF Call, Refresh, StartSync, Store, FetchOwn, FetchMisses, FetchHits, UpdateTtl, Del,
        Wait, SyncNext, InsertElement, InsertFails, Step, TryLockFails, LockAndCopy, CopyFails,
        Inserted, NotInserted, ClearAndUnlock, KeepFetched, LeaveBuffer, FinishScript, Kill,
        Forget
  <2> QED
    BY ZenonT(60), <1>0, <2>1 DEF ScriptTypeOK
<1>4. used_elements'[v] = used_elements[v]
  <2>1. UNCHANGED used_elements \/ \E x : used_elements' = [used_elements EXCEPT ![w] = x]
    BY ZenonT(60)
    DEF Call, Refresh, StartSync, Store, FetchOwn, FetchMisses, FetchHits, UpdateTtl, Del,
        Wait, SyncNext, InsertElement, SwapElements, InsertFails, Step, TryLockFails,
        LockAndCopy, CopyFails, Inserted, NotInserted, ClearAndUnlock, KeepFetched, KeepElement,
        LeaveBuffer, FinishScript, Kill
  <2> QED
    BY ZenonT(60), <1>0, <2>1 DEF ScriptTypeOK
<1>5. request_cache'[v] = request_cache[v]
  <2>1. UNCHANGED request_cache \/ \E x : request_cache' = [request_cache EXCEPT ![w] = x]
    BY ZenonT(60)
    DEF Call, Refresh, StartSync, Store, FetchOwn, FetchMisses, FetchHits, UpdateTtl, Del,
        Wait, SyncNext, InsertElement, InsertFails, Step, TryLockFails,
        LockAndCopy, CopyFails, Inserted, NotInserted, KeepFetched, LeaveBuffer,
        FinishScript, Kill
  <2> QED
    BY ZenonT(60), <1>0, <2>1
<1> QED
  BY <1>1, <1>2, <1>3, <1>4, <1>5

\* A step of w takes it to a place that is as it should be.
LEMMA OwnPlace ==
  ASSUME CacheInv, NEW w \in Worker,
         Call(w) \/ Wait(w) \/ Step(w) \/ FinishScript(w) \/ Kill(w)
  PROVE  PlaceOK(w)'
<1>0. ScriptTypeOK /\ KeyTypeOK /\ PlaceOK(w)
  BY DEF CacheInv, TypeOK, PlacesOK
<1>r. request_cache \in [Worker -> [Key -> Element \cup {Nothing}]]
  BY DEF CacheInv, TypeOK
\* A step to another point of the script, with the local variables of no call.
<1>1. ASSUME pc'[w] \in {"run", "sync", "synced", "release"}, local'[w] = Nothing,
             used_elements'[w] = used_elements[w], request_cache'[w] = request_cache[w]
      PROVE  PlaceOK(w)'
  BY ZenonT(60), <1>0, <1>1 DEF PlaceOK, HoldsLocal
<1>2. CASE Refresh(w) \/ StartSync(w) \/ TryLockFails(w) \/ NotInserted(w) \/ FinishScript(w)
  <2>1. pc'[w] \in {"run", "sync", "synced", "release"}
    BY ZenonT(60), <1>0, <1>2
    DEF Refresh, StartSync, TryLockFails, NotInserted, FinishScript, AfterSync, ScriptTypeOK
  <2>2. local'[w] = Nothing
    BY ZenonT(60), <1>0, <1>2
    DEF Refresh, StartSync, TryLockFails, NotInserted, ClearAndUnlock, FinishScript, Forget,
        ScriptTypeOK, PlaceOK
  <2>3. used_elements'[w] = used_elements[w] /\ request_cache'[w] = request_cache[w]
    BY ZenonT(60), <1>2
    DEF Refresh, StartSync, TryLockFails, NotInserted, ClearAndUnlock, FinishScript
  <2> QED
    BY <1>1, <2>1, <2>2, <2>3
<1>3. ASSUME NEW k \in Key, FetchOwn(w, k) \/ FetchMisses(w, k) \/ UpdateTtl(w, k)
      PROVE  PlaceOK(w)'
  <2>1. pc'[w] = "run" /\ local'[w] = Nothing
    BY ZenonT(60), <1>0, <1>3
    DEF FetchOwn, FetchMisses, FetchShared, UpdateTtl, Synced, ScriptTypeOK, PlaceOK
  <2>2. used_elements'[w] = used_elements[w] /\ request_cache'[w] = request_cache[w]
    BY ZenonT(60), <1>3 DEF FetchOwn, FetchMisses, UpdateTtl
  <2> QED
    BY <1>1, <2>1, <2>2
<1>4. ASSUME NEW k \in Key, Del(w, k) PROVE PlaceOK(w)'
  <2>1. pc'[w] = "run" /\ local'[w] = Nothing
    BY ZenonT(60), <1>0, <1>4 DEF Del, Synced, ScriptTypeOK, PlaceOK
  <2>2. used_elements'[w] = used_elements[w]
    BY ZenonT(60), <1>4 DEF Del
  <2>3. \A l \in Key : request_cache'[w][l] \in {request_cache[w][l], Nothing}
    BY ZenonT(60), <1>r, <1>4 DEF Del
  <2>4. \A l \in Key : request_cache'[w][l] \in used_elements'[w] \cup {Nothing}
    BY ZenonT(60), <1>0, <2>2, <2>3 DEF PlaceOK
  <2> QED
    BY ZenonT(60), <2>1, <2>4 DEF PlaceOK, HoldsLocal
<1>5. CASE LeaveBuffer(w) \/ Kill(w)
  <2>1. pc'[w] = "idle" /\ local'[w] = Nothing
    <3>1. CASE LeaveBuffer(w)
      BY ZenonT(60), <1>0, <3>1 DEF LeaveBuffer, ScriptTypeOK, PlaceOK
    <3>2. CASE Kill(w)
      BY ZenonT(60), <1>0, <3>2 DEF Kill, Forget, ScriptTypeOK
    <3> QED
      BY ZenonT(60), <1>5, <3>1, <3>2
  <2>2. \A k \in Key : request_cache'[w][k] = Nothing
    <3>1. request_cache' = [request_cache EXCEPT ![w] = [k \in Key |-> Nothing]]
      BY ZenonT(60), <1>5 DEF LeaveBuffer, Kill
    <3> QED
      BY <1>r, <3>1
  <2> QED
    BY ZenonT(60), <2>1, <2>2 DEF PlaceOK, HoldsLocal
\* A store that reaches the insertion has its key.
<1>6. ASSUME SyncNext(w) \/ \E k \in Key : Store(w, k) PROVE PlaceOK(w)'
  <2>1. pc'[w] \in {"run", "sync", "synced", "release"} \/ (pc'[w] = "lock" /\ key'[w] \in Key)
    <3>1. CASE SyncNext(w)
      <4>1. PICK k \in storing_delayed[w] :
              \/ pc' = [pc EXCEPT ![w] = IF storing_delayed[w] = {k} THEN AfterSync(w) ELSE "sync"]
              \/ pc' = [pc EXCEPT ![w] = "lock"] /\ key' = [key EXCEPT ![w] = k]
        BY ZenonT(60), <3>1 DEF SyncNext, Goto
      <4>2. /\ k \in Key /\ AfterSync(w) \in {"synced", "release"}
            /\ pc \in [Worker -> Point] /\ key \in [Worker -> Key \cup {Nothing}]
        BY ZenonT(60), <1>0, <4>1 DEF AfterSync, ScriptTypeOK
      <4> QED
        BY <4>1, <4>2
    <3>2. ASSUME NEW k \in Key, Store(w, k)
          PROVE  pc'[w] \in {"run", "sync", "synced", "release"} \/ (pc'[w] = "lock" /\ key'[w] \in Key)
      BY ZenonT(60), <1>0, <3>2 DEF Store, ScriptTypeOK
    <3> QED
      BY ZenonT(60), <1>6, <3>1, <3>2
  <2>2. local'[w] = Nothing
    BY ZenonT(60), <1>0, <1>6 DEF SyncNext, Store, Synced, PlaceOK
  <2>3. used_elements'[w] = used_elements[w] /\ request_cache'[w] = request_cache[w]
    BY ZenonT(60), <1>6 DEF SyncNext, Store
  <2> QED
    BY ZenonT(60), <1>0, <2>1, <2>2, <2>3 DEF PlaceOK, HoldsLocal
<1>7. CASE LockAndCopy(w)
  <2>1. PICK e \in Element : /\ local' = [local EXCEPT ![w] = e]
                             /\ refcnt' = [refcnt EXCEPT ![e] = 1]
                             /\ pc' = [pc EXCEPT ![w] = "insert"]
    BY ZenonT(60), <1>7, CopyTakesFreePlace
  <2>2. pc'[w] = "insert" /\ local'[w] = e /\ refcnt'[e] = 1
    BY ZenonT(60), <1>0, <2>1 DEF ScriptTypeOK, CacheInv, TypeOK, ElementTypeOK
  <2>3. key'[w] \in Key /\ UNCHANGED <<used_elements, request_cache>>
    BY ZenonT(60), <1>0, <1>7 DEF LockAndCopy, PlaceOK
  <2> QED
    BY ZenonT(60), <1>0, <2>2, <2>3 DEF PlaceOK, HoldsLocal
<1>8. CASE CopyFails(w) \/ InsertFails(w)
  <2>1. pc'[w] = "clear" /\ local'[w] = Nothing /\ key'[w] \in Key
    BY ZenonT(60), <1>0, <1>8 DEF CopyFails, InsertFails, ScriptTypeOK, PlaceOK
  <2>2. UNCHANGED <<used_elements, request_cache>>
    BY ZenonT(60), <1>8 DEF CopyFails, InsertFails
  <2> QED
    BY ZenonT(60), <1>0, <2>1, <2>2 DEF PlaceOK, HoldsLocal
<1>9. CASE InsertElement(w)
  <2>1. pc'[w] = "clear" /\ local'[w] = local[w] /\ local[w] \in Element /\ key'[w] \in Key
    BY ZenonT(60), <1>0, <1>9 DEF InsertElement, ScriptTypeOK, PlaceOK, HoldsLocal
  <2>2. used_elements[w] \cup {local[w]} \subseteq used_elements'[w] /\ UNCHANGED request_cache
    BY ZenonT(60), <1>0, <1>9, <2>1 DEF InsertElement, SwapElements, ScriptTypeOK
  <2> QED
    BY ZenonT(60), <1>0, <2>1, <2>2 DEF PlaceOK, HoldsLocal
\* What the request cache learns is in used_elements.
<1>10. CASE Inserted(w)
  <2>1. pc'[w] \in {"run", "sync", "synced", "release"} /\ local'[w] = Nothing
    BY ZenonT(60), <1>0, <1>10 DEF Inserted, ClearAndUnlock, Forget, AfterSync, ScriptTypeOK
  <2>2. local[w] \in used_elements[w] /\ UNCHANGED used_elements
    BY ZenonT(60), <1>0, <1>10 DEF Inserted, ClearAndUnlock, PlaceOK
  <2>3. \A k \in Key : request_cache'[w][k] \in {request_cache[w][k], local[w]}
    BY ZenonT(60), <1>r, <1>10 DEF Inserted
  <2>4. \A k \in Key : request_cache'[w][k] \in used_elements'[w] \cup {Nothing}
    BY ZenonT(60), <1>0, <2>2, <2>3 DEF PlaceOK
  <2> QED
    BY ZenonT(60), <2>1, <2>4 DEF PlaceOK, HoldsLocal
<1>11. ASSUME NEW k \in Key, FetchHits(w, k) PROVE PlaceOK(w)'
  <2>1. pc'[w] = "fetched" /\ local'[w] \in Element
    BY ZenonT(60), <1>0, <1>11 DEF FetchHits, ScriptTypeOK, KeyTypeOK
  <2>2. UNCHANGED <<used_elements, request_cache>>
    BY ZenonT(60), <1>11 DEF FetchHits
  <2> QED
    BY ZenonT(60), <1>0, <2>1, <2>2 DEF PlaceOK, HoldsLocal
<1>12. CASE KeepFetched(w)
  <2>1. pc'[w] = "run" /\ local'[w] = Nothing
    BY ZenonT(60), <1>0, <1>12 DEF KeepFetched, Forget, ScriptTypeOK
  <2>2. used_elements'[w] = used_elements[w] \cup {local[w]}
    BY ZenonT(60), <1>0, <1>12 DEF KeepFetched, KeepElement, ScriptTypeOK
  <2>3. \A k \in Key : request_cache'[w][k] \in {request_cache[w][k], local[w]}
    BY ZenonT(60), <1>r, <1>12 DEF KeepFetched
  <2>4. \A k \in Key : request_cache'[w][k] \in used_elements'[w] \cup {Nothing}
    BY ZenonT(60), <1>0, <2>2, <2>3 DEF PlaceOK
  <2> QED
    BY ZenonT(60), <2>1, <2>4 DEF PlaceOK, HoldsLocal
<1> QED
  BY ZenonT(60), <1>2, <1>3, <1>4, <1>5, <1>6, <1>7, <1>8, <1>9, <1>10, <1>11, <1>12
  DEF Call, Wait, Step

\* Every step keeps what is known of the workers at their points.
LEMMA PlacesStep ==
  ASSUME CacheInv, Next
  PROVE  PlacesOK'
<1>0. \A w \in Worker : PlaceOK(w)
  BY DEF CacheInv, PlacesOK
\* A worker that stays where it is.
<1>1. ASSUME NEW v \in Worker, pc'[v] = pc[v], key'[v] = key[v], local'[v] = local[v],
             used_elements'[v] = used_elements[v], request_cache'[v] = request_cache[v]
      PROVE  PlaceOK(v)'
  <2>1. pc[v] = "insert" => refcnt'[local[v]] = 1
    BY ZenonT(60), <1>1, NewElementUntouched
  <2> QED
    BY ZenonT(60), <1>0, <1>1, <2>1 DEF PlaceOK, HoldsLocal
<1>2. ASSUME NEW w \in Worker, NEW v \in Worker,
             Call(w) \/ Wait(w) \/ Step(w) \/ FinishScript(w) \/ Kill(w)
      PROVE  PlaceOK(v)'
  <2>1. CASE v = w
    BY ZenonT(60), <1>2, <2>1, OwnPlace
  <2>2. CASE v # w
    BY ZenonT(60), <1>1, <1>2, <2>2, OthersStay
  <2> QED
    BY <2>1, <2>2
<1>3. ASSUME NEW v \in Worker, MasterStep \/ \E k \in Key : Tick(k) PROVE PlaceOK(v)'
  <2>1. UNCHANGED <<pc, key, local, used_elements, request_cache>>
    BY ZenonT(60), <1>3
    DEF MasterStep, PurgeLocksFirst, PurgeLocksSecond, PurgeLocks, PurgeErases, PurgeClears,
        Tick
  <2> QED
    BY ZenonT(60), <1>1, <2>1
<1> QED
  BY ZenonT(60), <1>2, <1>3, StoredOnceStep DEF Next, PlacesOK

\* An empty buffer has the invariant.
LEMMA CacheInit == Init => CacheInv
<1> SUFFICES ASSUME Init PROVE CacheInv
  OBVIOUS
<1>1. ElementTypeOK /\ KeyTypeOK /\ ScriptTypeOK
  BY DEF Init, ElementTypeOK, KeyTypeOK, ScriptTypeOK, Point, Age, Fresh, Expired
<1>2. FlagTypeOK
  BY ZenonT(60) DEF Init, FlagTypeOK
<1>3. request_cache \in [Worker -> [Key -> Element \cup {Nothing}]]
  BY ZenonT(60) DEF Init
<1>4. mutex \in [Mutex -> Process \cup {Nobody}] /\ master_pc \in MasterPoint
  BY ZenonT(60) DEF Init, MasterPoint
<1>5. calls \in 0 .. MaxCalls /\ kills \in 0 .. MaxKills
  BY DEF Init
<1>6. RefsCounted
  <2>1. ASSUME NEW e \in Element
        PROVE  /\ refcnt[e] = 0 /\ lost[e] = 0 /\ element[e] = "none"
               /\ StoredAt(e) = {} /\ UsedBy(e) = {} /\ LocalOf(e) = {}
    BY DEF Init, StoredAt, UsedBy, LocalOf, HoldsLocal
  <2>2. ASSUME NEW e \in Element
        PROVE  /\ element[e] = "live" <=> refcnt[e] > 0
               /\ Counted(e)
    BY <2>1, FS_EmptySet DEF Counted
  <2> QED
    BY ZenonT(60), <2>2 DEF RefsCounted, Counted
<1>7. PlacesOK
  <2>1. StoredOnce
    BY DEF Init, StoredOnce
  <2>2. ASSUME NEW w \in Worker PROVE PlaceOK(w)
    BY DEF Init, PlaceOK, HoldsLocal
  <2> QED
    BY <2>1, <2>2 DEF PlacesOK
<1> QED
  BY <1>1, <1>2, <1>3, <1>4, <1>5, <1>6, <1>7 DEF CacheInv, TypeOK

\* So has a state in which nothing changed.
LEMMA CacheStutter == CacheInv /\ UNCHANGED vars => CacheInv'
<1> SUFFICES ASSUME CacheInv, UNCHANGED vars PROVE CacheInv'
  OBVIOUS
<1>1. TypeOK'
  BY ZenonT(60)
  DEF CacheInv, vars, TypeOK, ElementTypeOK, KeyTypeOK, ScriptTypeOK, FlagTypeOK
<1>2. RefsCounted'
  BY ZenonT(60) DEF CacheInv, vars, RefsCounted, StoredAt, UsedBy, LocalOf, HoldsLocal
<1>3. PlacesOK'
  BY ZenonT(60) DEF CacheInv, vars, PlacesOK, StoredOnce, PlaceOK, HoldsLocal
<1> QED
  BY <1>1, <1>2, <1>3 DEF CacheInv

\* The invariant holds in every state of the instance cache.
LEMMA CacheInvariant == Spec => []CacheInv
<1>1. CacheInv /\ [Next]_vars => CacheInv'
  BY TypeStep, RefsStep, PlacesStep, CacheStutter DEF CacheInv
<1> QED
  BY CacheInit, <1>1, PTL DEF Spec

-----------------------------------------------------------------------------
(* The theorems.                                                            *)

\* Every variable of the cache has its type, whatever the scripts store, fetch and delete
\* and whoever is killed: the counter of an element never goes below zero
\* (ElementHolder::release).
THEOREM CacheTypeCorrect == Spec => []TypeOK
BY CacheInvariant, PTL DEF CacheInv

\* The counter of an element is the number of its owners - the storage, used_elements, a
\* local variable of store or fetch - and of the references that stopped scripts took with
\* them; the element has its place in the buffer exactly as long (ElementHolder::add_ref and
\* release, try_insert_element_into_cache, fetch, free, purge_expired).
THEOREM ReferencesAreCounted == Spec => []RefsCounted
BY CacheInvariant, PTL DEF CacheInv

\* No element that a script can still read is destroyed, although request_cache keeps plain
\* pointers: other scripts replace the element and the master purges it, but the reference
\* of used_elements stays until free.
THEOREM ScriptsReadLiveElements == Spec => []ScriptReadsLiveElements
<1>1. CacheInv => ScriptReadsLiveElements
  <2> SUFFICES ASSUME CacheInv, NEW w \in Worker,
                      NEW e \in used_elements[w] \cup {request_cache[w][k] : k \in Key}
                                                 \cup {local[w]},
                      e # Nothing
               PROVE  element[e] = "live"
    BY ZenonT(60) DEF ScriptReadsLiveElements
  <2>0. TypeOK /\ RefsCounted /\ ScriptTypeOK /\ PlaceOK(w)
    BY DEF CacheInv, TypeOK, PlacesOK
  <2>1. e \in used_elements[w] \/ (HoldsLocal(w) /\ e = local[w])
    <3>1. CASE e \in {request_cache[w][k] : k \in Key}
      BY ZenonT(60), <2>0, <3>1 DEF PlaceOK
    <3>2. CASE e = local[w]
      BY ZenonT(60), <2>0, <3>2 DEF PlaceOK, HoldsLocal
    <3> QED
      BY <3>1, <3>2
  <2>2. e \in Element /\ (UsedBy(e) # {} \/ LocalOf(e) # {})
    BY <2>0, <2>1 DEF ScriptTypeOK, PlaceOK, UsedBy, LocalOf
  <2> QED
    BY ZenonT(60), <2>0, <2>2, OwnedIsLive
<1> QED
  BY CacheInvariant, <1>1, PTL
=============================================================================
