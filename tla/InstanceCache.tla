---------------------------- MODULE InstanceCache ----------------------------
(***************************************************************************)
(* The instance cache (runtime/instance-cache.cpp): instances in shared    *)
(* memory, counted by reference, that scripts of several workers store and *)
(* fetch, and that the master purges.  The module follows one buffer of    *)
(* the cache from its construction until the master has switched to the    *)
(* other one and the last script has left; when a buffer may be reset is   *)
(* the subject of InterProcessResource.  The buffer has an allocator mutex *)
(* and, as the keys of the model share a shard, one storage mutex.         *)
(*                                                                         *)
(* A step is what a process does under one mutex, or one atomic operation  *)
(* outside of them.  Mutexes are those of InterProcessMutex: the mutex of  *)
(* a dead process is free.                                                 *)
(*                                                                         *)
(* Scripts store instances within the depth limit of a copy: memory is the *)
(* only reason why an insertion fails.                                     *)
(***************************************************************************)
EXTENDS Integers, Sequences, FiniteSets

CONSTANTS Worker,
          Key,
          Element,     \* places for elements in the memory of the buffer
          Master,
          Nobody,
          Nothing,
          MaxLost,     \* bound on the references an element loses to stopped scripts
          MaxCalls,    \* bound on the number of calls that scripts make
          MaxKills     \* bound on the number of workers that are killed

ASSUME CacheAssumption ==
  /\ Master \notin Worker /\ Nobody \notin Worker /\ Nobody # Master
  /\ IsFiniteSet(Worker) /\ IsFiniteSet(Key)
  /\ Element \subseteq Nat
  /\ Nothing \notin Element /\ Nothing \notin Key
  /\ MaxLost \in Nat /\ MaxCalls \in Nat /\ MaxKills \in Nat

\* How long an element has lived: less than 0.2 of its lifetime, less than 0.8, less
\* than the lifetime, and longer.
Fresh == 0
Mature == 1
Early == 2
Expired == 3
Age == Fresh .. Expired

Process == Worker \cup {Master}
Mutex == {"allocator", "storage"}

VARIABLES
  \* The buffer: its elements and, for the element stored under a key, its time points.
  refcnt,
  element,               \* element[e]: "none", "live" or "garbage"
  storage,               \* storage[k]: the element of k, or Nothing
  age,
  early_fetch_performed,
  inserted_by_process,   \* Nobody for a process that is gone
  memory_swap_required,
  mutex,                 \* mutex[m]: who holds allocator_mutex, storage_mutex; or Nobody
  \* The workers.
  pc,
  used_elements, request_cache, storing_delayed,
  local,                 \* local[w]: the element of a local variable, or Nothing
  key,                   \* key[w]: the key to store, or to cache the fetched element under
  syncing,               \* syncing[w]: it stores out of sync_delayed
  ending,                \* ending[w]: its script is over
  \* The master.
  active,                \* the buffer is the one that new scripts take
  master_pc,
  \* History.
  lost,                  \* lost[e]: references of scripts that are gone
  calls,
  kills

elementVars == <<refcnt, element, lost>>
timeVars == <<age, early_fetch_performed>>
keyVars == <<storage, timeVars, inserted_by_process>>
bufferVars == <<elementVars, keyVars, mutex, memory_swap_required>>
scriptVars == <<used_elements, request_cache, storing_delayed>>
localVars == <<local, key, syncing>>
workerVars == <<pc, scriptVars, localVars, ending, calls, kills>>
masterVars == <<active, master_pc>>
vars == <<bufferVars, workerVars, masterVars>>

Point == {"idle", "run", "sync", "synced", "lock", "insert", "clear", "fetched", "release"}

MasterPoint == {"wait", "second lock", "erase", "garbage"}

ElementTypeOK ==
  /\ refcnt \in [Element -> Nat]
  /\ element \in [Element -> {"none", "live", "garbage"}]
  /\ lost \in [Element -> Nat]

KeyTypeOK ==
  /\ storage \in [Key -> Element \cup {Nothing}]
  /\ age \in [Key -> Age]
  /\ inserted_by_process \in [Key -> Worker \cup {Nobody}]

ScriptTypeOK ==
  /\ pc \in [Worker -> Point]
  /\ used_elements \in [Worker -> SUBSET Element]
  /\ storing_delayed \in [Worker -> SUBSET Key]
  /\ local \in [Worker -> Element \cup {Nothing}]
  /\ key \in [Worker -> Key \cup {Nothing}]

FlagTypeOK ==
  /\ early_fetch_performed \in [Key -> BOOLEAN]
  /\ memory_swap_required \in BOOLEAN
  /\ syncing \in [Worker -> BOOLEAN]
  /\ ending \in [Worker -> BOOLEAN]
  /\ active \in BOOLEAN

\* Every variable has its type (a reference counter never goes below zero).
TypeOK ==
  /\ ElementTypeOK
  /\ KeyTypeOK
  /\ ScriptTypeOK
  /\ FlagTypeOK
  /\ request_cache \in [Worker -> [Key -> Element \cup {Nothing}]]
  /\ mutex \in [Mutex -> Process \cup {Nobody}]
  /\ master_pc \in MasterPoint
  /\ calls \in 0 .. MaxCalls
  /\ kills \in 0 .. MaxKills

\* Every worker is between two scripts, and the buffer is empty.
Init ==
  /\ refcnt = [e \in Element |-> 0]
  /\ element = [e \in Element |-> "none"]
  /\ lost = [e \in Element |-> 0]
  /\ storage = [k \in Key |-> Nothing]
  /\ age = [k \in Key |-> Fresh]
  /\ early_fetch_performed = [k \in Key |-> FALSE]
  /\ inserted_by_process = [k \in Key |-> Nobody]
  /\ memory_swap_required = FALSE
  /\ mutex = [m \in Mutex |-> Nobody]
  /\ pc = [w \in Worker |-> "idle"]
  /\ used_elements = [w \in Worker |-> {}]
  /\ request_cache = [w \in Worker |-> [k \in Key |-> Nothing]]
  /\ storing_delayed = [w \in Worker |-> {}]
  /\ local = [w \in Worker |-> Nothing]
  /\ key = [w \in Worker |-> Nothing]
  /\ syncing = [w \in Worker |-> FALSE]
  /\ ending = [w \in Worker |-> FALSE]
  /\ active = TRUE
  /\ master_pc = "wait"
  /\ calls = 0
  /\ kills = 0

Goto(w, to) == pc' = [pc EXCEPT ![w] = to]

\* The local variables of a call are gone.
Forget(w) ==
  /\ local' = [local EXCEPT ![w] = Nothing]
  /\ key' = [key EXCEPT ![w] = Nothing]
  /\ syncing' = [syncing EXCEPT ![w] = FALSE]

\* ElementHolder::release, once for each element of S: the last one makes it garbage.
release(S) ==
  /\ refcnt' = [e \in Element |-> IF e \in S THEN refcnt[e] - 1 ELSE refcnt[e]]
  /\ element' = [e \in Element |-> IF e \in S /\ refcnt[e] = 1 THEN "garbage" ELSE element[e]]
  /\ UNCHANGED lost

clear_garbage ==
  /\ element' = [e \in Element |-> IF element[e] = "garbage" THEN "none" ELSE element[e]]
  /\ UNCHANGED <<refcnt, lost>>

StorageIsFree == mutex["storage"] = Nobody
AllocatorIsFree == mutex["allocator"] = Nobody

-----------------------------------------------------------------------------
(* The start of a script, sync_delayed and the insertion of an element.     *)

\* init_instance_cache_lib.
Refresh(w) ==
  /\ pc[w] = "idle"
  /\ active
  /\ calls < MaxCalls
  /\ Goto(w, "run")
  /\ UNCHANGED <<bufferVars, scriptVars, localVars, ending, calls, kills, masterVars>>

\* sync_delayed has something to do.
MustSync(w) == storing_delayed[w] # {} /\ ~memory_swap_required

\* A call of the script starts with sync_delayed.
StartSync(w) ==
  /\ pc[w] = "run"
  /\ MustSync(w)
  /\ Goto(w, "sync")
  /\ UNCHANGED <<bufferVars, scriptVars, localVars, ending, calls, kills, masterVars>>

\* A call of the script is past its sync_delayed.
Synced(w) == pc[w] = "synced" \/ (pc[w] = "run" /\ ~MustSync(w))

\* A call that looks into the buffer; their number is bounded.
Called == calls < MaxCalls /\ calls' = calls + 1

AfterSync(w) == IF ending[w] THEN "release" ELSE "synced"

is_element_insertion_can_be_skipped(w, k) ==
  storage[k] # Nothing /\ age[k] = Fresh /\ inserted_by_process[k] # w

\* The next delayed store: it is not needed any more, or it is tried again.
SyncNext(w) ==
  /\ pc[w] = "sync"
  /\ StorageIsFree
  /\ \E k \in storing_delayed[w] :
       \/ /\ is_element_insertion_can_be_skipped(w, k)
          /\ storing_delayed' = [storing_delayed EXCEPT ![w] = @ \ {k}]
          /\ Goto(w, IF storing_delayed[w] = {k} THEN AfterSync(w) ELSE "sync")
          /\ UNCHANGED <<key, syncing>>
       \/ /\ ~is_element_insertion_can_be_skipped(w, k)
          /\ key' = [key EXCEPT ![w] = k]
          /\ syncing' = [syncing EXCEPT ![w] = TRUE]
          /\ Goto(w, "lock")
          /\ UNCHANGED storing_delayed
  /\ UNCHANGED <<bufferVars, used_elements, request_cache, local, ending, calls, kills,
                 masterVars>>

\* store, up to the insertion.
Store(w, k) ==
  /\ Called
  /\ Synced(w)
  /\ pc[w] = "run" => ~memory_swap_required
  /\ StorageIsFree
  /\ \/ /\ is_element_insertion_can_be_skipped(w, k)
        /\ Goto(w, "run")
        /\ UNCHANGED key
     \/ /\ ~is_element_insertion_can_be_skipped(w, k)
        /\ key' = [key EXCEPT ![w] = k]
        /\ Goto(w, "lock")
  /\ UNCHANGED <<bufferVars, scriptVars, local, syncing, ending, kills, masterVars>>

\* try_insert_element_into_cache: the allocator is taken, the store is delayed.
TryLockFails(w) ==
  /\ pc[w] = "lock"
  /\ ~AllocatorIsFree
  /\ storing_delayed' = [storing_delayed EXCEPT ![w] = @ \cup {key[w]}]
  /\ Goto(w, IF syncing[w] THEN AfterSync(w) ELSE "run")
  /\ Forget(w)
  /\ UNCHANGED <<bufferVars, used_elements, request_cache, ending, calls, kills, masterVars>>

\* The allocator is locked and the instance is copied into a new element, which takes the
\* first free place.
LockAndCopy(w) ==
  LET free == {e \in Element : element[e] = "none"} IN
  /\ pc[w] = "lock"
  /\ AllocatorIsFree
  /\ mutex' = [mutex EXCEPT !["allocator"] = w]
  /\ free # {}
  /\ LET e == CHOOSE f \in free : \A g \in free : f <= g IN
     /\ element' = [element EXCEPT ![e] = "live"]
     /\ refcnt' = [refcnt EXCEPT ![e] = 1]
     /\ local' = [local EXCEPT ![w] = e]
  /\ Goto(w, "insert")
  /\ UNCHANGED <<lost, keyVars, memory_swap_required, scriptVars,
                 key, syncing, ending, calls, kills, masterVars>>

\* There is not enough memory for the instance.
CopyFails(w) ==
  /\ pc[w] = "lock"
  /\ AllocatorIsFree
  /\ mutex' = [mutex EXCEPT !["allocator"] = w]
  /\ Goto(w, "clear")
  /\ UNCHANGED <<elementVars, keyVars, memory_swap_required,
                 scriptVars, localVars, ending, calls, kills, masterVars>>

\* Mutant: a second reference of used_elements to the old element is not dropped.
SwapAndLeak(w) ==
  /\ refcnt' = [refcnt EXCEPT ![local[w]] = 2]
  /\ used_elements' = [used_elements EXCEPT ![w] =
       @ \cup ({local[w], storage[key[w]]} \ {Nothing})]

\* The new element takes the place of the old one, which goes to used_elements; so does a
\* second reference to the new one.  A reference that used_elements has already is dropped.
SwapElements(w) ==
  LET k == key[w]
      old == storage[k] IN
  /\ refcnt' = [e \in Element |-> CASE e = local[w] -> 2
                                    [] e = old /\ old \in used_elements[w] -> refcnt[e] - 1
                                    [] OTHER -> refcnt[e]]
  /\ used_elements' = [used_elements EXCEPT ![w] = @ \cup ({local[w], old} \ {Nothing})]

InsertElement(w) ==
  LET k == key[w] IN
  /\ pc[w] = "insert"
  /\ StorageIsFree
  /\ SwapElements(w)
  /\ storage' = [storage EXCEPT ![k] = local[w]]
  /\ age' = [age EXCEPT ![k] = Fresh]
  /\ early_fetch_performed' = [early_fetch_performed EXCEPT ![k] = FALSE]
  /\ inserted_by_process' = [inserted_by_process EXCEPT ![k] = w]
  /\ Goto(w, "clear")
  /\ UNCHANGED <<element, lost, mutex, memory_swap_required, request_cache,
                 storing_delayed, localVars, ending, calls, kills, masterVars>>

\* There is not enough memory for the key: the element is dropped.
InsertFails(w) ==
  /\ pc[w] = "insert"
  /\ StorageIsFree
  /\ storage[key[w]] = Nothing
  /\ release({local[w]})
  /\ local' = [local EXCEPT ![w] = Nothing]
  /\ Goto(w, "clear")
  /\ UNCHANGED <<keyVars, mutex, memory_swap_required, scriptVars, key, syncing,
                 ending, calls, kills, masterVars>>

\* The end of try_insert_element_into_cache.
ClearAndUnlock(w) ==
  /\ pc[w] = "clear"
  /\ clear_garbage
  /\ mutex' = [mutex EXCEPT !["allocator"] = Nobody]
  /\ Forget(w)
  /\ UNCHANGED <<keyVars, used_elements, ending, calls, kills, masterVars>>

\* Its caller, store or sync_delayed, remembers the element.
Inserted(w) ==
  /\ ClearAndUnlock(w)
  /\ local[w] # Nothing
  /\ request_cache' = [request_cache EXCEPT ![w][key[w]] = local[w]]
  /\ storing_delayed' =
       IF syncing[w] THEN [storing_delayed EXCEPT ![w] = @ \ {key[w]}] ELSE storing_delayed
  /\ Goto(w, CASE ~syncing[w] -> "run"
               [] storing_delayed'[w] # {} -> "sync"
               [] OTHER -> AfterSync(w))
  /\ UNCHANGED memory_swap_required

\* Its caller gives up and asks for a swap (fire_warning).
NotInserted(w) ==
  /\ ClearAndUnlock(w)
  /\ local[w] = Nothing
  /\ memory_swap_required' = TRUE
  /\ Goto(w, IF syncing[w] THEN AfterSync(w) ELSE "run")
  /\ UNCHANGED <<request_cache, storing_delayed>>

-----------------------------------------------------------------------------
(* The other calls of a script.                                             *)

\* fetch finds the key among the delayed stores or in the cache of the script.
FetchOwn(w, k) ==
  /\ Synced(w)
  /\ k \in storing_delayed[w] \/ request_cache[w][k] # Nothing
  /\ Goto(w, "run")
  /\ UNCHANGED <<bufferVars, scriptVars, localVars, ending, calls, kills, masterVars>>

\* The section of fetch under the storage mutex.
FetchShared(w, k) ==
  /\ Called
  /\ Synced(w)
  /\ k \notin storing_delayed[w]
  /\ request_cache[w][k] = Nothing
  /\ StorageIsFree

\* The element is to be updated in advance, and this call is the first to learn it.
IsEarly(k) == age[k] >= Early /\ ~early_fetch_performed[k]

IsExpired(k) == age[k] >= Expired

FetchMisses(w, k) ==
  /\ FetchShared(w, k)
  /\ \/ storage[k] = Nothing /\ UNCHANGED early_fetch_performed
     \/ /\ storage[k] # Nothing
        /\ IsEarly(k)
        /\ early_fetch_performed' = [early_fetch_performed EXCEPT ![k] = TRUE]
     \/ /\ storage[k] # Nothing
        /\ IsExpired(k) /\ ~IsEarly(k)
        /\ UNCHANGED early_fetch_performed
  /\ Goto(w, "run")
  /\ UNCHANGED <<elementVars, storage, age, inserted_by_process, mutex,
                 memory_swap_required, scriptVars, localVars, ending, kills, masterVars>>

\* Mutant: the element is returned by a plain pointer.
NoReference(e) == UNCHANGED elementVars

add_ref(e) ==
  /\ refcnt' = [refcnt EXCEPT ![e] = @ + 1]
  /\ UNCHANGED <<element, lost>>

\* An expired element is found too if the script asks for it (even_if_expired).
FetchHits(w, k) ==
  /\ FetchShared(w, k)
  /\ storage[k] # Nothing
  /\ ~IsEarly(k)
  /\ add_ref(storage[k])
  /\ local' = [local EXCEPT ![w] = storage[k]]
  /\ key' = [key EXCEPT ![w] = IF IsExpired(k) THEN Nothing ELSE k]
  /\ Goto(w, "fetched")
  /\ UNCHANGED <<keyVars, mutex, memory_swap_required, scriptVars, syncing,
                 ending, kills, masterVars>>

\* Mutant: the reference is dropped at the end of fetch.
KeepNothing(w) == UNCHANGED used_elements /\ release({local[w]})

\* used_elements.emplace: a reference that it has already is dropped.
KeepElement(w) ==
  /\ used_elements' = [used_elements EXCEPT ![w] = @ \cup {local[w]}]
  /\ release(used_elements[w] \cap {local[w]})

\* The rest of fetch, out of the mutex.
KeepFetched(w) ==
  /\ pc[w] = "fetched"
  /\ KeepElement(w)
  /\ request_cache' = IF key[w] = Nothing THEN request_cache
                      ELSE [request_cache EXCEPT ![w][key[w]] = local[w]]
  /\ Goto(w, "run")
  /\ Forget(w)
  /\ UNCHANGED <<keyVars, mutex, memory_swap_required, storing_delayed,
                 ending, calls, kills, masterVars>>

UpdateTtl(w, k) ==
  /\ Called
  /\ Synced(w)
  /\ StorageIsFree
  /\ IF storage[k] = Nothing THEN UNCHANGED <<age, early_fetch_performed>>
     ELSE /\ age' = [age EXCEPT ![k] = Fresh]
          /\ early_fetch_performed' = [early_fetch_performed EXCEPT ![k] = FALSE]
  /\ Goto(w, "run")
  /\ UNCHANGED <<elementVars, storage, inserted_by_process, mutex,
                 memory_swap_required, scriptVars, localVars, ending, kills, masterVars>>

\* The element stays, with a lifetime of which 0.8 are over; all of it, if the element was
\* stored at this very moment.
Del(w, k) ==
  /\ Called
  /\ Synced(w)
  /\ StorageIsFree
  /\ storing_delayed' = [storing_delayed EXCEPT ![w] = @ \ {k}]
  /\ request_cache' = [request_cache EXCEPT ![w][k] = Nothing]
  /\ IF storage[k] = Nothing THEN UNCHANGED age
     ELSE \E a \in IF age[k] = Fresh THEN {Early, Expired} ELSE {Early} :
            age' = [age EXCEPT ![k] = a]
  /\ Goto(w, "run")
  /\ UNCHANGED <<elementVars, storage, early_fetch_performed,
                 inserted_by_process, mutex, memory_swap_required, used_elements, localVars,
                 ending, kills, masterVars>>

-----------------------------------------------------------------------------
(* The end of a script, and the death of a worker.                          *)

\* The script returns, fails or is stopped by its time limit, which may cut off a fetch
\* before it has kept its reference.
FinishScript(w) ==
  /\ pc[w] \in {"run", "synced", "fetched"}
  /\ pc[w] = "fetched" => lost[local[w]] < MaxLost
  /\ lost' = IF pc[w] = "fetched" THEN [lost EXCEPT ![local[w]] = @ + 1] ELSE lost
  /\ ending' = [ending EXCEPT ![w] = TRUE]
  /\ Goto(w, IF MustSync(w) THEN "sync" ELSE "release")
  /\ Forget(w)
  /\ UNCHANGED <<refcnt, element, keyVars, mutex, memory_swap_required,
                 scriptVars, calls, kills, masterVars>>

\* free, after sync_delayed: used_elements drops its references, then the garbage, others'
\* included, is cleared if nobody has the allocator mutex.
LeaveBuffer(w) ==
  /\ pc[w] = "release"
  /\ LET garbage == {e \in Element : \/ element[e] = "garbage"
                                     \/ e \in used_elements[w] /\ refcnt[e] = 1}
         garbage_state == IF AllocatorIsFree THEN "none" ELSE "garbage" IN
     element' = [e \in Element |-> IF e \in garbage THEN garbage_state ELSE element[e]]
  /\ refcnt' = [e \in Element |-> IF e \in used_elements[w] THEN refcnt[e] - 1 ELSE refcnt[e]]
  /\ used_elements' = [used_elements EXCEPT ![w] = {}]
  /\ storing_delayed' = [storing_delayed EXCEPT ![w] = {}]
  /\ request_cache' = [request_cache EXCEPT ![w] = [k \in Key |-> Nothing]]
  /\ ending' = [ending EXCEPT ![w] = FALSE]
  /\ Goto(w, "idle")
  /\ UNCHANGED <<lost, keyVars, mutex, memory_swap_required, localVars, calls, kills,
                 masterVars>>

\* The points where local[w] is a counted reference.
HoldsLocal(w) == pc[w] \in {"insert", "fetched"}

\* The worker dies; its successor starts with nothing.
Kill(w) ==
  /\ pc[w] # "idle"
  /\ kills < MaxKills
  /\ kills' = kills + 1
  /\ lost' = [e \in Element |->
       lost[e] + (IF e \in used_elements[w] THEN 1 ELSE 0)
               + (IF HoldsLocal(w) /\ e = local[w] THEN 1 ELSE 0)]
  /\ inserted_by_process' =
       [k \in Key |-> IF inserted_by_process[k] = w THEN Nobody ELSE inserted_by_process[k]]
  /\ mutex' = [m \in Mutex |-> IF mutex[m] = w THEN Nobody ELSE mutex[m]]
  /\ used_elements' = [used_elements EXCEPT ![w] = {}]
  /\ request_cache' = [request_cache EXCEPT ![w] = [k \in Key |-> Nothing]]
  /\ storing_delayed' = [storing_delayed EXCEPT ![w] = {}]
  /\ ending' = [ending EXCEPT ![w] = FALSE]
  /\ Goto(w, "idle")
  /\ Forget(w)
  /\ UNCHANGED <<refcnt, element, storage, timeVars, memory_swap_required, calls, masterVars>>

-----------------------------------------------------------------------------
(* The master: purge_expired and try_swap_memory_resource, in every cron.   *)

MasterGoto(from, to) == master_pc = from /\ master_pc' = to

ExpiredKeys == {k \in Key : storage[k] # Nothing /\ IsExpired(k)}

\* Mutant: the storage first.
StorageFirst == <<"storage", "allocator">>

\* "lock in this very order and do not move allocator_lock anywhere below"
PurgeOrder == <<"allocator", "storage">>

\* The n-th mutex of the purge.
PurgeLocks(n) ==
  /\ mutex[PurgeOrder[n]] = Nobody
  /\ mutex' = [mutex EXCEPT ![PurgeOrder[n]] = Master]
  /\ UNCHANGED <<elementVars, keyVars, memory_swap_required, workerVars, active>>

\* A look under the storage mutex has found a key that has been expired for a minute.
PurgeLocksFirst ==
  /\ active
  /\ ExpiredKeys # {}
  /\ MasterGoto("wait", "second lock")
  /\ PurgeLocks(1)

PurgeLocksSecond == MasterGoto("second lock", "erase") /\ PurgeLocks(2)

PurgeErases ==
  /\ MasterGoto("erase", "garbage")
  /\ \E old \in SUBSET ExpiredKeys :
       /\ release({storage[k] : k \in old})
       /\ storage' = [k \in Key |-> IF k \in old THEN Nothing ELSE storage[k]]
       /\ age' = [k \in Key |-> IF k \in old THEN Fresh ELSE age[k]]
       /\ early_fetch_performed' = [k \in Key |-> k \notin old /\ early_fetch_performed[k]]
       /\ inserted_by_process' =
            [k \in Key |-> IF k \in old THEN Nobody ELSE inserted_by_process[k]]
  /\ mutex' = [m \in Mutex |-> Nobody]
  /\ UNCHANGED <<memory_swap_required, workerVars, active>>

\* The end of the purge and try_swap_memory_resource: the other buffer takes over if this one
\* is full and no script is left on the other one.
PurgeClears ==
  /\ active
  /\ \/ MasterGoto("wait", "wait")
     \/ MasterGoto("garbage", "wait")
  /\ AllocatorIsFree
  /\ clear_garbage
  /\ \/ UNCHANGED active
     \/ /\ memory_swap_required \/ \A e \in Element : element'[e] # "none"
        /\ active' = FALSE
  /\ UNCHANGED <<keyVars, mutex, memory_swap_required, workerVars>>

-----------------------------------------------------------------------------
(* Time and the specification.                                              *)

\* The element of k gets older.
Tick(k) ==
  /\ storage[k] # Nothing
  /\ age[k] < Expired
  /\ age' = [age EXCEPT ![k] = @ + 1]
  /\ UNCHANGED <<elementVars, storage, early_fetch_performed,
                 inserted_by_process, mutex, memory_swap_required, workerVars, masterVars>>

\* What a script does of its own accord.
Call(w) ==
  \/ Refresh(w)
  \/ StartSync(w)
  \/ \E k \in Key : \/ Store(w, k) \/ FetchOwn(w, k) \/ FetchMisses(w, k) \/ FetchHits(w, k)
                    \/ UpdateTtl(w, k) \/ Del(w, k)

\* The steps of a worker that waits for nothing.
Step(w) ==
  \/ TryLockFails(w) \/ LockAndCopy(w) \/ CopyFails(w) \/ Inserted(w) \/ NotInserted(w)
  \/ KeepFetched(w) \/ LeaveBuffer(w)

\* The steps that wait for the storage.
Wait(w) == SyncNext(w) \/ InsertElement(w) \/ InsertFails(w)

MasterStep ==
  \/ PurgeLocksFirst \/ PurgeLocksSecond \/ PurgeErases \/ PurgeClears

Next ==
  \/ \E w \in Worker : Call(w) \/ Wait(w) \/ Step(w) \/ FinishScript(w) \/ Kill(w)
  \/ MasterStep
  \/ \E k \in Key : Tick(k)

Spec == Init /\ [][Next]_vars

\* A process that waits for a mutex gets it (the kernel hands it over in the end), a script
\* has a time limit, the master goes on with its crons.
FairSpec ==
  /\ Spec
  /\ \A w \in Worker : /\ WF_vars(Step(w))
                       /\ SF_vars(Wait(w))
                       /\ SF_vars(FinishScript(w))
  /\ SF_vars(MasterStep)

-----------------------------------------------------------------------------
(* Properties.                                                              *)

\* The owners of an element: the storage, used_elements and local variables.
StoredAt(e) == {k \in Key : storage[k] = e}
UsedBy(e) == {w \in Worker : e \in used_elements[w]}
LocalOf(e) == {w \in Worker : HoldsLocal(w) /\ local[w] = e}

\* The counter of an element is the number of its owners and of the references that went
\* away with a script without a release.  An element has its place as long as it has owners
\* (ElementHolder::release, try_insert_element_into_cache, fetch, free).
RefsCounted ==
  \A e \in Element :
    /\ element[e] = "live" <=> refcnt[e] > 0
    /\ refcnt[e] = lost[e] + Cardinality(StoredAt(e)) + Cardinality(UsedBy(e))
                           + Cardinality(LocalOf(e))

\* What a script may still read is not destroyed: the elements of request_cache, which are
\* plain pointers, have an owner in used_elements until free, whatever other scripts store
\* and the master purges.
ScriptReadsLiveElements ==
  \A w \in Worker :
    \A e \in used_elements[w] \cup {request_cache[w][k] : k \in Key} \cup {local[w]} :
      e = Nothing \/ element[e] = "live"

\* An element that is not stored any more and that no script lost is destroyed in the end,
\* if the buffer stays active: its readers leave, and somebody gets the allocator mutex to
\* clear the garbage; insertions, which wait for the storage with the allocator in their
\* hands, and the purge, which takes both mutexes, do not block each other
\* (test_store_fetch_delete.py waits for elements_destroyed).
UnusedElementsAreDestroyed ==
  \A e \in Element :
    (element[e] # "none" /\ \A k \in Key : storage[k] # e) ~>
    (element[e] = "none" \/ lost[e] > 0 \/ ~active \/ \E k \in Key : storage[k] = e)
=============================================================================
