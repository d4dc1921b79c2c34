------------------------------- MODULE Confdata -------------------------------
(***************************************************************************)
(* Confdata (server/confdata-binlog-replay.cpp,                            *)
(* runtime/confdata-global-manager.cpp, runtime/confdata-functions.cpp):   *)
(* the master replays a binlog into a map and publishes it, by a cron, as  *)
(* the next sample of a ring; each script reads the sample that was active *)
(* when it started.  Samples share their values: an update writes to a     *)
(* copy of the map, puts what it replaces into a garbage list, and the     *)
(* list is destroyed with the sample it was replaced in.                   *)
(*                                                                         *)
(* A value or an array of a section is a cell of memory.  A key without    *)
(* dots has its value in the map; any other key has it in the array of     *)
(* every section it belongs to (a.b.c: in "a.b." and in "a.").  Of a value *)
(* only its address is kept; whether an event brings a new one is a choice.*)
(***************************************************************************)
EXTENDS InterProcessResource, Sequences, FiniteSets, Functions

CONSTANTS Simple,          \* keys without dots and wildcards
          Dotted,          \* keys with sections
          TwoDots,         \* those of Dotted whose last section is of one dot
          Section,         \* names of sections: first keys that end in a dot or wildcard
          SectionsOf,      \* SectionsOf[k]: the sections of k in the order of the code
          Snapshots,       \* sets of keys that the first sample may have
          Expiring,        \* keys stored with an expiration time at times
          Cell,            \* memory for values and arrays
          Absent, Null, Empty,  \* no entry; an entry without value; the static empty array
          Free, Value,     \* contents of a cell that is not an array
          MaxEvents,       \* bound: changes to the map
          MaxKills         \* bound: workers killed

Key == Simple \cup Dotted
FirstKey == Simple \cup Section
Array == UNION {[keys -> Cell] : keys \in SUBSET Dotted}

ASSUME ConfdataAssumption ==
  /\ Simple \cap Dotted = {} /\ Key \cap Section = {}
  /\ TwoDots \subseteq Dotted /\ Expiring \subseteq Key
  /\ Snapshots \subseteq SUBSET Key
  /\ SectionsOf \in [Dotted -> Seq(Section)]
  /\ \A k \in Dotted : SectionsOf[k] # <<>>
  /\ Cell \cap {Absent, Null, Empty} = {} /\ Absent \notin {Null, Empty}
  /\ Array \cap {Free, Value} = {} /\ Free # Value
  /\ None \notin {"sizes", "copies"}
  /\ MaxEvents \in Nat /\ MaxKills \in Nat

VARIABLES content,           \* content[c]: Free, Value, or an array: a function of keys to cells
          constants,         \* cells with the reference counter ExtraRefCnt::for_confdata
          sample,            \* sample[r]: the map of the sample
          garbage,           \* garbage[r]: its garbage_
          updating,          \* updating_confdata_storage_
          updating_garbage,  \* garbage_from_previous_confdata_sample_
          has_any_updates,   \* confdata_has_any_updates_
          element_delays,    \* keys with an expiration time
          memory_status,
          aborted,           \* the assertion that stopped the master, or None
          master_pc,         \* where the cron is
          events, kills

heapVars == <<content, constants>>
sampleVars == <<sample, garbage>>
replayVars == <<updating, updating_garbage, has_any_updates, element_delays>>
dataVars == <<heapVars, sampleVars, replayVars, memory_status>>
controlVars == <<aborted, master_pc>>
vars == <<resourceVars, dataVars, controlVars, events, kills>>

EmptyStorage == [f \in FirstKey |-> Absent]

Size(storage) == Cardinality({f \in FirstKey : storage[f] # Absent})

(***************************************************************************)
(* Memory.                                                                 *)
(***************************************************************************)
IsArray(heap, c) == heap[c] \notin {Free, Value}

Elements(heap, c) == IF IsArray(heap, c) THEN {heap[c][k] : k \in DOMAIN heap[c]} ELSE {}

\* All that a map refers to, directly or through an array.
Reachable(heap, storage) ==
  LET direct == {storage[f] : f \in FirstKey} \cap Cell
  IN  direct \cup UNION {Elements(heap, c) : c \in direct}

\* The reference counters of cells that are not constants: the last reference
\* to such a cell is in the map being updated.
Collected(heap, storage) ==
  [c \in Cell |-> IF c \in constants \cup Reachable(heap, storage) THEN heap[c] ELSE Free]

FreeCells == {c \in Cell : content[c] = Free}

\* A cell of its own for each of the places; which ones makes no difference.
Allocation(places, cells) == CHOOSE a \in [places -> cells] : IsInjective(a)

(***************************************************************************)
(* Entries of the map being updated.                                       *)
(***************************************************************************)
Sections(k) == IF k \in Simple THEN {} ELSE Range(SectionsOf[k])

\* The first keys under which k has its value, one after the other.
Places(k) == IF k \in Simple THEN <<k>> ELSE SectionsOf[k]

FirstPlace(k) == Places(k)[1]

NoElements == [k \in {} |-> Absent]

ArrayOf(heap, storage, f) == IF storage[f] \in Cell THEN heap[storage[f]] ELSE NoElements

Has(k, f) == IF k \in Simple THEN updating[k] # Absent
                             ELSE k \in DOMAIN ArrayOf(content, updating, f)

ValueAt(k, f) == IF k \in Simple THEN updating[k] ELSE ArrayOf(content, updating, f)[k]

Exists(k) == Has(k, FirstPlace(k))

\* The array of section f after k got the value v, or lost it.
ArrayWith(k, v, f) ==
  LET old == ArrayOf(content, updating, f)
      keys == IF v = Absent THEN DOMAIN old \ {k} ELSE DOMAIN old \cup {k}
  IN  [j \in keys |-> IF j = k THEN v ELSE old[j]]

(***************************************************************************)
(* Garbage lists: the nodes, and how often each of them is in the list.    *)
(***************************************************************************)
GarbageNode == Cell \X {"shallow_first", "deep_last"}

NoGarbage == [n \in {} |-> 0]

Times(n, list) == IF n \in DOMAIN list THEN list[n] ELSE 0

WithNodes(list, nodes) ==
  [n \in DOMAIN list \cup nodes |-> Times(n, list) + (IF n \in nodes THEN 1 ELSE 0)]

\* put_confdata_var_into_garbage: only constants need it.
Node(c, way) == IF c \in constants THEN {<<c, way>>} ELSE {}

ReplacedArrays(places) ==
  UNION {Node(updating[f], "shallow_first") : f \in places \cap Section}

\* One node for the value that the copies share: last_element_in_garbage_.
ReplacedValue(k, places) ==
  UNION {Node(ValueAt(k, f), "deep_last") : f \in {g \in places : Has(k, g)}}

\* Mutant: the value of a second copy is put once more.
EveryCopy(k, places) ==
  WithNodes(WithNodes(updating_garbage, ReplacedArrays(places) \cup ReplacedValue(k, places)),
            IF Cardinality(places) > 1 THEN ReplacedValue(k, places) ELSE {})

GarbageWith(k, places) ==
  WithNodes(updating_garbage, ReplacedArrays(places) \cup ReplacedValue(k, places))

\* Mutant: the array of a section is not copied before it is changed.
InPlace(k, v, kept, cells) ==
  [c \in Cell |-> IF c = v THEN Value
                  ELSE IF \E f \in kept : c \in {cells[f], updating[f]}
                    THEN ArrayWith(k, v, CHOOSE f \in kept : c \in {cells[f], updating[f]})
                    ELSE content[c]]

\* The arrays that are not empty go to new cells, and so does the value.
HeapWith(k, v, kept, cells) ==
  [c \in Cell |-> IF c = v THEN Value
                  ELSE IF \E f \in kept : cells[f] = c
                    THEN ArrayWith(k, v, CHOOSE f \in kept : cells[f] = c)
                    ELSE content[c]]

StorageWith(k, v, sections, kept, cells) ==
  [f \in FirstKey |-> IF f = k THEN v
                      ELSE IF f \in kept THEN cells[f]
                      ELSE IF f \in sections THEN Absent
                      ELSE updating[f]]

\* The copies of k in these places get the value v; v is Absent when k is deleted.
PutElement(k, v, places) ==
  LET sections == places \cap Section
      cells == Allocation(sections, FreeCells \ {v})
      kept == {f \in sections : DOMAIN ArrayWith(k, v, f) # {}}
      storage == StorageWith(k, v, sections, kept, cells)
  IN  /\ Injection(sections, FreeCells \ {v}) # {}
      /\ content' = Collected(HeapWith(k, v, kept, cells), storage)
      /\ updating' = storage
      /\ updating_garbage' = GarbageWith(k, places)
      /\ UNCHANGED <<constants, sampleVars>>

(***************************************************************************)
(* Events of the binlog.                                                   *)
(***************************************************************************)
Operation == {"set", "add", "replace"}

can_element_be_saved(operation, exists, outdated) ==
  \/ operation = "set"
  \/ operation = "add" /\ (~exists \/ outdated)
  \/ operation = "replace" /\ exists /\ ~outdated

\* An element with an expiration time may be past it when an event comes.
Outdated(k) == IF k \in element_delays THEN BOOLEAN ELSE {FALSE}

IsSaved(k, operation) ==
  \E outdated \in Outdated(k) :
    can_element_be_saved(operation, Exists(k), outdated)

IsRefused(k, operation) ==
  \E outdated \in Outdated(k) :
    ~can_element_be_saved(operation, Exists(k), outdated)

\* In soft OOM new keys are ignored.
IsThrottled(k) == memory_status = "SOFT_OOM" /\ ~Exists(k)

update_element_in_expiration_trace(k) ==
  {element_delays \cup ({k} \cap Expiring), element_delays \ {k}}

\* Mutant: the entry of the section is taken for the one of the key.
SectionStatus(k, f, operation, outdated, value) ==
  IF memory_status = "SOFT_OOM" /\ ~Has(k, f) THEN "throttled_out"
  ELSE IF ~can_element_be_saved(operation, updating[f] # Absent, outdated) THEN "no_update"
  ELSE IF Has(k, f) /\ ValueAt(k, f) = value THEN "ttl_update_only"
  ELSE "full_update"

\* What store_processing_element answers for one copy, while memory suffices.
StoreStatus(k, f, operation, outdated, value) ==
  IF memory_status = "SOFT_OOM" /\ ~Has(k, f) THEN "throttled_out"
  ELSE IF ~can_element_be_saved(operation, Has(k, f), outdated) THEN "no_update"
  ELSE IF Has(k, f) /\ ValueAt(k, f) = value THEN "ttl_update_only"
  ELSE "full_update"

DeleteStatus(k, f) == IF Has(k, f) THEN "full_update" ELSE "no_update"

\* The value of an event: the one of a copy, or another (Absent).
EventValue(k) ==
  {Absent} \cup {ValueAt(k, f) : f \in {g \in Range(Places(k)) : Has(k, g)}}

\* The assertion that the copies whose values go to the garbage have the same value.
ValuesDiffer(k, full) ==
  \E h, i \in {j \in full : Has(k, Places(k)[j])} :
    /\ h < i /\ ValueAt(k, Places(k)[h]) \in constants
    /\ ValueAt(k, Places(k)[i]) # ValueAt(k, Places(k)[h])

\* generic_operation after a full update of the first copy; status[i] is the answer of
\* operation() for the i-th copy.  It goes from copy to copy while the answer is a full
\* update.  Memory may run out on the way: the copies before are written then, and
\* nobody comes back to them.  Any other answer fails an assertion, and so does the
\* lack of memory at the last copy of a key with two dots, where the handler tests the
\* answer of the copy before (:584).
generic_operation(k, v, status, delays, there) ==
  LET copies == DOMAIN Places(k)
      full == {i \in copies : \A h \in 1 .. i : status[h] = "full_update"}
      stop == {i \in copies \ full : \A h \in 1 .. i - 1 : status[h] = "full_update"}
      oom == \E i \in stop : status[i] = "out_of_memory"
      asserts == \E i \in stop : \/ status[i] \notin {"throttled_out", "out_of_memory"}
                                 \/ k \in TwoDots /\ i = Len(Places(k))
  IN  /\ 1 \in full
      /\ PutElement(k, v, {Places(k)[i] : i \in full})
      /\ has_any_updates' = (has_any_updates \/ full = copies)
      /\ element_delays' \in IF full = copies THEN delays ELSE {element_delays}
      /\ memory_status' = IF oom THEN "HARD_OOM" ELSE memory_status
      /\ aborted' = IF asserts \/ ValuesDiffer(k, full) THEN "copies" ELSE aborted
      /\ master_pc' = IF oom THEN "idle" ELSE there

\* Where memory may run out after the first copy: 0 is nowhere.
OutOfMemory(k) == {0} \cup 2 .. Len(Places(k))

ReadEvent ==
  /\ master_pc = "read" /\ aborted = None
  /\ UNCHANGED <<resourceVars, kills>>

CountEvent == events < MaxEvents /\ events' = events + 1

StoreNewValue(k, operation) ==
  /\ ReadEvent /\ CountEvent
  /\ FreeCells # {}
  /\ \E outdated \in Outdated(k), value \in EventValue(k), oom \in OutOfMemory(k) :
       LET status == [i \in DOMAIN Places(k) |->
                        IF i = oom THEN "out_of_memory"
                        ELSE StoreStatus(k, Places(k)[i], operation, outdated, value)]
       IN  generic_operation(k, CHOOSE c \in FreeCells : TRUE, status,
                             update_element_in_expiration_trace(k), "read")

\* The event has the value of the first copy.  A key without dots and without an entry
\* gets one before the values are compared: it is null, and so may be the value.
StoreSameValue(k, operation) ==
  /\ ReadEvent
  /\ ~IsThrottled(k) /\ IsSaved(k, operation)
  /\ Exists(k) \/ k \in Simple
  /\ updating' = IF Exists(k) THEN updating ELSE [updating EXCEPT ![k] = Null]
  /\ element_delays' \in update_element_in_expiration_trace(k)
  /\ UNCHANGED <<heapVars, sampleVars, updating_garbage, has_any_updates, memory_status,
                 controlVars, events>>

\* The entry of the map is made before the operation is refused, and stays;
\* without it nothing changes.
StoreIsRefused(k, operation) ==
  /\ ReadEvent /\ CountEvent
  /\ ~IsThrottled(k) /\ IsRefused(k, operation)
  /\ updating[FirstPlace(k)] = Absent
  /\ updating' = [updating EXCEPT ![FirstPlace(k)] = IF k \in Simple THEN Null ELSE Empty]
  /\ UNCHANGED <<heapVars, sampleVars, updating_garbage, has_any_updates, element_delays,
                 memory_status, controlVars>>

\* Memory is needed for arrays that are shared with a sample.
DeleteElement(k, there) ==
  \E oom \in OutOfMemory(k) :
    LET runs_out(i) == i = oom /\ updating[Places(k)[i]] \in constants
        status == [i \in DOMAIN Places(k) |-> IF runs_out(i) THEN "out_of_memory"
                                              ELSE DeleteStatus(k, Places(k)[i])]
    IN  generic_operation(k, Absent, status, {element_delays \ {k}}, there)

Delete(k) == ReadEvent /\ CountEvent /\ DeleteElement(k, "read")

Touch(k) ==
  /\ ReadEvent
  /\ Exists(k)
  /\ element_delays' \in update_element_in_expiration_trace(k)
  /\ UNCHANGED <<heapVars, sampleVars, updating, updating_garbage, has_any_updates,
                 memory_status, controlVars, events>>

InUpdate == master_pc \in {"read", "expire"} /\ aborted = None

\* Memory runs short: new keys are ignored from now on, or the cron returns
\* and never starts again.
SoftOom ==
  /\ InUpdate /\ memory_status = "NORMAL"
  /\ memory_status' = "SOFT_OOM"
  /\ UNCHANGED <<resourceVars, heapVars, sampleVars, replayVars, controlVars, events, kills>>

HardOom ==
  /\ InUpdate
  /\ memory_status' = "HARD_OOM"
  /\ master_pc' = "idle"
  /\ UNCHANGED <<resourceVars, heapVars, sampleVars, replayVars, aborted, events, kills>>

(***************************************************************************)
(* confdata_binlog_update_cron.                                            *)
(***************************************************************************)
MasterGoto(here, there) ==
  /\ master_pc \in here /\ aborted = None
  /\ master_pc' = there
  /\ UNCHANGED <<aborted, kills>>

\* try_use_previous_confdata_storage_as_init: the assertion on the sizes.
SizesDiffer ==
  /\ ~has_any_updates /\ updating # EmptyStorage
  /\ Size(updating) # Size(sample[active_resource_id])

StartCycle ==
  /\ memory_status # "HARD_OOM" /\ ~SizesDiffer
  /\ MasterGoto({"idle"}, "read")
  /\ updating' = IF ~has_any_updates /\ updating = EmptyStorage
                   THEN sample[active_resource_id] ELSE updating
  /\ UNCHANGED <<resourceVars, heapVars, sampleVars, updating_garbage, has_any_updates,
                 element_delays, memory_status, events>>

AbortOnSizes ==
  /\ master_pc = "idle" /\ aborted = None
  /\ memory_status # "HARD_OOM" /\ SizesDiffer
  /\ aborted' = "sizes"
  /\ UNCHANGED <<resourceVars, dataVars, master_pc, events, kills>>

\* delete_expired_elements: any of the elements with an expiration time may
\* be due; the loop also stops when the time of the update is over.
DeleteExpired(k) ==
  /\ InUpdate
  /\ k \in element_delays
  /\ CountEvent
  /\ DeleteElement(k, "expire")
  /\ UNCHANGED <<resourceVars, kills>>

\* ConfdataSample::clear.
Destroyed(r) ==
  UNION {IF n[2] = "deep_last" THEN {n[1]} \cup Elements(content, n[1]) ELSE {n[1]} :
           n \in DOMAIN garbage[r]}

destroy_garbage(r) == content' = [c \in Cell |-> IF c \in Destroyed(r) THEN Free ELSE content[c]]

save_garbage == [garbage EXCEPT ![active_resource_id] = updating_garbage]

\* finish_confdata_update, save_garbage and the reset of the next sample.
Publish ==
  LET next == get_next_inactive_resource_id
  IN  /\ has_any_updates
      /\ MasterGoto({"read", "expire"}, "switch")
      /\ BeginReset
      /\ destroy_garbage(next)
      /\ constants' = (constants \cup Reachable(content, updating)) \ Destroyed(next)
      /\ garbage' = [save_garbage EXCEPT ![next] = NoGarbage]
      /\ sample' = [sample EXCEPT ![next] = updating]
      /\ updating' = EmptyStorage
      /\ updating_garbage' = NoGarbage
      /\ has_any_updates' = FALSE
      /\ UNCHANGED <<element_delays, memory_status, events>>

Switch ==
  /\ MasterGoto({"switch"}, "clear")
  /\ EndReset
  /\ UNCHANGED <<dataVars, events>>

\* No news, or the update is ignored until a later cycle.
DoNotPublish ==
  /\ has_any_updates => ~is_resource_unused(get_next_inactive_resource_id)
  /\ MasterGoto({"read", "expire"}, "clear")
  /\ UNCHANGED <<resourceVars, dataVars, events>>

ClearSample(r) ==
  /\ BeginClear(r)
  /\ MasterGoto({"clear"}, "clear")
  /\ destroy_garbage(r)
  /\ constants' = constants \ Destroyed(r)
  /\ garbage' = [garbage EXCEPT ![r] = NoGarbage]
  /\ sample' = [sample EXCEPT ![r] = EmptyStorage]
  /\ UNCHANGED <<replayVars, memory_status, events>>

SampleIsCleared ==
  /\ EndClear
  /\ MasterGoto({"clear"}, "clear")
  /\ UNCHANGED <<dataVars, events>>

EndCycle ==
  /\ wiping = None
  /\ \A r \in OldestDirty : ~is_resource_unused(r)
  /\ MasterGoto({"clear"}, "idle")
  /\ UNCHANGED <<resourceVars, dataVars, events>>

(***************************************************************************)
(* Scripts of the workers take and release a sample.  Workers die with the *)
(* master (PR_SET_PDEATHSIG).                                              *)
(***************************************************************************)
Script(w) ==
  /\ aborted = None
  /\ Fork(w) \/ acquire_current_resource(w) \/ release_resource(w)
  /\ UNCHANGED <<dataVars, controlVars, events, kills>>

Kill(w) ==
  /\ aborted = None
  /\ kills < MaxKills /\ kills' = kills + 1
  /\ Die(w)
  /\ UNCHANGED <<dataVars, controlVars, events>>

(***************************************************************************)
(* The specification.  The first sample is loaded before workers start.    *)
(***************************************************************************)
PlacesFor(loaded) == loaded \cup UNION {Sections(k) : k \in loaded}

\* The master exits when memory does not suffice for the first sample.
ASSUME SnapshotsFit ==
  \A loaded \in Snapshots :
    Allocation(PlacesFor(loaded), Cell) \in Injection(PlacesFor(loaded), Cell)

Loaded(loaded) ==
  LET sections == UNION {Sections(k) : k \in loaded}
      cells == Allocation(PlacesFor(loaded), Cell)
      heap == [c \in Cell |->
                 CASE \E k \in loaded : cells[k] = c -> Value
                   [] \E f \in sections : cells[f] = c ->
                        [k \in {j \in loaded : \E f \in Sections(j) : cells[f] = c} |-> cells[k]]
                   [] OTHER -> Free]
      first == [f \in FirstKey |-> IF f \in (loaded \ Dotted) \cup sections
                                     THEN cells[f] ELSE Absent]
  IN  /\ content = heap
      /\ constants = Reachable(heap, first)
      /\ sample = [r \in Resource |-> IF r = active_resource_id THEN first ELSE EmptyStorage]
      /\ element_delays = {}

Init ==
  /\ ResourceInit
  /\ \E loaded \in Snapshots : Loaded(loaded)
  /\ garbage = [r \in Resource |-> NoGarbage]
  /\ updating = EmptyStorage
  /\ updating_garbage = NoGarbage
  /\ has_any_updates = FALSE
  /\ memory_status = "NORMAL"
  /\ aborted = None
  /\ master_pc = "idle"
  /\ events = 0
  /\ kills = 0

Event ==
  \/ \E k \in Key, operation \in Operation :
       \/ StoreNewValue(k, operation)
       \/ StoreSameValue(k, operation)
       \/ StoreIsRefused(k, operation)
  \/ \E k \in Key : Delete(k) \/ Touch(k) \/ DeleteExpired(k)
  \/ SoftOom \/ HardOom

Cron == \/ StartCycle \/ AbortOnSizes
        \/ Publish \/ Switch \/ DoNotPublish
        \/ \E r \in Resource : ClearSample(r)
        \/ SampleIsCleared \/ EndCycle

Next == \/ Event \/ Cron
        \/ \E w \in Worker : Script(w) \/ Kill(w)

Spec == Init /\ [][Next]_vars

\* The cron is called every second, a script ends in time, and a slot without
\* a process gets one.
FairSpec ==
  /\ Spec
  /\ WF_vars(Cron)
  /\ \A w \in Worker :
       /\ WF_vars(Script(w) /\ pid[w] = 0)
       /\ WF_vars(Script(w) /\ current[w] \in Resource)

(***************************************************************************)
(* Properties.                                                             *)
(***************************************************************************)
Storage == [FirstKey -> Cell \cup {Absent, Null, Empty}]

IsGarbage(list) == DOMAIN list \subseteq GarbageNode /\ list \in [DOMAIN list -> Nat \ {0}]

TypeOK ==
  /\ active_resource_id \in Resource
  /\ acquired_pids \in [Resource -> [Worker -> Pid \cup {0}]]
  /\ dirty_inactive_resources \subseteq Resource
  /\ wiping \in Resource \cup {None}
  /\ switching \in BOOLEAN
  /\ pid \in [Worker -> Pid \cup {0}]
  /\ current \in [Worker -> Resource \cup {None}]
  /\ content \in [Cell -> Array \cup {Free, Value}]
  /\ constants \subseteq Cell
  /\ sample \in [Resource -> Storage]
  /\ \A r \in Resource : IsGarbage(garbage[r])
  /\ updating \in Storage
  /\ IsGarbage(updating_garbage)
  /\ has_any_updates \in BOOLEAN
  /\ element_delays \subseteq Key
  /\ memory_status \in {"NORMAL", "SOFT_OOM", "HARD_OOM"}
  /\ aborted \in {None, "sizes", "copies"}
  /\ master_pc \in {"idle", "read", "expire", "switch", "clear"}
  /\ events \in 0 .. MaxEvents
  /\ kills \in 0 .. MaxKills

\* The maps that somebody may read: the active sample, the samples that scripts
\* hold, and, until memory runs out, the one being updated.
MapsInUse == {sample[active_resource_id]}
             \cup {sample[current[w]] : w \in {v \in Worker : current[v] \in Resource}}
             \cup (IF memory_status = "HARD_OOM" THEN {} ELSE {updating})

\* A script never meets destroyed memory: all that a map in use refers to is
\* there, although its values are shared with samples that were cleared and
\* destroyed meanwhile.
MapsInUseAreWhole ==
  \A storage \in MapsInUse :
    \A c \in Reachable(content, storage) : content[c] # Free /\ (c \in constants \/ storage = updating)

\* What the next map is made from.
Newest == IF master_pc = "switch" THEN sample[wiping]
          ELSE IF updating = EmptyStorage /\ ~has_any_updates THEN sample[active_resource_id]
          ELSE updating

\* The garbage lists: one for each sample, and the one of the map being updated.
ListOf(l) == IF l = None THEN updating_garbage ELSE garbage[l]

Lists == Resource \cup {None}

NodesOf(c) == UNION {{l} \X {n \in DOMAIN ListOf(l) : n[1] = c} : l \in Lists}

\* Every value and array that was published is either still in the newest map
\* or in exactly one garbage list, once, and only such cells are in the lists:
\* nothing leaks and nothing is destroyed twice.  A sample gets its list when it
\* has none, as save_garbage asserts.  Without memory nothing is destroyed any more.
GarbageIsComplete ==
  memory_status # "HARD_OOM" =>
  /\ \A c \in constants :
       IF c \in Reachable(content, Newest) THEN NodesOf(c) = {}
       ELSE \E x \in NodesOf(c) : NodesOf(c) = {x}
  /\ \A l \in Lists : \A n \in DOMAIN ListOf(l) : n[1] \in constants /\ ListOf(l)[n] = 1
  /\ master_pc # "switch" => garbage[active_resource_id] = NoGarbage

\* "There's an invariant that all these copies are consistent. See asserts below."
\* A key with several sections has the same value in all of them, or none, in every map
\* that somebody may read: also when memory runs out between two copies.  Every copy of
\* a key gives its own answer to an event, and the answers agree: an assertion about them
\* fails only where memory ran out.
CopiesAreConsistent ==
  /\ \A storage \in MapsInUse, k \in Dotted :
       LET entry(f) == LET array == ArrayOf(content, storage, f)
                       IN  IF k \in DOMAIN array THEN array[k] ELSE Absent
       IN  \A f, g \in Sections(k) : entry(f) = entry(g)
  /\ aborted = "copies" => memory_status = "HARD_OOM"

\* A script reads one map from its start to its end: neither the sample that it
\* took nor an array or a value that the sample refers to changes meanwhile,
\* although the master updates, publishes and destroys maps that share them.
ScriptsReadOneMap ==
  [][\A w \in Worker :
       current[w] \in Resource /\ current'[w] = current[w] =>
         LET r == current[w] IN
         /\ sample'[r] = sample[r]
         /\ \A c \in Reachable(content, sample[r]) : content'[c] = content[c]]_vars

\* An update that was read reaches the scripts, also when it has to wait for
\* a slow script or for the replacement of a killed one.
UpdatesArePublished ==
  has_any_updates ~> (~has_any_updates \/ memory_status = "HARD_OOM" \/ aborted # None)

\* When an update cycle starts without pending updates, the map being updated
\* is as large as the active sample, as the assertion of
\* try_use_previous_confdata_storage_as_init says.
UpdatingIsIdentical == aborted # "sizes"
===============================================================================
