------------------------ MODULE SharedMemoryManager ------------------------
(***************************************************************************)
(* The shared memory of the job workers: a pool of messages and a pool of  *)
(* extra buffers, mapped by the master before it forks, and used by every  *)
(* worker process (server/job-workers/shared-memory-manager.{h,cpp},       *)
(* job-message.h).                                                         *)
(*                                                                         *)
(* A message is freed by its last owner.  It counts its owners, and each   *)
(* process lists in a small table the messages it must give back when its  *)
(* script ends or when it dies and is replaced.  The operators below are   *)
(* the manager's operations, as fragments of the actions of a process p.   *)
(* The freelists are used here as sets: which free element is handed out   *)
(* does not matter to the callers.                                         *)
(***************************************************************************)
EXTENDS Integers, FiniteSets

CONSTANTS
  Proc,         \* worker processes, named by their slot (logname_id)
  Msg,          \* messages of the pool
  NoMsg,        \* the null pointer
  Buffer,       \* extra memory buffers
  BufferGroup,  \* the size group of each buffer
  SlotCount,    \* length of a process's table (8 in the code)
  MaxOwners     \* the largest value of the owners counter (2^32 - 1 in the code)

ASSUME ShmAssumption ==
  /\ Proc # {}
  /\ NoMsg \notin Msg
  /\ IsFiniteSet(Msg)
  /\ SlotCount \in Nat \ {0}
  /\ MaxOwners \in Nat \ {0}
  /\ Cardinality(Msg) <= MaxOwners
  /\ BufferGroup \in [Buffer -> Nat]

VARIABLES
  free_messages,   \* messages in the freelist
  free_extra,      \* buffers in the freelists of their groups
  owners_counter,  \* JobMetadata::owners_counter of each message
  common_job,      \* JobSharedMessageMetadata::common_job of each message
  extra,           \* buffers chained to each message
  attached         \* WorkerProcessMeta of each process slot

shmVars == <<free_messages, free_extra, owners_counter, common_job, extra, attached>>

Slot == 1..SlotCount

ShmTypeOK ==
  /\ free_messages \subseteq Msg
  /\ free_extra \subseteq Buffer
  /\ owners_counter \in [Msg -> 0..MaxOwners]
  /\ common_job \in [Msg -> Msg \cup {NoMsg}]
  /\ extra \in [Msg -> SUBSET Buffer]
  /\ attached \in [Proc -> [Slot -> Msg \cup {NoMsg}]]

\* SharedMemoryManager::init.
ShmInit ==
  /\ free_messages = Msg
  /\ free_extra = Buffer
  /\ owners_counter = [m \in Msg |-> 0]
  /\ common_job = [m \in Msg |-> NoMsg]
  /\ extra = [m \in Msg |-> {}]
  /\ attached = [p \in Proc |-> [i \in Slot |-> NoMsg]]

\* The counter is an atomic uint32_t: it wraps at both ends.
Increment(n) == IF n = MaxOwners THEN 0 ELSE n + 1

DecrementTwice(n) == n - 2  \* faulty: the caller and release both decrement

Decrement(n) == IF n = 0 THEN MaxOwners ELSE n - 1

TableOf(p) == {attached[p][i] : i \in Slot} \ {NoMsg}

\* Slot i is the first one of p's table that holds x.
FirstAt(p, x, i) ==
  /\ attached[p][i] = x
  /\ \A j \in Slot : j < i => attached[p][j] # x

HasFreeSlot(p) == \E i \in Slot : attached[p][i] = NoMsg

\* WorkerProcessMeta::replace; where no slot holds old it runs into assert(false),
\* which is a guard here and an obligation of AssertionsHold in JobWorkers.
replace(p, old, new) ==
  \E i \in Slot :
    /\ FirstAt(p, old, i)
    /\ attached' = [attached EXCEPT ![p] = [@ EXCEPT ![i] = new]]

attach(p, m) == replace(p, NoMsg, m)
detach(p, m) == replace(p, m, NoMsg)

\* acquire_shared_message<T>: take m from the freelist, construct it, attach it.
acquire_shared_message(p, m) ==
  /\ m \in free_messages
  /\ free_messages' = free_messages \ {m}
  /\ owners_counter' = [owners_counter EXCEPT ![m] = 1]
  /\ common_job' = [common_job EXCEPT ![m] = NoMsg]
  /\ extra' = [extra EXCEPT ![m] = {}]
  /\ attach(p, m)
  /\ UNCHANGED free_extra

\* attach_shared_message_to_this_proc, for a message another process sent here.
attach_shared_message_to_this_proc(p, m) ==
  /\ owners_counter[m] # 0
  /\ attach(p, m)
  /\ UNCHANGED <<free_messages, free_extra, owners_counter, common_job, extra>>

\* Faulty: the sender keeps in its table a message it no longer owns.
DetachForgotten(p, m) == UNCHANGED shmVars

\* detach_shared_message_from_this_proc.
detach_shared_message_from_this_proc(p, m) ==
  /\ detach(p, m)
  /\ UNCHANGED <<free_messages, free_extra, owners_counter, common_job, extra>>

\* The release of a job by its last owner also releases the common piece bound
\* to it.  A common piece has no piece of its own, so this stops there.
Dropped(m) ==
  IF owners_counter[m] = 1 /\ common_job[m] # NoMsg THEN {m, common_job[m]} ELSE {m}

Freed(m) == {x \in Dropped(m) : owners_counter[x] = 1}

\* Faulty: the buffers are forgotten.
ExtraForgotten(F) ==
  /\ extra' = [x \in Msg |-> IF x \in F THEN {} ELSE extra[x]]
  /\ UNCHANGED free_extra

\* The buffers chained to the freed messages go back to their groups.
ReturnExtra(F) ==
  /\ free_extra' = free_extra \cup UNION {extra[x] : x \in F}
  /\ extra' = [x \in Msg |-> IF x \in F THEN {} ELSE extra[x]]

\* release_shared_message.  Only the decrement of the counter is contended: what
\* follows it is done by the last owner alone, so the whole release is one step.
release_shared_message(p, m) ==
  /\ Dropped(m) \subseteq TableOf(p)
  /\ attached' = [attached EXCEPT ![p] =
       [i \in Slot |-> IF \E x \in Dropped(m) : FirstAt(p, x, i)
                       THEN NoMsg ELSE attached[p][i]]]
  /\ owners_counter' = [x \in Msg |-> IF x \in Dropped(m)
                                      THEN Decrement(owners_counter[x])
                                      ELSE owners_counter[x]]
  /\ free_messages' = free_messages \cup Freed(m)
  /\ ReturnExtra(Freed(m))
  /\ UNCHANGED common_job

\* Faulty: the slots are visited from the last one.
LastForced(p, i) ==
  /\ attached[p][i] # NoMsg
  /\ \A j \in Slot : j > i => attached[p][j] = NoMsg

\* One iteration of forcibly_release_all_attached_messages: the slots are
\* visited in order, so the next one is the first that is not null.
NextForced(p, i) ==
  /\ attached[p][i] # NoMsg
  /\ \A j \in Slot : j < i => attached[p][j] = NoMsg

forcibly_release_next(p) ==
  \E i \in Slot :
    /\ NextForced(p, i)
    /\ owners_counter[attached[p][i]] # 0
    /\ release_shared_message(p, attached[p][i])

\* request_extra_memory_for_resource: a buffer of the smallest group that is
\* large enough and not empty.
FitsBest(b, g) ==
  /\ b \in free_extra
  /\ BufferGroup[b] >= g
  /\ \A c \in free_extra : BufferGroup[c] >= g => BufferGroup[b] <= BufferGroup[c]

request_extra_memory_for_resource(m, g) ==
  \E b \in Buffer :
    /\ FitsBest(b, g)
    /\ free_extra' = free_extra \ {b}
    /\ extra' = [extra EXCEPT ![m] = @ \cup {b}]
    /\ UNCHANGED <<free_messages, owners_counter, common_job, attached>>

\* Faulty: the reference to the piece is not counted.
BindUncounted(m, c) ==
  /\ common_job' = [common_job EXCEPT ![m] = c]
  /\ UNCHANGED <<free_messages, free_extra, owners_counter, extra, attached>>

\* JobSharedMessageMetadata::bind_common_job.
bind_common_job(m, c) ==
  /\ owners_counter' = [owners_counter EXCEPT ![c] = Increment(@)]
  /\ common_job' = [common_job EXCEPT ![m] = c]
  /\ UNCHANGED <<free_messages, free_extra, extra, attached>>

\* Faulty: the job goes, its reference to the common piece stays counted.
ReleaseStillBound(p, m) ==
  /\ detach(p, m)
  /\ common_job' = [common_job EXCEPT ![m] = NoMsg]
  /\ owners_counter' = [owners_counter EXCEPT ![m] = Decrement(@)]
  /\ free_messages' = free_messages \cup {m}
  /\ ReturnExtra({m})

\* The failed send of a job m: unbind_common_job, then release_shared_message.
\* With its common piece unbound, m takes nothing else with it.
unbind_and_release(p, m) ==
  LET F == {x \in {m} : owners_counter[x] = 1} IN
  /\ detach(p, m)
  /\ common_job' = [common_job EXCEPT ![m] = NoMsg]
  /\ owners_counter' = [x \in Msg |-> IF x \in {m, common_job[m]}
                                      THEN Decrement(owners_counter[x])
                                      ELSE owners_counter[x]]
  /\ free_messages' = free_messages \cup F
  /\ ReturnExtra(F)

\* attach_shared_message_to_this_proc, then release_shared_message, of a message
\* without common piece: the two together leave p's table as it was.
attach_then_release(p, m) ==
  LET F == {x \in {m} : owners_counter[x] = 1} IN
  /\ HasFreeSlot(p)
  /\ owners_counter[m] # 0
  /\ owners_counter' = [owners_counter EXCEPT ![m] = Decrement(@)]
  /\ free_messages' = free_messages \cup F
  /\ ReturnExtra(F)
  /\ UNCHANGED <<common_job, attached>>
=============================================================================
