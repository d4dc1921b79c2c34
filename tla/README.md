# Specifications of the KPHP server

KPHP compiles PHP to C++ and links it with a multi-process server. A master forks
general workers (HTTP, RPC) and job workers; the processes share memory that the
master maps before it forks, talk through pipes, die, and are replaced in their
slots. These specifications describe that concurrent part: the job workers, where messages
in shared memory change owners between processes that may be stopped at almost any
point; the lock-free lists under them; the mutex that survives its holder; and the two
caches in shared memory, instance cache and confdata, that scripts read while the
master replaces and destroys their contents.

Paths below are relative to `src/`.

## Inventory

| Part | State | Operations | What is hard about it |
|---|---|---|---|
| Shared memory of jobs (`server/job-workers/shared-memory-manager.*`, `job-message.h`) | freelists of messages and buffers, owners counter and common piece of a message, 8-slot table per process | acquire, attach, detach, release (cascades to the common piece), forced release, extra memory, bind and unbind | counters and tables must agree although they change at different moments; a table must never overflow |
| Job client (`runtime/job-workers/client-functions.cpp`, `processing-jobs.cpp`, `server/job-workers/job-worker-client.cpp`) | jobs waited for, queued answers, ids of the running script | start, start without reply, multi start, read results, answer, timeout | failed sends, late answers, a script stopped in the middle of a start |
| Job server (`server/job-workers/job-worker-server.cpp`, `runtime/job-workers/server-functions.cpp`) | running job, reply flag, one-shot epoll registration | take a job, skip a wake-up, reply, error reply, end of query | several workers wake up for one job; a wake-up must not be lost |
| Job pipes (`pipe-io.cpp`, `job-workers-context.cpp`) | addresses in flight | write, read | full, empty, an address outliving its message |
| Script ids (`server/slot-ids-factory.*`) | range of ids of the running script | create, clear, renew | answers of earlier scripts and earlier processes |
| Script lifecycle (`server/php-worker.cpp`, `php-runner.cpp`) | state of the query and of the script | start, run, free, finish, terminate | timeouts and errors at any point |
| Process lifecycle (`server/php-engine.cpp`, `php-master.cpp`) | signals, slots | SIGTERM, exit, kill, fork into a slot | death between two steps |
| Freelist (`common/allocators/freelist.cpp`, `common/smart_ptrs/tagged-ptr.h`) | tagged stack | get, put | ABA, the width of the tag, a kill between two instructions |
| Inter-process mutex (`runtime/inter-process-mutex.cpp`) | a word with the holder's id and two flags | lock, try_lock, unlock, clearing a dead owner | death of a holder, stale answers of the kernel |
| Inter-process resources (`runtime/inter-process-resource.h`) | a ring of resources, a table of pids of users | acquire, release, forced release, switch, clear in order | the master works on a resource after it looked at the table |
| Instance cache (`runtime/instance-cache.cpp`) | counted elements in shared memory, two mutexes, caches of a script | store, delayed store, fetch, update_ttl, del, purge, swap | elements read while replaced, lock order, memory that runs out |
| Confdata (`server/confdata-binlog-replay.cpp`, `runtime/confdata-*`) | published maps, the map being updated, garbage of each sample | events of the binlog, expiration, publication, destruction of old samples | maps share arrays and values; every one must be destroyed once and not too early |
| Graceful restart (`server/php-master-restart.cpp`, `php-master.cpp`) | shared state of two masters | handover of sockets and of workers | death of either master |
| Signals and critical sections (`server/signal-handlers.cpp`, `runtime/critical_section.cpp`) | nesting counter, pending mask | enter, leave, raise | a signal between check and use |
| Compiler, PHP library, TL tools, runtime-light, network clients | | | not concurrent, or external protocols; not modelled |

## Modules

| Module | What it is |
|---|---|
| `SharedMemoryManager` | the shared memory of jobs: its variables, and each operation of the class as a fragment of an action of a process |
| `JobWorkersState` | the state of workers and pipes, its types, and who has which message |
| `JobWorkers` | the steps of clients, job workers, scripts, signals and deaths; the properties |
| `Ownership`, `JobWorkersInv` | the inductive invariants of the proofs |
| `MCJobWorkers` | small instances |
| `JobWorkersProofs` | types, answers reach their script, idle workers listen, and the lemmas on single steps |
| `OwnershipLemmas`, `OwnershipProofs` | the owners of messages: lemmas about the invariant's parts and the kinds of steps, then every action |
| `JobWorkersTheorems` | the theorems about owners, and what follows from them: extra buffers, replies, slots, assertions, and that sent messages do not change |
| `MessagePool` | what the pools promise: a set that processes take from and give back to in one step |
| `Freelist`, `MCFreelist`, `FreelistProofs` | the lock-free list, its instance, and the proof that it implements `MessagePool` |
| `InterProcessMutex`, `MCInterProcessMutex`, `InterProcessMutexProofs` | the mutex and the kernel's side of it, instances, and what its safety depends on |
| `InterProcessResource` | the ring of resources, on its own |
| `InstanceCache`, `MCInstanceCache`, `InstanceCacheProofs` | one buffer of the instance cache, its instance, and the proof that references are counted |
| `Confdata`, `MCConfdata`, `ConfdataProofs` | confdata on top of the ring, instances, and the proofs that samples in use are kept and do not change, maps in use are whole and garbage is destroyed once |

The modules meet in three places. `SharedMemoryManager` takes from and gives to a *set*
of free messages; `Freelist` is shown to implement that set. `InstanceCache` takes its two
mutexes as what `InterProcessMutex` is meant to promise: one holder, and a dead holder blocks
nobody. `InterProcessResource` takes its control block's mutex the same way. The run
`mutex_stale` shows an execution in which there are two holders, so what is checked and
proved of the two caches and of the ring holds as long as that one does not happen.
`Confdata` EXTENDS `InterProcessResource` and conjoins its steps, so that the ring and the
maps move together.

### Job workers: how the state corresponds to the code

A process is named by its slot (`logname_id`), so a process and the one that replaces
it share a name, a table and a result pipe, as in the code. `pc[p]` is the program
point; the list `Point` says which code each point stands for. A step is the code
between two points at which another process can see a difference. Variables carry the
names of the fields they stand for. `sent_ids` and `replied` are history variables and
appear in no guard.

`CopyGrows`, `CopyTooBig` stand for `copy_instance_into_other_memory`, whose only
effect here is which buffers it takes. A copy may be refused while buffers are free,
because it may ask for more than the largest group of buffers offers. `StopScript` is every way a script ends: it may
return, time out, fail or exit wherever it is outside a critical section; its locals
are lost and its table remains. `Kill` is SIGKILL, a crash, or the second SIGTERM
(`sigterm_immediate_handler` exits at once).

Abstractions:

- The freelists are sets: no caller depends on which element it gets, and `Freelist`
  implements the set.
- `release_shared_message` is one step. Only the decrement of the counter is contended;
  what follows is done by the last owner. A SIGKILL inside it is a step of `Freelist`
  (`Kill`), where it loses the message and nothing else.
- A read of a pipe and the attach that follows are one step, `TakeJob` or `ReadJobResult`,
  since no other process can tell the two apart. A SIGKILL between them can be told: the
  message is then in no pipe and in no table, and nothing gives it back. `LoseRead` is this
  case; like the other kills between the change of an owner and that of a table it is
  allowed when `KillInWindow` holds.
- An assertion that would abort is a guard of the action and, as an obligation, a
  conjunct of `AssertionsHold`, which therefore says that no guard of that kind ever
  blocks.
- The fields `job_id`, `job_result_fd_idx` and `no_reply` are not reset by an acquire:
  each is written again before the message is sent, and no reader sees it before.
- The epoll event of the job pipe and the flag `C_REPARSE` are one Boolean `event`:
  both cause one call of `job_parse_execute`.
- A job's resumable runs as soon as it is made ready, so `finish_job_impl` and
  `withdraw` are one step.
- A replaced worker goes on with the ids after those of its predecessor; the code draws
  a random start in a range of half a billion.
- An acquire that fails changes nothing and is no step, except for the error response,
  where the script goes on without a reply (`ErrorResponseLost`).

### The other modules

`Freelist`: every read, write and compare-and-swap of shared memory is a step. A taken
node is overwritten by its owner (`Write`), its link included, as messages are. Tags
count modulo `TagCount` (2^16 in the code). A get that is overtaken by as many other gets as
there are tags finds its old tag again, and nothing in the code prevents it: `overtaken`
counts, `tag_reused` records the first get that swaps then, and the model ends there
(`End`), because the list may be anything afterwards. `height`, `overtaken` and `tag_reused`
are history variables.

`InterProcessMutex`: `word` is the lock word with `FUTEX_WAITERS` and `FUTEX_OWNER_DIED`
as fields. The answers of the kernel to the three futex calls are actions of their own,
written from the cases that the code tells apart. The 512 compare-and-swaps between two
futex calls are one step; `Rounds` (4 in the code) is the number of futex calls from one
`FUTEX_LOCK_PI` to the next. Thread ids are not given out again. `contended` is history.

`InterProcessResource`: the control block is always accessed under its mutex, so each
access is one step; the reset and the clearing of a resource are not under it and have a
beginning and an end. The clearing loop goes from the oldest dirty resource on and stops at
the first one in use (`OldestDirty`). The static assertion of the class admits one
resource; the code instantiates 2 and 30, and with one the ring would reset the resource
in use, so `ResourceAssumption` asks for two.

`InstanceCache`: one buffer from its construction until the last script has left it after
the swap. Times are four ages relative to the ratios that the code compares with. `local`
is a counted reference in a local variable; `lost` counts references of scripts and
processes that went away without a release. The keys of the model share a shard.
Two steps are coarser than the code. `LeaveBuffer` is the end of `free` (`:272-286`): the
script's references go and, if the allocator is free, the garbage. A kill between two of its
releases is not represented; it would leave the rest of the references counted as `lost` ones,
like a kill just before it. `PurgeLocksFirst` joins the look at the storage under its mutex
(`:472-477`) with the lock of the allocator (`:480`). The purge looks again under both mutexes,
and `PurgeErases` may find nothing left to erase.

`Confdata`: keys are model values with the list of the places that hold a copy of them, in
the order in which `generic_operation` writes them (the section with a predefined wildcard,
the one with two dots, the one with one dot). Memory is a set of cells: a value, or an array
from keys to cells; `constants` are the cells whose reference counter is the mark
`for_confdata`. A value is its cell: two events have the same value if they refer to the
same cell; `Null` and `Empty` are what an entry holds that was made and not filled. A garbage list is a function from its nodes (a cell and
its way of destruction) to how often each is in the list.

An event is one step, as nobody but the master reads the map being updated, but the step goes
from copy to copy as the code does: each copy answers for itself (`StoreStatus`,
`DeleteStatus`), `generic_operation` goes on while the answer is a full update, stops
where memory runs out with the copies before written, and sets `aborted` where an assertion
about the answers or about the replaced values (`ValuesDiffer`) fails. When memory has run
out (`HardOom`, or in the middle of an event) the cron never works again, so what the event
left half-done, the entry made for a copy that was then not written included, is never read.
Strings of keys are destroyed like the values they belong to and are not represented.
`Publish` and `Switch`, `ClearSample` and `SampleIsCleared` are the two ends of what the
master does outside the mutex. Any element with an expiration time may be due at any time.
An assertion that fails stops the master and, by `PR_SET_PDEATHSIG`, the workers.

## Runs

| Run | Instance | Shows |
|---|---|---|
| `pair` | 1 client, 1 job worker, 2 jobs, 3 messages, pipes of 1, one stop | owners counted, no assertion fails, answers go to their script, at most one reply, sent messages do not change |
| `trio` | 1 client, 2 job workers, 2 jobs with a common piece, 4 messages, no stop | a running job and its piece are safe when workers compete, and a worker that woke up in vain listens again |
| `nested` | a job starts jobs, 5 messages, 1 extra buffer, 5 slots | slots and buffers suffice and come back |
| `live` | as `pair`, 2 messages, fairness | queued jobs are taken, messages come back |
| `kill` | as `pair`, kills also inside the handover windows and between a read and its attach | **violated**, see below |
| `warn` | as `pair` | **violated**, see below |
| `freelist` | 2 processes, 2 nodes, 3 tags | until a tag is reused the list is intact and implements `MessagePool`, and only the progress of others delays a process |
| `mutex` | 3 processes, 2 deaths | one holder, no futex error, honest `try_lock`, no waiting for the dead |
| `mutex_stale` | 4 processes, 1 death | **violated**, see below |
| `instance_cache` | 2 workers, 1 key, 2 elements, 3 calls, 1 kill | references counted, scripts read live elements, unused elements are destroyed |
| `confdata` | 1 worker, ring of 3, a key without dots and one with two and a wildcard, 3 changes, 1 kill | maps in use are whole, a script reads one map from start to end, garbage is complete, the copies of a key agree and answer alike, updates are published |
| `confdata_sizes` | as `confdata`, any snapshot, 2 changes | **violated**, see below |

Why these bounds are enough for the cases of interest.

Job workers: with 3 messages and pipes of one
address the pool runs empty and both pipes run full; two jobs make a piece shared by
two jobs; one stop puts a replacement worker against the leftovers of its predecessor
at every point. `nested` was also tried with 4 slots: then `AssertionsHold` fails, so
the need of a worker is exactly 5 slots; the code has 8. Budgets (`JobBudget`,
`MaxStops`) are guards on creation only and stop nothing that is under way. The
messages are symmetric, and so are the two job workers of `trio`; the liveness run uses no
symmetry. That a worker which finds the pipe empty polls it again is an invariant of `trio`
(`IdleWorkersListen`): `JobsAreTaken` would not notice one that does not, as long as
the other worker takes the jobs.

Freelist: two nodes and two processes are enough for ABA (take both, give back the first),
and three tags wrap around several times and are reused; the proofs cover the rest.

Mutex: three processes are a dead holder, one that clears its word and one that comes in
between. The fourth, needed to set `FUTEX_WAITERS` on the new holder's word, is the subject of
`mutex_stale`: `MutualExclusion` holds for three processes and fails for four. What holds for any
number of processes is proved below.

Instance cache: two elements for one key make memory run out at the third store, so that
garbage, the failed copy and the swap are all reached; a second worker competes for
both mutexes. The run has no deadlock check: the life of a buffer ends.

Confdata: three changes publish three samples and close a ring of three, so that a sample
is reset that was published before; a script that keeps the first sample through two
publications sees whether garbage is destroyed too early, which takes two keys: with
one, clearing the samples in a wrong order goes unnoticed. The key with dots has three copies,
the most the code makes, so that memory may run out after the first, at the second and at the
third. `Cell` has five cells for the snapshot and enough for each change. One worker is enough here because workers meet only in the table of pids,
and what the table guarantees is proved for any number of them.
The run has no deadlock check: the server
stops when an assertion of the master fails.

Fairness of the job workers (`FairSpec`): a process that has a next instruction executes it
(`Proceed`, weak). The event loop comes round again and again while scripts come and
go, and epoll reports what is ready whenever it does (`Poll`, strong: a script may
keep the loop from polling for a while, not for ever). A script ends, by its time limit
if nothing else (`StopScript`, strong). After SIGTERM the loop ends (`Exit`, weak). The
master restarts dead workers (`RunWorker`, part of `Proceed`). Nothing is assumed
about queries arriving, about scripts starting jobs, or about stops.

Fairness elsewhere. `Freelist`, `InterProcessMutex`: a process that is inside an operation
goes on (weak, per process), and a holder leaves its critical section; nobody has to start
an operation. `InstanceCache`: a worker goes on
(weak); one that waits for a mutex gets it although others take it in between (strong: the
kernel queues waiters by priority and hands the mutex over); scripts end and the master's
cron goes on. `Confdata`: the cron is called every second (weak); a script that has a
sample ends and an empty slot gets a process (weak). No event is assumed to come.

### Four disagreements

`kill`: a SIGKILL, which no critical section defers, between the write of a job and the
detach. The job is then in the pipe and in the dead process's table. The replacement
releases everything in the table, so the job is freed while its address is in the pipe,
and the reader's `assert(message->owners_counter)` (`shared-memory-manager.cpp:109`)
fails, or does not because somebody else has the memory by then. The passing runs
exclude kills in the four points of `HandoverWindow`.

`warn`: `send_job_request_message` says that it is incorrect to use the message after
the send, and after a failed send reads the class name through the message it has just
released (`client-functions.cpp:99-101`).

`mutex_stale`: `handle_lock_error` learns from the kernel that the owner is dead, and then
reads the word again (`inter-process-mutex.cpp:40`). In between a second process that got
the same answer may have cleared the word and locked the mutex, and a third may have set
`FUTEX_WAITERS` by a failed `FUTEX_TRYLOCK_PI`; the word then looks abandoned (`:41`), the
compare-and-swap (`:42`) frees the mutex of a live holder, and two processes hold it. The
unit test of the mutex asserts that there is one holder
(`tests/cpp/runtime/inter-process-mutex-test.cpp`).

`confdata_sizes`: a `replace` of a key that is not there makes an entry for the key
(`confdata-binlog-replay.cpp:733`) before it is refused (`:738`, `:786`), and reports that
nothing was updated. The next cron finds that the map being updated and the published map
differ in size, and its assertion (`:418`) stops the master. A `set` or `add` of an absent key
without dots does the same if its value decodes to null: the entry made at `:733` is null, so
`is_new_value` (`:943-946`) finds nothing new and the answer is `ttl_update_only` (`:748`).
`StoreIsRefused` is the first case, `StoreSameValue` the second.

A further observation without a run of its own: after the last copy of a key with two dots
is written, `generic_operation` tests the status of the copy before
(`confdata-binlog-replay.cpp:584`, `operation_status` where `should_be_full` is meant). If
memory runs out exactly there, the assertion at `:587` stops the master where the code
meant to throttle. `generic_operation` of `Confdata` includes it; `CopiesAreConsistent` says
that it is the lack of memory alone that lets an assertion about the copies fail.

## Proofs

Checked by TLAPS for all values of the constants that satisfy the named assumptions.

Job workers (`ShmAssumption`, `JobAssumption`):

- `TypeCorrect`: `Spec => []TypeOK`, kills inside the windows included. `TypeOK` is not
  inductive alone: that `msg[p]` is a message, not null, when it is released or sent
  depends on the program point. The induction is on `TypeOK /\ PointOK`, where `PointOK`
  says which locals are set where.
- `AnswersReachTheirScript`: `Spec => []AnswersOfThisScript`, kills inside the windows
  included. The invariant `IdsOK` ties the range of the slot factory to the ids the running
  script created, and says that without a script the range is empty and nothing is waited
  for. An answer passes the test of the range only if its id is in it.
- `IdleWorkersAreReached`: `Spec => []IdleWorkersListen`, all kills included. A job worker
  without a job has the descriptor armed, or an event of it still to handle; it follows
  every step that disarms the descriptor or leads to `idle`.
- `OwnersAreCounted` and `RunningJobsAreSafe`: `~KillInWindow` implies
  `Spec => []OwnersCounted` and `Spec => []RunningJobIsSafe`. The hypothesis is needed: the
  run `kill` shows what happens without it. Neither property is inductive; the induction is
  on `OwnershipInv` (module `Ownership`), which says: no message is twice in a table or in
  the pipes; what a process holds is in no pipe and nobody else's; the piece of a job in
  use is in no pipe and has no piece; the counter is the number of bound jobs, and one for
  an owner or a pipe; and, for each process, what it knows of `msg`, `com` and
  `running_job` at each point, in particular that a job in a table comes with its piece
  in a higher slot, so that the forced release in slot order works. The steps are first
  reduced to the few things they do to messages (take one, give one back, bind, write,
  read, move between locals), then each kind is shown to keep the invariant. Facts about
  cardinalities are taken through `MsgCounting`, which is proved once from the theorems on
  finite sets.
- `NoBufferIsLost`, `JobsAreRepliedOnce` and `NoAssertionFails`: `~KillInWindow` implies
  `Spec => []ExtraBuffersAccounted`, `Spec => AtMostOneReply` and, with `SlotCount >= 5`,
  `Spec => []AssertionsHold`. Each adds a part to the two invariants above (`JobWorkersInv`;
  their conjunction is `JobInv`). `ExtraOK` says that the chains of the messages and the
  free buffers are a partition of the buffers, and that free messages have no chain.
  `RepliesOK` calls a job *unanswered* while it is on its way to a worker or with the worker
  that has not replied: no two unanswered messages are the same job, and no unanswered job
  was replied to. `SlotsOK` says what a table may hold at each point: the running job and its
  piece, the message in hand and, inside `start_multi`, the common piece, so never more than
  four messages when a fifth is attached; after a stop, whatever was there. The number five
  is sharp: with four slots TLC finds the table full.
- `SentIsFrozen`: `~KillInWindow` implies `Spec => SentMessagesAreFrozen`: from the send to
  the moment its reader gives it up, nobody writes to a message or to the common piece of a
  sent job. The lemmas say which message each step writes to: one that the process has in
  hand, has just taken from the pool, or releases as its last owner. `OwnershipInv` keeps
  these apart from what is in a pipe or with a reader, except for a common piece that its
  writer still has in hand; for that `FreshOK` says that no job is bound to a piece while
  `start_multi` is still writing it.

The parts of the invariants were checked by TLC on the instances of `pair`, `nested` and
`trio` before they were proved.

Freelist (`FreelistAssumption`):

- `FreelistTypeCorrect`, `ListStaysIntact`: `Spec => []TypeOK`, `Spec => []ListIsIntact`, for any
  number of tags. The invariant (`FreelistInv`) gives every node of the list a height that
  grows by one along the links, and says of an attempt of a get whose tag is still current
  that nothing was taken since it read the top, unless as many gets as there are tags have
  passed, which is where the promise ends.
- `FreelistImplementsPool`: `Spec => ImplementsPool`; the swap of a get is the `Take`, the
  swap of a put the `Give`, everything else is a stutter or a loss, until a tag is reused.

Mutex (`MutexAssumption`):

- `ClearingTheDeadIsSafe`: `Spec /\ []OnlyDeadOwnersCleared => []MutualExclusion`. The
  invariant is that a holder is the owner in the word. The
  hypothesis is not true of the code in general, as `mutex_stale` shows; the theorem says
  that clearing a live owner in `handle_lock_error` is the only way to two holders.
- `NoFutexCallFails`: `Spec /\ []OnlyDeadOwnersCleared => []NoFutexError`, from the same
  invariant, which also says that while a process sleeps in the kernel the word has a live
  owner and `FUTEX_WAITERS`.
- `OneClearerIsSafe`: `Spec /\ []OneClearer => []MutualExclusion /\ []NoFutexError`, for any
  number of processes and deaths, where `OneClearer` says that no two processes are in
  `handle_lock_error` at the same time. A process that is alone there reads and clears the
  word of the dead owner which the kernel met, because only a compare-and-swap in
  `handle_lock_error` takes a dead owner out of the word (`ReadsDeadOwner`). So the window of
  `mutex_stale` is the only one: it takes a second process in `handle_lock_error`.
- `MutexTypeCorrect` and `TryLockFailsHonestly`: `Spec => []TypeOK`, and
  `Spec => TryLockIsHonest` if `Attempts >= 2`, as in the code. These need nothing of
  `handle_lock_error`. The invariant (`TryInv`) follows a `try_lock` during which no live
  process held the mutex: after its first attempt the word is 0 and only its
  compare-and-swap is left, which then succeeds.

Instance cache (`CacheAssumption`: finitely many workers and keys, any number of elements):

- `CacheTypeCorrect`, `ReferencesAreCounted`, `ScriptsReadLiveElements`: `Spec => []TypeOK`,
  `Spec => []RefsCounted`, `Spec => []ScriptReadsLiveElements`. They are proved together.
  That a counter does not go below zero needs the count of owners; the count needs that no
  element is stored under two keys (`StoredOnce`), that an element about to be inserted has
  its creator as its only owner, and that all that `request_cache` points to without counting
  is in `used_elements` (`PlaceOK`). The conjunction `CacheInv` was checked by TLC on the
  instance of the run. The cardinalities of the three sets of owners change by one at a
  time, by the theorems on finite sets.

Confdata and the ring (`ResourceAssumption`, `ConfdataAssumption`, `SnapshotsFit`):

- `SampleInUseIsKept`: `Spec => []ResourceInUseIsKept`. The invariant (`ResourceInv`) says
  that a resource the master works on is not the active one, so nobody can take it, and
  that the table has no user of it, while every user is in the table; a fork clears only
  the column of a slot without a user.
- `ConfdataImplementsTheRing`: `Spec => ResourceSpec`, so what holds of the ring holds of
  confdata.
- `ConfdataTypeCorrect`, `ScriptsReadWholeMaps`, `GarbageIsDestroyedOnce`, `CopiesAgree`:
  `Spec => []TypeOK`, `Spec => []MapsInUseAreWhole`, `Spec => []GarbageIsComplete`,
  `Spec => []CopiesAreConsistent`, for any keys, sections of keys, amount of memory and
  number of samples. They follow from one invariant, `ConfdataInv`, which TLC checked on
  the instance of the run first. As long as memory suffices it says:
  - every map, of a sample or being updated, has an array of its own for each section and
    one value of its own for each key, in all sections of the key (`MapOK`);
  - samples refer to published cells only, and a published cell is not free;
  - a garbage list has nodes for published cells that are not in the newest map, no cell
    has two nodes, and every published cell that is not in the newest map has one
    (`ListsOK`);
  - `OrderOK`: numbering the samples from the oldest to the newest, a cell with a node in
    the list of a sample is referred to by this sample and by older ones only. This is why
    nothing is destroyed too early: `Publish` resets the oldest sample, and when a sample
    is cleared all older ones are empty already;
  - `CronOK`: which samples are empty, and what the master has in hand, at each point of
    its cron.

  After memory ran out in the middle of an event only a part remains (`CutOK`, `StopOK`): the
  cron is idle for good, the samples are as they were, all they refer to is published,
  and agreeing copies are left in them. That no assertion about the copies fails before is
  derived from `MapOK`: the copies have one value, so `StoreStatus` and `DeleteStatus` give one
  answer for all of them, and `ValuesDiffer` is false.

  The lemmas on maps say what an event writes (`MapIsRewritten`), that a map stays as it is
  while nobody writes to its cells (`MapFrame`), and which nodes an event adds
  (`AddedNodes`). Besides the distinctness of its names, `ConfdataAssumption` asks that
  every key with dots has a section; `SnapshotsFit` says that memory suffices for the first
  sample, without which the master exits.

- `ScriptsReadOneSnapshot`: `Spec => ScriptsReadOneMap`. An event writes to cells that were
  free, and what a sample refers to is published and so not free; `Publish` and
  `ClearSample` empty a sample that the table of pids has no user of, and destroy what no
  other sample refers to. It needs `ConfdataInv` and nothing more.

Every invariant and every action property that a passing run checks is proved, under the
hypotheses stated above where it is not true in general. Only
model-checked are the liveness properties (`JobsAreTaken`, `MessagesComeBack`,
`OnlyProgressDelays`, `SomebodyLocks`, `UnusedElementsAreDestroyed`, `UpdatesArePublished`),
because fairness is beyond the prover, and the four violations, which are examples.

## Not modelled

- The graceful restart of the master and the counts of workers (`php-master-restart.cpp`,
  `workers-control.cpp`): two masters share a table under a mutex and hand over sockets and
  workers, driven by signals, timers and settings all over `php-master.cpp`. Worker ids
  are taken to be unique.
- Script execution (`php-runner.cpp`, `signal-handlers.cpp`, `critical_section.cpp`): only
  where a script may be interrupted is represented.
- Resumables, RPC, HTTP and database clients, the network reactor, leases: single-threaded
  schedulers and clients of external protocols; only the events they deliver to job
  workers are represented.
- Of the instance cache: instances beyond the depth limit of a copy, several shards,
  contents, statistics, and the reset of the second buffer, which is the ring's.
- Of confdata: the text of keys and wildcards, the blacklist, sizes in bytes, unsupported
  events, the rotation of binlogs.
- The split of shared memory into message and buffer pools
  (`calc_shared_memory_buffers_distribution`): constants here.
- The compiler, the PHP library, runtime-light, vkext and the TL tools, which are most of
  the repository's lines: sequential translators and pure functions over PHP values, with
  no state that processes share; out of reach of model checking and covered by tests.
