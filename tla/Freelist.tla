------------------------------ MODULE Freelist ------------------------------
(***************************************************************************)
(* The lock-free list under the pools of the shared memory manager         *)
(* (common/allocators/freelist.cpp, common/smart_ptrs/tagged-ptr.h): a     *)
(* stack whose top is a pointer with a 16-bit tag, changed by compare and  *)
(* swap.  Every read and write of shared memory is a step of its own, and  *)
(* a process may be killed between any two of them.                        *)
(*                                                                         *)
(* The link of a node lies in its first bytes, which its owner overwrites  *)
(* while the node is taken.                                                *)
(***************************************************************************)
EXTENDS Integers

CONSTANTS Node,
          Proc,
          Master,        \* the process that fills the pool
          Null,
          TagCount       \* number of tags: 2^16 in the code

ASSUME FreelistAssumption ==
  /\ Null \notin Node
  /\ Master \in Proc
  /\ TagCount \in Nat \ {0}

VARIABLES pool,      \* the tagged pointer to the top
          next,      \* next[n]: the first bytes of n, read as a pointer
          pc,        \* where a process is
          old,       \* old_pool of its attempt
          new_ptr,   \* new_pool_ptr of its attempt
          node,      \* the node it carries to or from the list
          held,      \* held[p]: the nodes in the table of p
          refused,   \* refused[p]: the last freelist_get of p returned NULL
          overtaken, \* history: overtaken[p] is the number of gets of others since p
                     \* read the top, counted up to TagCount
          tag_reused, \* history: a get has swapped although it was overtaken TagCount times
          height     \* history: height[n] is the place of n in the list, from the bottom,
                     \* and 0 when n is not in the list

locals == <<pc, old, new_ptr, node, held, refused>>
history == <<overtaken, tag_reused, height>>
vars == <<pool, next, locals, history>>

Ptr == Node \cup {Null}
Tag == 0 .. TagCount - 1
TaggedPtr == [ptr : Ptr, tag : Tag]
Point == {"idle", "get", "link", "swap", "got", "put", "set_next", "push"}

\* An attempt of freelist_get, from the read of the top to the swap.
InGet(p) == pc[p] \in {"link", "swap"}

TypeOK ==
  /\ pool \in TaggedPtr
  /\ next \in [Node -> Ptr]
  /\ pc \in [Proc -> Point]
  /\ old \in [Proc -> TaggedPtr]
  /\ new_ptr \in [Proc -> Ptr]
  /\ node \in [Proc -> Ptr]
  /\ held \in [Proc -> SUBSET Node]
  /\ refused \in [Proc -> BOOLEAN]
  /\ overtaken \in [Proc -> 0 .. TagCount]
  /\ tag_reused \in BOOLEAN
  /\ height \in [Node -> Nat]

Nothing == [ptr |-> Null, tag |-> 0]

\* freelist_init; SharedMemoryManager::init goes on to put every node.
Init ==
  /\ pool = Nothing
  /\ next = [n \in Node |-> Null]
  /\ pc = [p \in Proc |-> "idle"]
  /\ old = [p \in Proc |-> Nothing]
  /\ new_ptr = [p \in Proc |-> Null]
  /\ node = [p \in Proc |-> Null]
  /\ held = [p \in Proc |-> IF p = Master THEN Node ELSE {}]
  /\ refused = [p \in Proc |-> FALSE]
  /\ overtaken = [p \in Proc |-> 0]
  /\ tag_reused = FALSE
  /\ height = [n \in Node |-> 0]

Goto(p, to) == pc' = [pc EXCEPT ![p] = to]

\* An attempt is over: its local variables are gone.
EndAttempt(p) ==
  /\ old' = [old EXCEPT ![p] = Nothing]
  /\ new_ptr' = [new_ptr EXCEPT ![p] = Null]

\* Mutant: the comparison forgets the tag.
TopPtrIs(top) == pool.ptr = top.ptr

\* What the compare and swap compares: the pointer and the tag.
TopIs(top) == pool = top

\* Mutants: the tag outgrows its 16 bits; a get keeps the tag.
WideTag(tag) == tag + 1

SameTag(tag) == tag

NextTag(tag) == (tag + 1) % TagCount

-----------------------------------------------------------------------------
(* freelist_get, and the attach to the table of the process.                *)

StartGet(p) ==
  /\ pc[p] = "idle"
  /\ Goto(p, "get")
  /\ UNCHANGED <<pool, next, old, new_ptr, node, held, refused, history>>

ReadTop(p) ==
  /\ pc[p] = "get"
  /\ old' = [old EXCEPT ![p] = IF pool.ptr = Null THEN Nothing ELSE pool]
  /\ refused' = [refused EXCEPT ![p] = @ \/ pool.ptr = Null]
  /\ Goto(p, IF pool.ptr = Null THEN "idle" ELSE "link")
  /\ UNCHANGED <<pool, next, new_ptr, node, held, history>>

\* The node may be taken by now: then its first bytes are anything.
ReadLink(p) ==
  /\ pc[p] = "link"
  /\ new_ptr' = [new_ptr EXCEPT ![p] = next[old[p].ptr]]
  /\ Goto(p, "swap")
  /\ UNCHANGED <<pool, next, old, node, held, refused, history>>

SwapTop(p) ==
  /\ pc[p] = "swap"
  /\ TopIs(old[p])
  /\ pool' = [ptr |-> new_ptr[p], tag |-> NextTag(old[p].tag)]
  /\ overtaken' = [q \in Proc |-> IF q = p THEN 0
                                 ELSE IF InGet(q) /\ overtaken[q] < TagCount
                                   THEN overtaken[q] + 1 ELSE overtaken[q]]
  /\ tag_reused' = (tag_reused \/ overtaken[p] = TagCount)
  /\ node' = [node EXCEPT ![p] = old[p].ptr]
  /\ height' = [height EXCEPT ![old[p].ptr] = 0]
  /\ refused' = [refused EXCEPT ![p] = FALSE]
  /\ Goto(p, "got")
  /\ EndAttempt(p)
  /\ UNCHANGED <<next, held>>

\* Mutant: the top is not read again after a failed swap.
SwapRetries(p) ==
  /\ pc[p] = "swap"
  /\ ~TopIs(old[p])
  /\ UNCHANGED vars

SwapFails(p) ==
  /\ pc[p] = "swap"
  /\ ~TopIs(old[p])
  /\ Goto(p, "get")
  /\ EndAttempt(p)
  /\ overtaken' = [overtaken EXCEPT ![p] = 0]
  /\ UNCHANGED <<pool, next, node, held, refused, tag_reused, height>>

\* acquire_shared_message attaches the message it got.
Attach(p) ==
  /\ pc[p] = "got"
  /\ held' = [held EXCEPT ![p] = @ \cup {node[p]}]
  /\ node' = [node EXCEPT ![p] = Null]
  /\ Goto(p, "idle")
  /\ UNCHANGED <<pool, next, old, new_ptr, refused, history>>

\* The owner of a node writes to it.
Write(p) ==
  /\ \E n \in held[p], value \in Ptr : next' = [next EXCEPT ![n] = value]
  /\ UNCHANGED <<pool, pc, old, new_ptr, node, held, refused, history>>

-----------------------------------------------------------------------------
(* The detach from the table, and freelist_put.                             *)

\* release_shared_message detaches the message before it puts it.
Detach(p) ==
  /\ pc[p] = "idle"
  /\ \E n \in held[p] :
       /\ held' = [held EXCEPT ![p] = @ \ {n}]
       /\ node' = [node EXCEPT ![p] = n]
  /\ Goto(p, "put")
  /\ UNCHANGED <<pool, next, old, new_ptr, refused, history>>

PutReadTop(p) ==
  /\ pc[p] = "put"
  /\ old' = [old EXCEPT ![p] = pool]
  /\ Goto(p, "set_next")
  /\ UNCHANGED <<pool, next, new_ptr, node, held, refused, history>>

SetNext(p) ==
  /\ pc[p] = "set_next"
  /\ next' = [next EXCEPT ![node[p]] = old[p].ptr]
  /\ Goto(p, "push")
  /\ UNCHANGED <<pool, old, new_ptr, node, held, refused, history>>

\* A put leaves the tag as it is.
Push(p) ==
  /\ pc[p] = "push"
  /\ TopIs(old[p])
  /\ pool' = [ptr |-> node[p], tag |-> old[p].tag]
  /\ height' = [height EXCEPT ![node[p]] = IF pool.ptr = Null THEN 1 ELSE height[pool.ptr] + 1]
  /\ node' = [node EXCEPT ![p] = Null]
  /\ Goto(p, "idle")
  /\ EndAttempt(p)
  /\ UNCHANGED <<next, held, refused, overtaken, tag_reused>>

PushFails(p) ==
  /\ pc[p] = "push"
  /\ ~TopIs(old[p])
  /\ Goto(p, "put")
  /\ EndAttempt(p)
  /\ UNCHANGED <<pool, next, node, held, refused, history>>

-----------------------------------------------------------------------------
\* SIGKILL; another process takes the place of p with the same table.  What p
\* carried is in no table any more.
Kill(p) ==
  /\ node' = [node EXCEPT ![p] = Null]
  /\ Goto(p, "idle")
  /\ EndAttempt(p)
  /\ overtaken' = [overtaken EXCEPT ![p] = 0]
  /\ UNCHANGED <<pool, next, held, refused, tag_reused, height>>

\* The steps of the two functions, which a running process takes.
ListStep(p) ==
  \/ ReadTop(p) \/ ReadLink(p) \/ SwapTop(p) \/ SwapFails(p)
  \/ PutReadTop(p) \/ SetNext(p) \/ Push(p) \/ PushFails(p)

\* The specification follows the processes to the first reuse of a tag, and ends there:
\* with 2^16 tags and a corrupted list nothing more is claimed.
Step(p) ==
  /\ ~tag_reused
  /\ StartGet(p) \/ Attach(p) \/ Write(p) \/ Detach(p) \/ Kill(p) \/ ListStep(p)

End == tag_reused /\ UNCHANGED vars

Next == End \/ \E p \in Proc : Step(p)

Spec == Init /\ [][Next]_vars

\* The kernel runs every process that is inside the two functions.
FairSpec == Spec /\ \A p \in Proc : WF_vars(~tag_reused /\ ListStep(p))

-----------------------------------------------------------------------------
(* Properties.                                                              *)

FreeNodes == {n \in Node : height[n] > 0}

\* What p owns in the eyes of the pool: its table, and the node it carries.
OwnedBy(p) == held[p] \cup ({node[p]} \ {Null})

\* The links of the list: from the top along next one meets exactly the nodes that
\* were put and not taken since, each of them once, and then NULL, however the
\* compare and swaps of get and put interleave and whatever owners write.  It holds
\* until a get is overtaken by as many gets as there are tags and swaps all the same.
ListIsIntact ==
  ~tag_reused =>
  /\ \/ pool.ptr \in FreeNodes
     \/ pool.ptr = Null /\ FreeNodes = {}
  /\ \A n \in FreeNodes :
       /\ height[n] <= height[pool.ptr]
       /\ \/ height[n] = 1 /\ next[n] = Null
          \/ next[n] \in FreeNodes /\ height[next[n]] = height[n] - 1
       /\ \A m \in FreeNodes : height[m] = height[n] => m = n

Owned == [p \in Proc |-> OwnedBy(p)]

Lost == {n \in Node : n \notin FreeNodes /\ \A p \in Proc : n \notin OwnedBy(p)}

Pool == INSTANCE MessagePool WITH free <- FreeNodes, owned <- Owned, lost <- Lost

\* The list is a set that processes take nodes from and give them back to, in one
\* step each: nobody gets a node that another process owns, freelist_get returns NULL
\* only if the list was empty, and a node is lost only by a kill of its carrier.  It
\* holds as long as the tag of a get is not reused.
ImplementsPool == Pool!Init /\ [][Pool!Next \/ tag_reused']_(Pool!vars)

\* p is in the loop of freelist_get or of freelist_put.
Retries(p) == pc[p] \in {"get", "link", "swap", "put", "set_next", "push"}

\* A failed swap means that somebody else succeeded: a process stays in the loop of
\* freelist_get or freelist_put only while others swap the top again and again.
\* Nobody waits for a process that was killed in the middle or is not running.
OnlyProgressDelays ==
  \A p \in Proc :
    <>[](Retries(p) /\ ~tag_reused) => []<><<\E q \in Proc \ {p} : SwapTop(q) \/ Push(q)>>_vars
=============================================================================
