---------------------------- MODULE MessagePool ----------------------------
(***************************************************************************)
(* What the pools of the shared memory manager promise: a pool is a set.   *)
(* A process takes some free node or is told that there is none, and gives *)
(* back what it owns.  SharedMemoryManager uses its pools in this way;     *)
(* Freelist implements it with a lock-free list.                           *)
(***************************************************************************)
CONSTANTS Node,     \* the nodes of the pool
          Proc,     \* the processes that share it
          Master    \* the process that fills it

VARIABLES free,     \* the free nodes
          owned,    \* owned[p]: the nodes that p took and has not given back
          lost,     \* the nodes of processes that died while they moved them
          refused   \* refused[p]: the last request of p found no free node

vars == <<free, owned, lost, refused>>

Init ==
  /\ free = {}
  /\ owned = [p \in Proc |-> IF p = Master THEN Node ELSE {}]
  /\ lost = {}
  /\ refused = [p \in Proc |-> FALSE]

Take(p) ==
  \E n \in free :
    /\ free' = free \ {n}
    /\ owned' = [owned EXCEPT ![p] = @ \cup {n}]
    /\ refused' = [refused EXCEPT ![p] = FALSE]
    /\ UNCHANGED lost

\* A request is refused only at a moment when nothing is free.
Refuse(p) ==
  /\ free = {}
  /\ refused' = [refused EXCEPT ![p] = TRUE]
  /\ UNCHANGED <<free, owned, lost>>

Give(p) ==
  \E n \in owned[p] :
    /\ free' = free \cup {n}
    /\ owned' = [owned EXCEPT ![p] = @ \ {n}]
    /\ UNCHANGED <<lost, refused>>

\* A process is killed while it carries a node.
Lose(p) ==
  \E n \in owned[p] :
    /\ owned' = [owned EXCEPT ![p] = @ \ {n}]
    /\ lost' = lost \cup {n}
    /\ UNCHANGED <<free, refused>>

Next == \E p \in Proc : Take(p) \/ Refuse(p) \/ Give(p) \/ Lose(p)

Spec == Init /\ [][Next]_vars
=============================================================================
