--------------------------- MODULE FreelistProofs ---------------------------
(***************************************************************************)
(* Freelist for any number of nodes and processes: its list stays intact,  *)
(* and it implements MessagePool.                                          *)
(***************************************************************************)
EXTENDS Freelist, TLAPS

USE FreelistAssumption DEF history

\* A node is free, or in one table, or carried by one process, or lost.
OneOwner ==
  \A p \in Proc :
    /\ node[p] # Null => height[node[p]] = 0
    /\ \A n \in held[p] : height[n] = 0
    /\ \A q \in Proc :
         /\ node[p] \notin held[q]
         /\ q # p => /\ held[p] \cap held[q] = {}
                     /\ node[p] # Null => node[p] # node[q]

\* While the top still has the tag that p read, nobody took the node that p read.
AttemptOK ==
  \A p \in Proc :
    /\ pc[p] \in {"got", "put", "set_next", "push"} <=> node[p] # Null
    /\ ~InGet(p) => overtaken[p] = 0
    /\ InGet(p) =>
         /\ old[p].ptr # Null
         /\ overtaken[p] < TagCount =>
              \/ pool.tag = old[p].tag + overtaken[p]
              \/ pool.tag = old[p].tag + overtaken[p] - TagCount
         /\ overtaken[p] = 0 =>
              /\ old[p].ptr \in FreeNodes
              /\ pc[p] = "swap" => new_ptr[p] = next[old[p].ptr]
    /\ pc[p] = "push" => next[node[p]] = old[p].ptr

FreelistInv == TypeOK /\ ListIsIntact /\ (~tag_reused => OneOwner /\ AttemptOK)

\* The tag after a tag, with its wrap at the width of the field (tagged-ptr.h).
LEMMA NextTagValue ==
  ASSUME NEW tag \in Tag
  PROVE  /\ NextTag(tag) \in Tag
         /\ NextTag(tag) = tag + 1 \/ NextTag(tag) = tag + 1 - TagCount
<1>1. CASE tag + 1 < TagCount
  BY <1>1 DEF NextTag, Tag
<1>2. CASE tag + 1 = TagCount
  BY <1>2 DEF NextTag, Tag
<1> QED
  BY <1>1, <1>2 DEF Tag

\* A process that swaps the top of the list read that top, and its link is right.
LEMMA SwapIsFresh ==
  ASSUME FreelistInv, ~tag_reused, NEW p \in Proc, pc[p] = "swap", TopIs(old[p]),
         overtaken[p] # TagCount
  PROVE  /\ overtaken[p] = 0
         /\ pool.ptr = old[p].ptr
         /\ old[p].ptr \in FreeNodes
         /\ new_ptr[p] = next[old[p].ptr]
<1>1. /\ pool = old[p] /\ InGet(p) /\ overtaken[p] \in 0 .. TagCount
      /\ old[p].tag \in Tag
  BY DEF FreelistInv, TypeOK, TaggedPtr, TopIs, InGet
<1>2. overtaken[p] = 0
  BY <1>1 DEF FreelistInv, AttemptOK, Tag
<1> QED
  BY <1>1, <1>2 DEF FreelistInv, AttemptOK

\* The initial list has the invariant.
LEMMA InitInv == Init => FreelistInv
<1> SUFFICES ASSUME Init PROVE FreelistInv
  OBVIOUS
<1>0. tag_reused \in BOOLEAN /\ refused \in [Proc -> BOOLEAN]
  BY ZenonT(60) DEF Init
<1>1. TypeOK
  BY <1>0 DEF Init, TypeOK, Nothing, TaggedPtr, Tag, Ptr, Point
<1>2. ListIsIntact /\ OneOwner /\ AttemptOK
  BY DEF Init, ListIsIntact, FreeNodes, OneOwner, AttemptOK, InGet, Nothing
<1> QED
  BY <1>1, <1>2 DEF FreelistInv

-----------------------------------------------------------------------------
\* Every instruction of freelist_get and freelist_put keeps the types.
LEMMA TypeStep ==
  ASSUME FreelistInv, NEW p \in Proc, Step(p)
  PROVE  TypeOK'
<1> USE DEF TypeOK, Ptr, Point, Goto, EndAttempt
<1>0. /\ TypeOK /\ pool.ptr \in Ptr /\ old[p].tag \in Tag /\ old[p].ptr \in Ptr
      /\ Nothing \in TaggedPtr /\ AttemptOK
  BY DEF FreelistInv, Tag, TaggedPtr, Nothing, Step
<1>1. CASE StartGet(p) \/ Kill(p) \/ Attach(p) \/ Detach(p)
  <2>1. Attach(p) => node[p] \in Node
    BY <1>0 DEF AttemptOK, Attach
  <2> QED
    BY <1>0, <1>1, <2>1 DEF StartGet, Kill, Attach, Detach
<1>2. CASE Write(p)
  BY <1>0, <1>2 DEF Write
<1>3. CASE ReadTop(p) \/ PutReadTop(p)
  <2>1. PICK x \in TaggedPtr : old' = [old EXCEPT ![p] = x]
    BY <1>0, <1>3, pool \in TaggedPtr, (IF pool.ptr = Null THEN Nothing ELSE pool) \in TaggedPtr
    DEF ReadTop, PutReadTop
  <2>2. PICK b \in BOOLEAN : refused' = [refused EXCEPT ![p] = b]
    <3>1. CASE PutReadTop(p)
      BY <1>0, <3>1 DEF PutReadTop
    <3>2. CASE ReadTop(p)
      BY ZenonT(60), <1>0, <3>2 DEF ReadTop
    <3> QED
      BY <1>3, <3>1, <3>2
  <2>3. PICK l \in Point : pc' = [pc EXCEPT ![p] = l]
    BY <1>3 DEF ReadTop, PutReadTop
  <2> QED
    BY <1>0, <1>3, <2>1, <2>2, <2>3 DEF ReadTop, PutReadTop
<1>4. CASE ReadLink(p) \/ SetNext(p)
  <2>1. /\ ReadLink(p) => old[p].ptr \in Node
        /\ SetNext(p) => node[p] \in Node
    BY <1>0 DEF AttemptOK, ReadLink, SetNext, InGet
  <2> QED
    BY <1>0, <1>4, <2>1 DEF ReadLink, SetNext
<1>5. CASE SwapTop(p)
  <2>1. NextTag(old[p].tag) \in Tag
    BY <1>0, NextTagValue
  <2>2. pool' \in TaggedPtr /\ height' \in [Node -> Nat] /\ node' \in [Proc -> Ptr]
    BY ZenonT(60), <1>0, <1>5, <2>1 DEF SwapTop, TaggedPtr
  <2>3. overtaken' \in [Proc -> 0 .. TagCount]
    BY <1>0, <1>5 DEF SwapTop
  <2>4. tag_reused' \in BOOLEAN
    BY ZenonT(60), <1>5 DEF SwapTop
  <2> QED
    BY <1>0, <1>5, <2>2, <2>3, <2>4 DEF SwapTop
<1>6. CASE SwapFails(p) \/ PushFails(p)
  BY <1>0, <1>6 DEF SwapFails, PushFails
<1>7. CASE Push(p)
  <2>1. node[p] \in Node
    BY <1>0, <1>7 DEF AttemptOK, Push
  <2>2. pool.ptr # Null => height[pool.ptr] + 1 \in Nat
    BY <1>0
  <2>3. pool' \in TaggedPtr
    BY SMTT(60), <1>0, <1>7, <2>1 DEF Push, TaggedPtr
  <2> QED
    BY <1>0, <1>7, <2>1, <2>2, <2>3 DEF Push
<1> QED
  BY <1>1, <1>2, <1>3, <1>4, <1>5, <1>6, <1>7 DEF Step, ListStep

\* It keeps the free nodes a chain: what a swap takes off the top is free, and the
\* link read before is still its link, as the tag shows.
LEMMA ListStepIntact ==
  ASSUME FreelistInv, NEW p \in Proc, Step(p)
  PROVE  ListIsIntact'
<1> SUFFICES ASSUME ~tag_reused' PROVE ListIsIntact'
  BY DEF ListIsIntact
<1> USE DEF TypeOK, TaggedPtr, Ptr, ListIsIntact, FreeNodes
<1>0. TypeOK /\ ListIsIntact /\ OneOwner /\ AttemptOK /\ ~tag_reused
  BY DEF FreelistInv, Step
<1>1. CASE UNCHANGED <<pool, next, height>>
  BY <1>0, <1>1
<1>2. CASE Write(p) \/ SetNext(p)
  <2>1. PICK n \in Node, v \in Ptr : next' = [next EXCEPT ![n] = v] /\ height[n] = 0
    BY <1>0, <1>2 DEF Write, SetNext, OneOwner, AttemptOK
  <2>2. UNCHANGED <<pool, height>>
    BY <1>2 DEF Write, SetNext
  <2> QED
    BY <1>0, <2>1, <2>2
<1>3. CASE SwapTop(p)
  <2>1. pool.ptr = old[p].ptr /\ old[p].ptr \in FreeNodes /\ new_ptr[p] = next[old[p].ptr]
    BY <1>0, <1>3, SwapIsFresh DEF SwapTop
  <2>2. /\ pool'.ptr = next[pool.ptr] /\ height' = [height EXCEPT ![pool.ptr] = 0]
        /\ next' = next
    BY <1>3, <2>1 DEF SwapTop
  <2> QED
    BY SMTT(60), <1>0, <2>1, <2>2
<1>4. CASE Push(p)
  <2>1. /\ node[p] \in Node /\ height[node[p]] = 0 /\ next[node[p]] = pool.ptr
        /\ \A n \in FreeNodes : n # node[p]
    BY <1>0, <1>4 DEF Push, OneOwner, AttemptOK, TopIs
  <2>2. /\ pool'.ptr = node[p] /\ next' = next
        /\ height' = [height EXCEPT ![node[p]] = IF pool.ptr = Null THEN 1 ELSE height[pool.ptr] + 1]
    BY <1>4 DEF Push
  <2> QED
    BY <1>0, <2>1, <2>2
<1> QED
  BY <1>1, <1>2, <1>3, <1>4
  DEF Step, ListStep, StartGet, Attach, Detach, Kill, ReadTop, ReadLink, SwapFails,
      PutReadTop, PushFails

\* It leaves every taken node with one process.
LEMMA OneOwnerStep ==
  ASSUME FreelistInv, NEW p \in Proc, Step(p)
  PROVE  ~tag_reused' => OneOwner'
<1> SUFFICES ASSUME ~tag_reused' PROVE OneOwner'
  OBVIOUS
<1> USE DEF TypeOK, Ptr, OneOwner
<1>0. TypeOK /\ OneOwner /\ AttemptOK /\ ~tag_reused
  BY DEF FreelistInv, Step
<1>1. CASE UNCHANGED <<node, held, height>>
  BY <1>0, <1>1
<1>2. CASE Attach(p)
  <2>1. node[p] \in Node
    BY <1>0, <1>2 DEF Attach, AttemptOK
  <2> QED
    BY <1>0, <1>2, <2>1 DEF Attach
<1>3. CASE Detach(p)
  BY <1>0, <1>3 DEF Detach
<1>4. CASE Kill(p)
  BY <1>0, <1>4 DEF Kill
<1>5. CASE SwapTop(p)
  <2>1. old[p].ptr \in Node /\ height[old[p].ptr] > 0
    BY <1>0, <1>5, SwapIsFresh DEF SwapTop, FreeNodes
  <2> QED
    BY <1>0, <1>5, <2>1 DEF SwapTop
<1>6. CASE Push(p)
  <2>1. node[p] \in Node
    BY SMTT(60), <1>0, <1>6 DEF Push, AttemptOK
  <2> QED
    BY <1>0, <1>6, <2>1 DEF Push
<1> QED
  BY <1>1, <1>2, <1>3, <1>4, <1>5, <1>6
  DEF Step, ListStep, StartGet, Write, ReadTop, ReadLink, SwapFails, PutReadTop, SetNext,
      PushFails

\* It keeps what is known of the gets that are under way: as long as its tag is
\* current, an attempt was overtaken by no other get.
LEMMA AttemptStep ==
  ASSUME FreelistInv, NEW p \in Proc, Step(p)
  PROVE  ~tag_reused' => AttemptOK'
<1> SUFFICES ASSUME ~tag_reused' PROVE AttemptOK'
  OBVIOUS
<1> USE DEF TypeOK, TaggedPtr, Ptr, AttemptOK, InGet, Goto, EndAttempt, FreeNodes
<1>0. TypeOK /\ OneOwner /\ AttemptOK /\ ListIsIntact /\ ~tag_reused
  BY DEF FreelistInv, Step
<1>1. CASE StartGet(p) \/ Kill(p) \/ SwapFails(p) \/ PushFails(p) \/ PutReadTop(p)
  BY <1>0, <1>1 DEF StartGet, Kill, SwapFails, PushFails, PutReadTop
<1>2. CASE Attach(p) \/ Detach(p)
  BY SMTT(60), <1>0, <1>2 DEF Attach, Detach
<1>3. CASE Write(p)
  BY <1>0, <1>3 DEF Write, OneOwner
<1>4. CASE ReadTop(p)
  BY <1>0, <1>4 DEF ReadTop, ListIsIntact, Nothing, Tag
<1>5. CASE ReadLink(p)
  BY SMTT(60), <1>0, <1>5 DEF ReadLink
<1>6. CASE SwapTop(p)
  <2>1. /\ pool.tag \in Tag /\ pool = old[p]
        /\ NextTag(pool.tag) = pool.tag + 1 \/ NextTag(pool.tag) = pool.tag + 1 - TagCount
        /\ NextTag(pool.tag) \in Tag
    BY <1>0, <1>6, NextTagValue DEF SwapTop, TopIs
  <2>2. ASSUME NEW q \in Proc, q # p, InGet(q)
        PROVE  /\ old'[q].ptr # Null
               /\ overtaken'[q] # 0
               /\ overtaken'[q] < TagCount =>
                    \/ pool'.tag = old'[q].tag + overtaken'[q]
                    \/ pool'.tag = old'[q].tag + overtaken'[q] - TagCount
    <3>1. /\ old'[q] = old[q]
          /\ overtaken'[q] = IF overtaken[q] < TagCount THEN overtaken[q] + 1 ELSE overtaken[q]
          /\ pool'.tag = NextTag(pool.tag)
      BY <1>0, <1>6, <2>1, <2>2 DEF SwapTop
    <3>2. old[q].tag \in Tag /\ overtaken[q] \in 0 .. TagCount /\ old[q].ptr # Null
      BY <1>0, <2>2
    <3>3. overtaken[q] < TagCount =>
            \/ pool.tag = old[q].tag + overtaken[q]
            \/ pool.tag = old[q].tag + overtaken[q] - TagCount
      BY <1>0, <2>2
    <3> QED
      BY <2>1, <3>1, <3>2, <3>3 DEF Tag
  <2>3. SwapTop(p) => old[p].ptr # Null
    BY <1>0 DEF SwapTop
  <2> QED
    BY SMTT(60), <1>0, <1>6, <2>2, <2>3 DEF SwapTop
<1>7. CASE SetNext(p)
  BY SMTT(60), <1>0, <1>7 DEF SetNext, OneOwner
<1>8. CASE Push(p)
  BY <1>0, <1>8 DEF Push, OneOwner, TopIs
<1> QED
  BY <1>1, <1>2, <1>3, <1>4, <1>5, <1>6, <1>7, <1>8 DEF Step, ListStep

-----------------------------------------------------------------------------
\* FreelistInv holds in every reachable state.
THEOREM FreelistCorrect == Spec => []FreelistInv
<1>1. ASSUME FreelistInv, [Next]_vars PROVE FreelistInv'
  <2>1. CASE UNCHANGED vars
    BY <1>1, <2>1
    DEF vars, locals, FreelistInv, TypeOK, ListIsIntact, FreeNodes, OneOwner, AttemptOK,
        InGet
  <2>2. ASSUME NEW p \in Proc, Step(p) PROVE FreelistInv'
    BY <1>1, <2>2, TypeStep, ListStepIntact, OneOwnerStep, AttemptStep DEF FreelistInv
  <2> QED
    BY SMTT(60), <1>1, <2>1, <2>2 DEF Next, End
<1> QED
  BY <1>1, InitInv, PTL DEF Spec

\* At every step the top of the list, the links and what each process carries between
\* its reads and its compare-and-swap in freelist_get and freelist_put are pointers to
\* nodes or NULL, and the tags stay within their width.
THEOREM FreelistTypeCorrect == Spec => []TypeOK
BY FreelistCorrect, PTL DEF FreelistInv

\* For any number of nodes, processes and tags, and any interleaving of freelist_get and
\* freelist_put with kills at any instruction, the list consists of the nodes that
\* were put and not taken since, until a get swaps with a tag that was reused.
THEOREM ListStaysIntact == Spec => []ListIsIntact
BY FreelistCorrect, PTL DEF FreelistInv

\* It is a step of MessagePool, or none: a get takes and a put gives at its swap.
LEMMA PoolStep ==
  ASSUME FreelistInv, NEW p \in Proc, Step(p)
  PROVE  Pool!Next \/ UNCHANGED Pool!vars \/ tag_reused'
<1> SUFFICES ASSUME ~tag_reused' PROVE Pool!Next \/ UNCHANGED Pool!vars
  OBVIOUS
<1> USE DEF TypeOK, Ptr, Pool!vars, FreeNodes, Owned, OwnedBy, Lost
<1>0. TypeOK /\ OneOwner /\ AttemptOK /\ ListIsIntact /\ ~tag_reused
  BY DEF FreelistInv, Step
<1>1. CASE UNCHANGED <<node, held, height, refused>>
  BY <1>0, <1>1
<1>2. CASE Attach(p) \/ Detach(p)
  <2>1. \A q \in Proc : OwnedBy(q)' = OwnedBy(q)
    BY <1>0, <1>2 DEF Attach, Detach, AttemptOK
  <2> QED
    BY SMTT(60), <1>0, <1>2, <2>1 DEF Attach, Detach
<1>3. CASE ReadTop(p)
  <2>1. CASE pool.ptr = Null
    <3>1. FreeNodes = {}
      BY <1>0, <2>1 DEF ListIsIntact
    <3>2. refused' = [refused EXCEPT ![p] = TRUE]
      BY ZenonT(60), <1>0, <1>3, <2>1 DEF ReadTop
    <3>3. Pool!Refuse(p)
      BY ZenonT(60), <1>3, <3>1, <3>2 DEF ReadTop, Pool!Refuse
    <3> QED
      BY <3>3 DEF Pool!Next
  <2>2. CASE pool.ptr # Null
    <3>1. refused' = refused
      BY <1>0, <1>3, <2>2 DEF ReadTop
    <3> QED
      BY <1>3, <3>1 DEF ReadTop
  <2> QED
    BY <2>1, <2>2
<1>4. CASE SwapTop(p)
  <2> DEFINE n == old[p].ptr
  <2>1. n \in FreeNodes /\ node[p] = Null
    <3>1. pc[p] = "swap" /\ TopIs(old[p]) /\ overtaken[p] # TagCount
      BY ZenonT(60), <1>4 DEF SwapTop
    <3> QED
      BY <1>0, <3>1, SwapIsFresh DEF AttemptOK
  <2>2. FreeNodes' = FreeNodes \ {n}
    BY SMTT(60), <1>0, <1>4, <2>1 DEF SwapTop
  <2>3. \A q \in Proc : OwnedBy(q)' = IF q = p THEN OwnedBy(p) \cup {n} ELSE OwnedBy(q)
    BY <1>0, <1>4, <2>1 DEF SwapTop
  <2>4. Owned' = [Owned EXCEPT ![p] = @ \cup {n}] /\ Lost' = Lost
    <3> HIDE DEF FreeNodes, OwnedBy, n
    <3> QED
      BY ZenonT(60), <2>1, <2>2, <2>3
  <2>5. Pool!Take(p)
    BY ZenonT(60), <1>4, <2>1, <2>2, <2>4 DEF SwapTop, Pool!Take
  <2> QED
    BY SMTT(60), <2>5 DEF Pool!Next
<1>5. CASE Push(p)
  <2> DEFINE n == node[p]
  <2>1. n \in Node /\ n \in Owned[p]
    BY <1>0, <1>5 DEF Push, AttemptOK
  <2>2. FreeNodes' = FreeNodes \cup {n}
    <3> DEFINE k == IF pool.ptr = Null THEN 1 ELSE height[pool.ptr] + 1
    <3>1. k > 0
      BY <1>0 DEF TaggedPtr
    <3>2. height' = [height EXCEPT ![n] = k]
      BY SMTT(60), <1>5 DEF Push
    <3> HIDE DEF k
    <3> QED
      BY <1>0, <2>1, <3>1, <3>2
  <2>3. \A q \in Proc : OwnedBy(q)' = IF q = p THEN OwnedBy(p) \ {n} ELSE OwnedBy(q)
    BY <1>0, <1>5, <2>1 DEF Push, OneOwner
  <2>4. Owned' = [Owned EXCEPT ![p] = @ \ {n}] /\ Lost' = Lost
    <3>1. \A q \in Proc \ {p} : n \notin OwnedBy(q)
      BY <1>0, <2>1, <1>5 DEF OneOwner
    <3> HIDE DEF FreeNodes, OwnedBy, n
    <3> QED
      BY ZenonT(60), <2>1, <2>2, <2>3, <3>1
  <2>5. Pool!Give(p)
    BY ZenonT(60), <1>5, <2>1, <2>2, <2>4 DEF Push, Pool!Give
  <2> QED
    BY <2>5 DEF Pool!Next
<1>6. CASE Kill(p)
  <2>1. CASE node[p] = Null
    BY <1>0, <1>6, <2>1 DEF Kill
  <2>2. CASE node[p] # Null
    <3> DEFINE n == node[p]
    <3>1. n \in Node /\ n \in Owned[p] /\ height[n] = 0
      BY <1>0, <2>2 DEF OneOwner
    <3>2. \A q \in Proc : OwnedBy(q)' = IF q = p THEN OwnedBy(p) \ {n} ELSE OwnedBy(q)
      BY <1>0, <1>6, <3>1 DEF Kill, OneOwner
    <3>3. Owned' = [Owned EXCEPT ![p] = @ \ {n}] /\ Lost' = Lost \cup {n}
      <4>1. \A q \in Proc \ {p} : n \notin OwnedBy(q)
        BY <1>0, <2>2 DEF OneOwner
      <4>2. n \notin FreeNodes /\ FreeNodes' = FreeNodes
        BY <1>6, <3>1 DEF Kill
      <4> HIDE DEF FreeNodes, OwnedBy, n
      <4> QED
        BY ZenonT(60), <3>1, <3>2, <4>1, <4>2
    <3>4. Pool!Lose(p)
      BY ZenonT(60), <1>6, <3>1, <3>3 DEF Kill, Pool!Lose
    <3> QED
      BY <3>4 DEF Pool!Next
  <2> QED
    BY <2>1, <2>2
<1> QED
  BY <1>1, <1>2, <1>3, <1>4, <1>5, <1>6
  DEF Step, ListStep, StartGet, Write, ReadLink, SwapFails, PutReadTop, SetNext, PushFails

\* For any number of nodes and processes, the lock-free list implements a pool that
\* processes take nodes from and give them back to in one step each: no node has two
\* owners, NULL is returned only when the list was empty, and a kill loses at most
\* the node its victim carried.  A get that swaps with a reused tag ends the promise.
THEOREM FreelistImplementsPool == Spec => ImplementsPool
<1>1. Init => Pool!Init
  BY DEF Init, Pool!Init, FreeNodes, Owned, OwnedBy, Lost
<1>2. ASSUME FreelistInv, [Next]_vars PROVE [Pool!Next \/ tag_reused']_(Pool!vars)
  <2>1. CASE UNCHANGED vars
    BY <2>1 DEF vars, locals, Pool!vars, FreeNodes, Owned, OwnedBy, Lost
  <2> QED
    BY <1>2, <2>1, PoolStep DEF Next, End
<1> QED
  BY <1>1, <1>2, FreelistCorrect, PTL DEF Spec, ImplementsPool
=============================================================================
