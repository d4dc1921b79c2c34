--------------------------- MODULE OwnershipLemmas --------------------------
(***************************************************************************)
(* Lemmas about the parts of OwnershipInv: the tables of messages, the     *)
(* owners counters, the pipes, and what a process knows of the messages it *)
(* holds; then the kinds of steps that change who owns a message, and what *)
(* each does to OwnershipInv.                                              *)
(***************************************************************************)
EXTENDS Ownership, TLAPS

USE ZenonT(20), SMTT(60)

-----------------------------------------------------------------------------
(* Tables.                                                                  *)

\* An attach adds a message to one table and keeps the order of the others.
LEMMA AttachTable ==
  ASSUME ShmTypeOK, TablesOK, NEW p \in Proc, NEW m \in Msg, m \notin TableOf(p), attach(p, m)
  PROVE  /\ TablesOK'
         /\ TableOf(p)' = TableOf(p) \cup {m}
         /\ \A x, y \in Msg : Before(p, x, y) => Before(p, x, y)'
         /\ \A q \in Proc \ {p} : attached'[q] = attached[q]
<1>1. PICK i \in Slot : /\ FirstAt(p, NoMsg, i)
                        /\ attached' = [attached EXCEPT ![p] = [@ EXCEPT ![i] = m]]
  BY DEF attach, replace
<1>2. attached[p][i] = NoMsg /\ NoMsg \notin Msg
  BY <1>1, ShmAssumption DEF FirstAt
<1>3. /\ \A k \in Slot : attached'[p][k] = IF k = i THEN m ELSE attached[p][k]
      /\ \A q \in Proc \ {p} : attached'[q] = attached[q]
  BY <1>1 DEF ShmTypeOK
<1>4. TablesOK'
  BY SMTT(60), <1>2, <1>3 DEF TablesOK, TableOf
<1>5. TableOf(p)' = TableOf(p) \cup {m}
  BY ZenonT(60), <1>2, <1>3 DEF TableOf
<1>6. \A x, y \in Msg : Before(p, x, y) => Before(p, x, y)'
  BY <1>2, <1>3 DEF Before
<1> QED
  BY <1>3, <1>4, <1>5, <1>6

\* A detach takes it out of one table and keeps the order of the others.
LEMMA DetachTable ==
  ASSUME ShmTypeOK, TablesOK, NEW p \in Proc, NEW m \in Msg, detach(p, m)
  PROVE  /\ TablesOK'
         /\ m \in TableOf(p)
         /\ TableOf(p)' = TableOf(p) \ {m}
         /\ \A x, y \in Msg \ {m} : Before(p, x, y) => Before(p, x, y)'
         /\ \A q \in Proc \ {p} : attached'[q] = attached[q]
<1>1. PICK i \in Slot : /\ FirstAt(p, m, i)
                        /\ attached' = [attached EXCEPT ![p] = [@ EXCEPT ![i] = NoMsg]]
  BY DEF detach, replace
<1>2. attached[p][i] = m /\ NoMsg \notin Msg
  BY <1>1, ShmAssumption DEF FirstAt
<1>3. /\ \A k \in Slot : attached'[p][k] = IF k = i THEN NoMsg ELSE attached[p][k]
      /\ \A q \in Proc \ {p} : attached'[q] = attached[q]
  BY <1>1 DEF ShmTypeOK
<1>4. TablesOK'
  BY SMTT(60), <1>2, <1>3 DEF TablesOK
<1>5. m \in TableOf(p) /\ TableOf(p)' = TableOf(p) \ {m}
  BY SMTT(60), <1>2, <1>3 DEF TableOf, TablesOK
<1>6. \A x, y \in Msg \ {m} : Before(p, x, y) => Before(p, x, y)'
  BY SMTT(60), <1>2, <1>3 DEF Before
<1> QED
  BY <1>3, <1>4, <1>5, <1>6

\* A release takes out the message, and its piece if it was the last job of it.
LEMMA ReleaseTable ==
  ASSUME ShmTypeOK, TablesOK, NEW p \in Proc, NEW m \in Msg, release_shared_message(p, m)
  PROVE  /\ TablesOK'
         /\ TableOf(p)' = TableOf(p) \ Dropped(m)
         /\ \A x, y \in Msg \ Dropped(m) : Before(p, x, y) => Before(p, x, y)'
         /\ \A q \in Proc \ {p} : attached'[q] = attached[q]
<1> DEFINE D == Dropped(m)
<1>1. D \subseteq Msg /\ NoMsg \notin Msg
  BY ShmAssumption DEF Dropped, ShmTypeOK
<1>2. attached' = [attached EXCEPT ![p] =
        [i \in Slot |-> IF \E x \in D : FirstAt(p, x, i) THEN NoMsg ELSE attached[p][i]]]
  BY DEF release_shared_message
<1> HIDE DEF D
<1>3. \A i \in Slot : (\E x \in D : FirstAt(p, x, i)) <=> attached[p][i] \in D
  <2> SUFFICES ASSUME NEW i \in Slot, attached[p][i] \in D PROVE FirstAt(p, attached[p][i], i)
    BY DEF FirstAt
  <2> QED
    BY SMTT(60), <1>1 DEF FirstAt, TablesOK, Slot
<1>4. /\ \A k \in Slot : attached'[p][k] = IF attached[p][k] \in D THEN NoMsg ELSE attached[p][k]
      /\ \A q \in Proc \ {p} : attached'[q] = attached[q]
  BY <1>2, <1>3 DEF ShmTypeOK
<1>5. TablesOK'
  BY SMTT(60), <1>4 DEF TablesOK
<1>6. TableOf(p)' = TableOf(p) \ D
  BY <1>1, <1>4 DEF TableOf
<1>7. \A x, y \in Msg \ D : Before(p, x, y) => Before(p, x, y)'
  BY <1>1, <1>4 DEF Before
<1> QED
  BY <1>4, <1>5, <1>6, <1>7 DEF D

-----------------------------------------------------------------------------
(* Counts.                                                                  *)

\* A set of messages without one of them counts one less.
LEMMA RemoveOne ==
  ASSUME MsgCounting, NEW S \in SUBSET Msg, NEW m \in S
  PROVE  Cardinality(S \ {m}) = Cardinality(S) - 1
<1>1. PICK T : T = S \ {m}
  OBVIOUS
<1>2. T \in SUBSET Msg /\ m \in Msg \ T /\ T \cup {m} = S
  BY <1>1
<1>3. Cardinality(T \cup {m}) = Cardinality(T) + 1 /\ Cardinality(T) \in Nat
  BY <1>2 DEF MsgCounting
<1> QED
  BY SMTT(60), <1>1, <1>2, <1>3

\* The jobs bound to a piece can be counted.
LEMMA BoundCount ==
  ASSUME MsgCounting, NEW x
  PROVE  /\ JobsBoundTo(x) \in SUBSET Msg
         /\ Cardinality(JobsBoundTo(x)) \in Nat
         /\ Cardinality(JobsBoundTo(x)) = 0 <=> JobsBoundTo(x) = {}
<1>1. JobsBoundTo(x) \in SUBSET Msg
  BY DEF JobsBoundTo
<1> QED
  BY <1>1 DEF MsgCounting

\* What the counter tells about one message.
LEMMA CountUse ==
  ASSUME MsgCounting, ShmTypeOK, CountOK, NEW x \in Msg
  PROVE  /\ owners_counter[x] \in Nat
         /\ Owned(x) \/ InPipe(x) \/ JobsBoundTo(x) # {} => x \notin free_messages
         /\ x \notin free_messages => owners_counter[x] >= 1
         /\ x \in free_messages => JobsBoundTo(x) = {} /\ ~Owned(x) /\ ~InPipe(x)
         /\ (Owned(x) \/ InPipe(x)) => (owners_counter[x] = 1 <=> JobsBoundTo(x) = {})
<1>1. /\ owners_counter[x] =
           Cardinality(JobsBoundTo(x)) + (IF Owned(x) \/ InPipe(x) THEN 1 ELSE 0)
      /\ x \in free_messages <=> owners_counter[x] = 0
  BY DEF CountOK
<1>2. /\ Cardinality(JobsBoundTo(x)) \in Nat
      /\ Cardinality(JobsBoundTo(x)) = 0 <=> JobsBoundTo(x) = {}
  BY BoundCount
<1>3. owners_counter[x] \in Nat
  BY SMTT(60), <1>1, <1>2
<1> QED
  BY SMTT(60), <1>1, <1>2, <1>3

\* The same of the next state, as far as it is needed there.
LEMMA CountUseNext ==
  ASSUME MsgCounting, CountOK', NEW x \in Msg
  PROVE  Owned(x)' \/ InPipe(x)' \/ JobsBoundTo(x)' # {} => x \notin free_messages'
<1>1. /\ owners_counter'[x] =
           Cardinality(JobsBoundTo(x)') + (IF Owned(x)' \/ InPipe(x)' THEN 1 ELSE 0)
      /\ x \in free_messages' <=> owners_counter'[x] = 0
  BY DEF CountOK
<1>2. JobsBoundTo(x)' \in SUBSET Msg
  BY DEF JobsBoundTo
<1>3. /\ Cardinality(JobsBoundTo(x)') \in Nat
      /\ Cardinality(JobsBoundTo(x)') = 0 <=> JobsBoundTo(x)' = {}
  BY <1>2 DEF MsgCounting
<1> QED
  BY SMTT(60), <1>1, <1>3

\* What a process holds is in use if the jobs with a piece that it holds are its own.
LEMMA HeldInUse ==
  ASSUME MsgCounting, ShmTypeOK', CountOK', NEW q \in Proc,
         \A j \in Held(q)' : common_job'[j] # NoMsg => OwnsByTable(q, j)'
  PROVE  \A m \in Held(q)' : m \notin free_messages'
<1>1. \A m \in Held(q)' : m \in Msg
  BY SMTT(60) DEF Held, TableOf, ShmTypeOK
<1>2. \A m \in Held(q)' : OwnsByTable(q, m)' => m \notin free_messages'
  BY <1>1, CountUseNext DEF Owned
<1>3. \A j \in Held(q)' : common_job'[j] # NoMsg => j \in JobsBoundTo(common_job[j])'
  BY <1>1, <1>2 DEF JobsBoundTo
<1>4. ASSUME NEW m \in Held(q)', ~OwnsByTable(q, m)'
      PROVE  m \notin free_messages'
  <2>1. PICK j \in Held(q)' : common_job'[j] = m
    BY <1>4 DEF OwnsByTable
  <2>2. j \in JobsBoundTo(m)'
    BY <1>1, <1>3, <2>1, ShmAssumption
  <2> QED
    BY <1>1, <2>2, CountUseNext
<1> QED
  BY <1>2, <1>4

-----------------------------------------------------------------------------
(* What a step of p leaves alone.                                           *)

PipesSame == UNCHANGED <<job_pipe, result_pipe>>

\* p stays outside the points at which its table is not yet up to date.
Settled(p) == pc[p] \notin {"sent", "replied"} /\ pc'[p] \notin {"sent", "replied"}

\* A process holds messages.
LEMMA HeldType == ShmTypeOK => \A q \in Proc : Held(q) \subseteq Msg
  BY SMTT(60) DEF Held, TableOf, ShmTypeOK

\* What a step of p leaves alone is what the others hold.
LEMMA HeldOther ==
  ASSUME NEW p \in Proc, Others(p), NEW q \in Proc \ {p}
  PROVE  Held(q)' = Held(q) /\ TableOf(q)' = TableOf(q)
         /\ \A x, y : Before(q, x, y)' <=> Before(q, x, y)
  BY SMTT(60) DEF Others, Held, TableOf, HandedOver, Before

\* What q knows stays true while its messages stay bound as they are and no job
\* is bound to its own ones.
LEMMA LocalOther ==
  ASSUME NEW p \in Proc, Others(p), NEW q \in Proc \ {p}, LocalOK(q),
         \A x \in Held(q) : common_job'[x] = common_job[x],
         \A x \in Held(q) : JobsBoundTo(x) = {} => JobsBoundTo(x)' = {}
  PROVE  LocalOK(q)'
<1>1. /\ Held(q)' = Held(q)
      /\ \A x, y : Before(q, x, y)' <=> Before(q, x, y)
      /\ attached'[q] = attached[q] /\ pc'[q] = pc[q] /\ msg'[q] = msg[q]
      /\ com'[q] = com[q] /\ running_job'[q] = running_job[q]
  BY HeldOther DEF Others
<1>2. PiecesOK(q)'
  BY SMTT(60), <1>1 DEF LocalOK, PiecesOK, At
<1>3. ComOK(q)'
  BY <1>1 DEF LocalOK, ComOK
<1>4. MsgOK(q)'
  BY <1>1 DEF LocalOK, MsgOK, At
<1>5. JobOK(q)'
  BY <1>1 DEF LocalOK, JobOK
<1>6. TakenOK(q)'
  BY <1>1 DEF LocalOK, TakenOK, JobOK, At
<1> QED
  BY <1>2, <1>3, <1>4, <1>5, <1>6 DEF LocalOK

\* Outside of a handover a process holds what is in its table.
LEMMA HeldSettled ==
  ASSUME NEW p \in Proc, Settled(p)
  PROVE  Held(p) = TableOf(p) /\ Held(p)' = TableOf(p)'
  BY DEF Settled, Held, HandedOver

\* Pipes that do not change have the same messages.
LEMMA PipeSame ==
  ASSUME PipesSame
  PROVE  \A m : /\ InPipe(m)' <=> InPipe(m)
                /\ JobQueued(m)' <=> JobQueued(m)
                /\ \A q \in Proc : ResultQueued(q, m)' <=> ResultQueued(q, m)
  BY DEF PipesSame, InPipe, JobQueued, ResultQueued

\* The shared part of the invariant rests on these state functions only.
LEMMA SharedSame ==
  ASSUME ShmTypeOK, SharedInv, TablesOK', PipesOK',
         UNCHANGED <<free_messages, owners_counter, common_job>>,
         \A m \in Msg : InPipe(m)' <=> InPipe(m),
         \A q \in Proc : Held(q)' = Held(q),
         \A q \in Proc, m \in Msg : OwnsByTable(q, m)' <=> OwnsByTable(q, m)
  PROVE  SharedInv'
<1>1. \A m : JobsBoundTo(m)' = JobsBoundTo(m)
  BY DEF JobsBoundTo
<1>2. \A m \in Msg : Owned(m)' <=> Owned(m)
  BY DEF Owned
<1>3. HeldOK'
  <2>1. \A q \in Proc : Held(q) \subseteq Msg
    BY HeldType
  <2> QED
    BY <2>1 DEF SharedInv, HeldOK
<1>4. BoundOK'
  BY DEF SharedInv, BoundOK, ShmTypeOK
<1>5. CountOK'
  BY <1>1, <1>2 DEF SharedInv, CountOK
<1> QED
  BY <1>3, <1>4, <1>5 DEF SharedInv

\* A job that somebody holds and that has a common piece has one owner: nothing
\* is bound to it.
LEMMA BoundJobOwnedOnce ==
  ASSUME MsgCounting, ShmTypeOK, SharedInv, NEW p \in Proc, NEW m \in Held(p), common_job[m] # NoMsg
  PROVE  OwnsByTable(p, m) /\ JobsBoundTo(m) = {} /\ owners_counter[m] = 1
<1>1. m \in Msg /\ m \notin free_messages
  BY HeldType DEF SharedInv, HeldOK
<1>2. JobsBoundTo(m) = {}
  BY <1>1, ShmAssumption DEF SharedInv, BoundOK, JobsBoundTo
<1>3. OwnsByTable(p, m)
  <2>1. \A j \in Held(p) : j \in Msg \ free_messages
    BY HeldType DEF SharedInv, HeldOK
  <2> QED
    BY <1>1, <1>2, <2>1 DEF OwnsByTable, JobsBoundTo
<1>4. Owned(m)
  BY <1>3 DEF Owned
<1> QED
  BY <1>1, <1>2, <1>3, <1>4, CountUse DEF SharedInv

\* A message that p holds and that is nobody's piece is p's own, and only p holds it.
LEMMA HeldUnbound ==
  ASSUME MsgCounting, ShmTypeOK, SharedInv, NEW p \in Proc, NEW m \in Held(p), JobsBoundTo(m) = {}
  PROVE  /\ m \in Msg
         /\ OwnsByTable(p, m)
         /\ owners_counter[m] = 1
         /\ \A q \in Proc \ {p} : m \notin Held(q)
<1>1. \A q \in Proc : \A j \in Held(q) : j \in Msg \ free_messages
  BY HeldType DEF SharedInv, HeldOK
<1>2. \A q \in Proc : m \in Held(q) => OwnsByTable(q, m)
  BY <1>1 DEF OwnsByTable, JobsBoundTo
<1>3. Owned(m)
  BY <1>2 DEF Owned
<1>4. \A q \in Proc \ {p} : m \notin Held(q)
  BY <1>1, <1>2 DEF SharedInv, HeldOK
<1> QED
  BY <1>1, <1>2, <1>3, <1>4, CountUse DEF SharedInv

-----------------------------------------------------------------------------
(* What the process that takes the step knows after it.                     *)

\* The jobs p still holds keep their pieces.
LEMMA PiecesKept ==
  ASSUME NEW p \in Proc, PiecesOK(p), pc[p] \notin {"parse", "write"},
         \A j \in Held(p)' : common_job'[j] # NoMsg =>
           /\ j \in Held(p)
           /\ common_job'[j] = common_job[j]
           /\ com'[p] = com[p] \/ com'[p] # common_job[j]
           /\ common_job[j] \in Held(p) => common_job[j] \in Held(p)'
           /\ Before(p, j, common_job[j]) => Before(p, j, common_job[j])'
  PROVE  PiecesOK(p)'
<1>1. ASSUME NEW j \in Held(p)', common_job'[j] # NoMsg
      PROVE  /\ com'[p] # common_job'[j]
             /\ common_job'[j] \in Held(p)'
             /\ Before(p, j, common_job[j])'
  BY <1>1 DEF PiecesOK, At
<1>2. \A j, k \in Held(p)' : common_job'[j] = common_job'[k] /\ common_job'[j] # NoMsg => j = k
  BY DEF PiecesOK
<1> QED
  BY <1>1, <1>2 DEF PiecesOK

\* After a step in which p's messages stay what they are.
LEMMA QuietLocal ==
  ASSUME NEW p \in Proc, LocalOK(p), pc[p] \notin {"write", "parse"},
         UNCHANGED <<common_job, attached>>, Held(p)' = Held(p),
         \A m \in Held(p) : JobsBoundTo(m) = {} => JobsBoundTo(m)' = {},
         com'[p] \in {com[p], NoMsg}, msg'[p] \in {msg[p], NoMsg},
         pc'[p] \in {"request", "bind", "write", "response", "reply"} =>
           /\ pc[p] \in {"request", "bind", "write", "response", "reply"}
           /\ msg'[p] = msg[p] /\ com'[p] = com[p]
           /\ pc'[p] = "write" => com[p] = NoMsg,
         pc'[p] \in {"parse", "ready"} \cup ScriptPoint /\ running_job'[p] # NoMsg =>
           /\ pc[p] \in {"parse", "ready"} \cup ScriptPoint
           /\ running_job'[p] = running_job[p],
         pc'[p] # "parse",
         pc'[p] = "idle" => pc[p] = "idle" \/ \A i \in Slot : attached[p][i] = NoMsg
  PROVE  LocalOK(p)'
<1>1. PiecesOK(p)'
  <2>1. \A x, y : Before(p, x, y)' <=> Before(p, x, y)
    BY DEF Before
  <2> QED
    BY <2>1, PiecesKept DEF LocalOK
<1>2. ComOK(p)'
  BY DEF LocalOK, ComOK
<1>3. MsgOK(p)'
  BY DEF LocalOK, MsgOK, At
<1>4. JobOK(p)'
  BY DEF LocalOK, JobOK
<1>5. TakenOK(p)'
  BY DEF LocalOK, TakenOK, At
<1> QED
  BY <1>1, <1>2, <1>3, <1>4, <1>5 DEF LocalOK

\* After a release: p is at no point at which it works on a message.
LEMMA ReleaseLocal ==
  ASSUME ShmTypeOK, SharedInv, NEW p \in Proc, LocalOK(p), pc[p] \notin {"write", "parse"},
         NEW m \in Msg, OwnsByTable(p, m), common_job' = common_job,
         NEW D, D = {m, common_job[m]} \ {NoMsg}, Held(p)' = Held(p) \ D,
         \A x : JobsBoundTo(x)' \subseteq JobsBoundTo(x),
         \A x, y \in Msg \ D : Before(p, x, y) => Before(p, x, y)',
         (com'[p] = com[p] /\ com[p] # m) \/ com'[p] = NoMsg, msg'[p] \in {msg[p], NoMsg},
         pc'[p] \notin {"request", "bind", "write", "response", "reply", "parse", "idle"},
         pc'[p] \in {"parse", "ready"} \cup ScriptPoint /\ running_job'[p] # NoMsg =>
           /\ pc[p] \in {"parse", "ready"} \cup ScriptPoint
           /\ running_job'[p] = running_job[p]
           /\ running_job[p] # m
  PROVE  LocalOK(p)'
<1>1. /\ m \in Held(p) /\ \A x \in Held(p) : x \in Msg \ free_messages
      /\ com[p] = m \/ \A j \in Held(p) : common_job[j] # m
      /\ NoMsg \notin Msg
  BY HeldType, ShmAssumption DEF OwnsByTable, SharedInv, HeldOK
<1>2. \A j \in Held(p) : common_job[j] # NoMsg => com[p] # common_job[j] /\ common_job[j] \in Held(p)
  BY DEF LocalOK, PiecesOK, At
<1>3. \A j \in Held(p) \ D : common_job[j] # NoMsg => common_job[j] \notin D
  BY <1>1, <1>2 DEF LocalOK, PiecesOK
<1>4. PiecesOK(p)'
  <2>1. ASSUME NEW j \in Held(p)', common_job'[j] # NoMsg
        PROVE  /\ j \in Held(p)
               /\ common_job'[j] = common_job[j]
               /\ com'[p] = com[p] \/ com'[p] # common_job[j]
               /\ common_job[j] \in Held(p) => common_job[j] \in Held(p)'
               /\ j \in Msg \ D /\ common_job[j] \in Msg \ D
    BY <1>1, <1>2, <1>3, <2>1
  <2>2. \A j \in Held(p)' : common_job'[j] # NoMsg =>
          (Before(p, j, common_job[j]) => Before(p, j, common_job[j])')
    BY <2>1
  <2> QED
    BY <2>1, <2>2, PiecesKept DEF LocalOK
<1>5. ComOK(p)'
  <2>1. com'[p] # NoMsg => com'[p] \notin D
    BY <1>1, <1>2
  <2> QED
    BY <2>1 DEF LocalOK, ComOK
<1>6. MsgOK(p)' /\ TakenOK(p)'
  BY DEF MsgOK, TakenOK, At
<1>7. JobOK(p)'
  <2> SUFFICES ASSUME pc'[p] \in {"parse", "ready"} \cup ScriptPoint, running_job'[p] # NoMsg
               PROVE  /\ running_job'[p] \in Held(p)'
                      /\ running_job'[p] # com'[p]
                      /\ running_job'[p] # msg'[p]
                      /\ JobsBoundTo(running_job[p])' = {}
    BY DEF JobOK
  <2>1. /\ running_job'[p] = running_job[p] /\ running_job[p] # m
        /\ running_job[p] \in Held(p)
        /\ running_job[p] # com[p] /\ running_job[p] # msg[p]
        /\ JobsBoundTo(running_job[p]) = {}
    BY DEF LocalOK, JobOK
  <2>2. running_job[p] # common_job[m]
    BY <1>1, <2>1 DEF JobsBoundTo
  <2>3. JobsBoundTo(running_job[p])' = {}
    BY <2>1
  <2> QED
    BY <2>1, <2>2, <2>3
<1> QED
  BY <1>4, <1>5, <1>6, <1>7 DEF LocalOK

\* After p has taken the free message m.
LEMMA AcquireLocal ==
  ASSUME ShmTypeOK, NEW p \in Proc, LocalOK(p), pc[p] \notin {"write", "parse"},
         NEW m \in Msg, Held(p)' = Held(p) \cup {m}, m \notin Held(p), common_job'[m] = NoMsg,
         \A x \in Msg \ {m} : common_job'[x] = common_job[x],
         \A x \in Msg : JobsBoundTo(x)' = JobsBoundTo(x), JobsBoundTo(m)' = {},
         \A j \in Held(p) : common_job[j] # m,
         \A x, y \in Msg : Before(p, x, y) => Before(p, x, y)',
         \/ com'[p] = m /\ com[p] = NoMsg /\ pc'[p] = "common" /\ msg'[p] = NoMsg
         \/ com'[p] = com[p] /\ pc'[p] \in {"request", "response", "reply"} /\ msg'[p] = m,
         pc[p] \in ScriptPoint, running_job'[p] = running_job[p]
  PROVE  LocalOK(p)'
<1>1. NoMsg \notin Msg /\ Held(p) \subseteq Msg
  BY HeldType, ShmAssumption
<1>2. com[p] # m
  BY <1>1 DEF LocalOK, ComOK
<1>3. PiecesOK(p)'
  <2>1. ASSUME NEW j \in Held(p)', common_job'[j] # NoMsg
        PROVE  /\ j \in Held(p)
               /\ common_job'[j] = common_job[j]
               /\ com'[p] = com[p] \/ com'[p] # common_job[j]
               /\ common_job[j] \in Held(p) => common_job[j] \in Held(p)'
               /\ j \in Msg /\ common_job[j] \in Msg
    BY <1>1, <2>1 DEF ShmTypeOK
  <2>2. \A j \in Held(p)' : common_job'[j] # NoMsg =>
          (Before(p, j, common_job[j]) => Before(p, j, common_job[j])')
    BY <2>1
  <2> QED
    BY <2>1, <2>2, PiecesKept DEF LocalOK
<1>4. ComOK(p)'
  BY <1>1, <1>2 DEF LocalOK, ComOK
<1>5. MsgOK(p)'
  <2>1. msg'[p] = m => JobsBoundTo(msg[p])' = {}
    OBVIOUS
  <2> QED
    BY <1>1, <1>2, <2>1 DEF MsgOK, At
<1>6. JobOK(p)'
  <2>1. running_job[p] # NoMsg =>
          /\ running_job[p] \in Held(p) /\ running_job[p] # com[p]
          /\ JobsBoundTo(running_job[p]) = {}
    BY DEF LocalOK, JobOK
  <2>2. running_job[p] # NoMsg => JobsBoundTo(running_job[p])' = {}
    BY <1>1, <2>1
  <2> QED
    BY <1>1, <2>1, <2>2 DEF JobOK
<1>7. TakenOK(p)'
  BY DEF TakenOK, At
<1> QED
  BY <1>3, <1>4, <1>5, <1>6, <1>7 DEF LocalOK

\* p loses the message m it works on; its other messages stay what they are.
LEMMA LoseLocal ==
  ASSUME ShmTypeOK, SharedInv, NEW p \in Proc, LocalOK(p), pc[p] \in {"write", "reply"},
         NEW m \in Held(p), m = msg[p], Held(p)' = Held(p) \ {m},
         \A x \in Msg \ {m} : common_job'[x] = common_job[x],
         \A x \in Msg : JobsBoundTo(x)' \subseteq JobsBoundTo(x),
         \A x, y \in Msg \ {m} : Before(p, x, y) => Before(p, x, y)',
         com'[p] = com[p], msg'[p] = msg[p], running_job'[p] = running_job[p],
         pc'[p] \in {"sent", "replied", "warn"}
  PROVE  LocalOK(p)'
<1>1. /\ m # com[p] /\ JobsBoundTo(m) = {} /\ NoMsg \notin Msg
      /\ \A x \in Held(p) : x \in Msg \ free_messages
  BY HeldType, ShmAssumption DEF LocalOK, MsgOK, SharedInv, HeldOK
<1>2. \A j \in Held(p) \ {m} : common_job[j] # NoMsg =>
        /\ com[p] # common_job[j]
        /\ common_job[j] \in Held(p)
        /\ Before(p, j, common_job[j])
        /\ common_job[j] # m
  BY <1>1 DEF LocalOK, PiecesOK, At, JobsBoundTo
<1>3. PiecesOK(p)'
  <2>1. ASSUME NEW j \in Held(p)', common_job'[j] # NoMsg
        PROVE  /\ j \in Held(p) \ {m}
               /\ common_job'[j] = common_job[j]
               /\ com'[p] # common_job'[j]
               /\ common_job'[j] \in Held(p)'
               /\ common_job[j] \in Msg \ {m}
    BY <1>1, <1>2, <2>1
  <2>2. \A j \in Held(p)' : common_job'[j] # NoMsg => Before(p, j, common_job[j])'
    BY <1>1, <1>2, <2>1
  <2>3. \A j, k \in Held(p)' : common_job'[j] = common_job'[k] /\ common_job'[j] # NoMsg => j = k
    BY ZenonT(60), <2>1 DEF LocalOK, PiecesOK
  <2> QED
    BY <2>1, <2>2, <2>3 DEF PiecesOK
<1>4. ComOK(p)'
  BY <1>1 DEF LocalOK, ComOK
<1>5. MsgOK(p)' /\ TakenOK(p)'
  BY DEF MsgOK, TakenOK, At
<1>6. JobOK(p)'
  <2>1. running_job[p] # NoMsg => /\ running_job[p] \in Held(p) \ {m}
                                  /\ running_job[p] # com[p]
                                  /\ JobsBoundTo(running_job[p]) = {}
    BY DEF LocalOK, JobOK, ScriptPoint, MsgPoint
  <2>2. running_job[p] # NoMsg => JobsBoundTo(running_job[p])' = {}
    BY <1>1, <2>1
  <2> QED
    BY <2>1, <2>2 DEF JobOK
<1> QED
  BY <1>3, <1>4, <1>5, <1>6 DEF LocalOK

\* Where the proofs about a step of p start.
LEMMA Start ==
  ASSUME NEW p \in Proc, StepFrom(p)
  PROVE  /\ MsgCounting
         /\ ShmTypeOK /\ ShmTypeOK' /\ PipeTypeOK /\ CtlTypeOK /\ ServerTypeOK /\ CtlTypeOK'
         /\ PointOK
         /\ SharedInv
         /\ \A q \in Proc : LocalOK(q)
         /\ Others(p)
  BY DEF StepFrom, TypeOK, OwnershipInv, SharedInv

\* The invariant is its shared part and what each process knows.
LEMMA Conclude ==
  ASSUME NEW p \in Proc, SharedInv', \A q \in Proc \ {p} : LocalOK(q)', LocalOK(p)'
  PROVE  OwnershipInv'
  BY DEF OwnershipInv, SharedInv

\* Everybody stays where they are, with all their messages.
LEMMA Stay ==
  ASSUME ShmTypeOK, OwnershipInv,
         UNCHANGED <<free_messages, owners_counter, common_job, attached, job_pipe, result_pipe, pc,
                     msg, com, running_job>>
  PROVE  OwnershipInv'
<1>1. \A q \in Proc : Held(q)' = Held(q)
  BY DEF Held, TableOf, HandedOver
<1>2. \A q \in Proc : \A m : OwnsByTable(q, m)' <=> OwnsByTable(q, m)
  BY <1>1 DEF OwnsByTable
<1>3. \A m : JobsBoundTo(m)' = JobsBoundTo(m)
  BY DEF JobsBoundTo
<1>4. PipesSame /\ SharedInv
  BY DEF PipesSame, OwnershipInv, SharedInv
<1>5. TablesOK' /\ PipesOK'
  <2>1. TablesOK'
    BY <1>4 DEF SharedInv, TablesOK
  <2>2. PipesOK'
    BY <1>4, PipeSame DEF SharedInv, PipesOK
  <2> QED
    BY <2>1, <2>2
<1>6. SharedInv'
  BY <1>1, <1>2, <1>4, <1>5, PipeSame, SharedSame
<1>7. \A q \in Proc : \A x, y : Before(q, x, y)' <=> Before(q, x, y)
  BY DEF Before
<1>8. ASSUME NEW q \in Proc PROVE LocalOK(q)'
  <2>1. LocalOK(q)
    BY DEF OwnershipInv
  <2>2. PiecesOK(q)'
    BY <1>1, <1>7, <2>1 DEF LocalOK, PiecesOK, At
  <2>3. ComOK(q)' /\ TakenOK(q)'
    BY <1>1, <2>1 DEF LocalOK, ComOK, TakenOK, At
  <2>4. MsgOK(q)' /\ JobOK(q)'
    BY <1>1, <1>3, <2>1 DEF LocalOK, MsgOK, JobOK, At
  <2> QED
    BY <2>2, <2>3, <2>4 DEF LocalOK
<1> QED
  BY <1>6, <1>8 DEF OwnershipInv, SharedInv

-----------------------------------------------------------------------------
(* The pool: p takes a message, gives it back, or binds a job to it.        *)

\* Nothing changes but where p is and what its locals are.
LEMMA QuietStep ==
  ASSUME ShmTypeOK, SharedInv, \A q \in Proc : LocalOK(q), NEW p \in Proc, Others(p), PipesSame,
         Settled(p), UNCHANGED <<free_messages, owners_counter, common_job, attached>>,
         \/ com'[p] = com[p]
         \/ com'[p] = NoMsg /\ pc[p] \notin {"write", "parse"}
  PROVE  /\ SharedInv'
         /\ \A q \in Proc \ {p} : LocalOK(q)'
         /\ Held(p)' = Held(p)
         /\ \A m : JobsBoundTo(m)' = JobsBoundTo(m)
         /\ \A x, y : Before(p, x, y)' <=> Before(p, x, y)
<1>1. \A q \in Proc : Held(q)' = Held(q) /\ Held(q) \subseteq Msg
  <2>1. TableOf(p)' = TableOf(p)
    BY DEF TableOf
  <2> QED
    BY <2>1, HeldType, HeldOther, HeldSettled
<1>2. \A m : JobsBoundTo(m)' = JobsBoundTo(m)
  BY DEF JobsBoundTo
<1>3. \A q \in Proc \ {p}, m \in Msg : OwnsByTable(q, m)' <=> OwnsByTable(q, m)
  BY <1>1 DEF OwnsByTable, Others
<1>4. \A m \in Msg : OwnsByTable(p, m)' <=> OwnsByTable(p, m)
  <2>1. com'[p] # com[p] => \A j \in Held(p) : common_job[j] # com[p] \/ com[p] = NoMsg
    BY DEF LocalOK, PiecesOK, At
  <2> QED
    BY <1>1, <2>1, ShmAssumption DEF OwnsByTable
<1>5. TablesOK'
  BY DEF SharedInv, TablesOK
<1>6. PipesOK'
  BY PipeSame DEF SharedInv, PipesOK, PipesSame
<1>7. SharedInv'
  BY <1>1, <1>3, <1>4, <1>5, <1>6, SharedSame, PipeSame
<1>8. \A q \in Proc \ {p} : LocalOK(q)'
  BY <1>2, LocalOther
<1>9. \A x, y : Before(p, x, y)' <=> Before(p, x, y)
  BY DEF Before
<1> QED
  BY <1>1, <1>2, <1>7, <1>8, <1>9

\* p moves on; the messages and the pipes stay what they are.
QuietMove(p) ==
  /\ UNCHANGED <<free_messages, owners_counter, common_job, attached, job_pipe, result_pipe>>
  /\ pc[p] \notin {"write", "parse", "sent", "replied"}
  /\ pc'[p] \notin {"parse", "sent", "replied"}
  /\ com'[p] \in {com[p], NoMsg}
  /\ msg'[p] \in {msg[p], NoMsg}
  /\ pc'[p] \in {"request", "bind", "write", "response", "reply"} =>
       /\ pc[p] \in {"request", "bind", "write", "response", "reply"}
       /\ msg'[p] = msg[p] /\ com'[p] = com[p]
       /\ pc'[p] = "write" => com[p] = NoMsg
  /\ pc'[p] \in {"parse", "ready"} \cup ScriptPoint /\ running_job'[p] # NoMsg =>
       /\ pc[p] \in {"parse", "ready"} \cup ScriptPoint
       /\ running_job'[p] = running_job[p]
  /\ pc'[p] = "idle" => pc[p] = "idle" \/ \A i \in Slot : attached[p][i] = NoMsg

\* A process that only moves its locals keeps the invariant.
LEMMA QuietMoveKeeps ==
  ASSUME NEW p \in Proc, StepFrom(p), QuietMove(p)
  PROVE  OwnershipInv'
<1>1. PipesSame /\ Settled(p) /\ pc[p] \notin {"write", "parse"}
  BY DEF QuietMove, PipesSame, Settled
<1>2. /\ SharedInv'
      /\ \A q \in Proc \ {p} : LocalOK(q)'
      /\ Held(p)' = Held(p)
      /\ \A m : JobsBoundTo(m)' = JobsBoundTo(m)
  BY <1>1, Start, QuietStep DEF QuietMove
<1>3. LocalOK(p)'
  BY <1>1, <1>2, Start, QuietLocal DEF QuietMove
<1> QED
  BY <1>2, <1>3, Conclude

\* p releases a message that it owns, with its piece if it has one.
LEMMA ReleaseStep ==
  ASSUME MsgCounting, ShmTypeOK, ShmTypeOK', SharedInv, \A q \in Proc : LocalOK(q), NEW p \in Proc, Others(p),
         PipesSame, Settled(p), pc[p] \notin {"write", "parse"},
         NEW m \in Msg, OwnsByTable(p, m), release_shared_message(p, m),
         com'[p] = com[p] \/ (com'[p] = NoMsg /\ com[p] = m)
  PROVE  /\ SharedInv'
         /\ \A q \in Proc \ {p} : LocalOK(q)'
         /\ Held(p)' = Held(p) \ Dropped(m)
         /\ Dropped(m) = {m, common_job[m]} \ {NoMsg}
         /\ common_job' = common_job
         /\ \A x : JobsBoundTo(x)' \subseteq JobsBoundTo(x)
         /\ \A x, y \in Msg \ Dropped(m) : Before(p, x, y) => Before(p, x, y)'
<1> DEFINE c == common_job[m]
<1> DEFINE D == Dropped(m)
<1>1. m \in Held(p) /\ Owned(m) /\ NoMsg \notin Msg
  BY ShmAssumption DEF OwnsByTable, Owned
<1>2. D = {m, c} \ {NoMsg}
  BY <1>1, BoundJobOwnedOnce DEF Dropped
<1>3. c # NoMsg => /\ c \in Msg
                   /\ c # m
                   /\ m \in JobsBoundTo(c)
                   /\ JobsBoundTo(m) = {}
                   /\ owners_counter[m] = 1
                   /\ common_job[c] = NoMsg
                   /\ com[p] # c
                   /\ c \in Held(p)
  <2> SUFFICES ASSUME c # NoMsg
               PROVE  /\ c \in Msg
                      /\ c # m
                      /\ m \in JobsBoundTo(c)
                      /\ JobsBoundTo(m) = {}
                      /\ owners_counter[m] = 1
                      /\ common_job[c] = NoMsg
                      /\ com[p] # c
                      /\ c \in Held(p)
    OBVIOUS
  <2>1. c \in Msg /\ m \in Msg \ free_messages
    BY <1>1 DEF ShmTypeOK, SharedInv, HeldOK
  <2>2. common_job[c] = NoMsg
    BY <2>1 DEF SharedInv, BoundOK
  <2>3. m \in JobsBoundTo(c)
    BY <2>1 DEF JobsBoundTo
  <2>4. JobsBoundTo(m) = {} /\ owners_counter[m] = 1
    BY <1>1, BoundJobOwnedOnce
  <2>5. com[p] # c
    BY <1>1 DEF LocalOK, PiecesOK, At
  <2>6. c \in Held(p)
    <3>1. D \subseteq TableOf(p)
      BY DEF release_shared_message
    <3> QED
      BY <1>2, <3>1, HeldSettled
  <2> QED
    BY <2>1, <2>2, <2>3, <2>4, <2>5, <2>6
<1>4. /\ free_messages' = free_messages \cup Freed(m)
      /\ common_job' = common_job
      /\ owners_counter' = [x \in Msg |-> IF x \in D THEN Decrement(owners_counter[x])
                                          ELSE owners_counter[x]]
  BY DEF release_shared_message
<1>5. Freed(m) = {x \in D : owners_counter[x] = 1} /\ D \subseteq Msg
  BY <1>2, <1>3 DEF Freed
<1>6. /\ TablesOK'
      /\ TableOf(p)' = TableOf(p) \ D
      /\ \A x, y \in Msg \ D : Before(p, x, y) => Before(p, x, y)'
  BY ReleaseTable DEF SharedInv
<1> HIDE DEF D, c
<1>7. Held(p)' = Held(p) \ D
  BY <1>6, HeldSettled
<1>8. \A x \in D : owners_counter[x] \in Nat /\ owners_counter[x] >= 1
  <2>1. \A x \in D : x \notin free_messages
    BY <1>1, <1>2, <1>3 DEF SharedInv, HeldOK
  <2> QED
    BY <1>5, <2>1, CountUse DEF SharedInv
<1>9. \A x \in Msg : owners_counter'[x] = IF x \in D THEN owners_counter[x] - 1
                                          ELSE owners_counter[x]
  BY SMTT(60), <1>4, <1>8 DEF Decrement
<1>10. \A x \in Msg : JobsBoundTo(x)' = IF x = c THEN JobsBoundTo(x) \ {m} ELSE JobsBoundTo(x)
  BY ZenonT(60), <1>1, <1>2, <1>3, <1>4, <1>5 DEF JobsBoundTo, c
<1>11. \A q \in Proc \ {p}, x \in Msg : OwnsByTable(q, x)' <=> OwnsByTable(q, x)
  BY <1>4, HeldOther DEF OwnsByTable, Others
<1>12. \A x \in Msg : OwnsByTable(p, x)' <=> OwnsByTable(p, x) /\ x \notin D
  BY <1>1, <1>2, <1>3, <1>4, <1>7 DEF OwnsByTable, c
<1>13. \A x \in Msg : Owned(x)' <=> Owned(x) /\ x # m
  <2>1. ~OwnsByTable(p, c)
    <3>1. c = NoMsg => c \notin Held(p)
      BY <1>1, HeldType
    <3>2. c # NoMsg => com[p] # c /\ \E j \in Held(p) : common_job[j] = c
      BY <1>1, <1>3 DEF c
    <3> QED
      BY <3>1, <3>2 DEF OwnsByTable
  <2>2. \A q \in Proc : OwnsByTable(q, m) => q = p
    BY DEF SharedInv, HeldOK
  <2>3. \A x \in Msg : OwnsByTable(p, x)' <=> OwnsByTable(p, x) /\ x # m
    BY <1>1, <1>2, <1>12, <2>1
  <2>4. ASSUME NEW x \in Msg PROVE Owned(x)' <=> Owned(x) /\ x # m
    BY <1>11, <2>2, <2>3 DEF Owned
  <2> QED
    BY <2>4
<1>14. CountOK'
  <2> SUFFICES ASSUME NEW x \in Msg
               PROVE  /\ owners_counter'[x] = Cardinality(JobsBoundTo(x)')
                                                + (IF Owned(x)' \/ InPipe(x)' THEN 1 ELSE 0)
                      /\ x \in free_messages' <=> owners_counter'[x] = 0
    BY DEF CountOK
  <2>1. /\ owners_counter[x] = Cardinality(JobsBoundTo(x))
                                 + (IF Owned(x) \/ InPipe(x) THEN 1 ELSE 0)
        /\ x \in free_messages <=> owners_counter[x] = 0
        /\ InPipe(x)' <=> InPipe(x)
        /\ Cardinality(JobsBoundTo(x)) \in Nat
    BY PipeSame, BoundCount DEF SharedInv, CountOK
  <2>2. x \in free_messages' <=> owners_counter'[x] = 0
    BY SMTT(60), <1>4, <1>5, <1>8, <1>9, <2>1
  <2>3. CASE x = m
    <3>1. ~InPipe(m) /\ JobsBoundTo(m)' = JobsBoundTo(m) /\ m \in D
      BY <1>1, <1>2, <1>3, <1>10 DEF SharedInv, HeldOK
    <3> QED
      BY SMTT(60), <1>1, <1>9, <1>13, <2>1, <2>2, <2>3, <3>1
  <2>4. CASE x = c
    <3>1. Cardinality(JobsBoundTo(x) \ {m}) = Cardinality(JobsBoundTo(x)) - 1
      BY <1>1, <1>3, <2>4, BoundCount, RemoveOne
    <3>2. x # m /\ x \in D
      BY <1>1, <1>2, <1>3, <2>4
    <3>3. /\ owners_counter'[x] = owners_counter[x] - 1
          /\ JobsBoundTo(x)' = JobsBoundTo(x) \ {m}
          /\ Owned(x)' <=> Owned(x)
      BY <1>9, <1>10, <1>13, <2>4, <3>2
    <3> QED
      BY SMTT(60), <2>1, <2>2, <3>1, <3>3
  <2>5. CASE x # m /\ x # c
    BY <1>2, <1>9, <1>10, <1>13, <2>1, <2>2, <2>5
  <2> QED
    BY <2>3, <2>4, <2>5
<1>15. HeldOK'
  <2>1. \A q \in Proc : Held(q)' \subseteq Held(q)
    BY <1>7, HeldOther
  <2>2. \A q \in Proc : \A j \in Held(q)' : common_job'[j] # NoMsg => OwnsByTable(q, j)'
    BY <1>4, <1>7, <1>11, <1>12, <2>1, BoundJobOwnedOnce, HeldType
  <2>3. \A q \in Proc : \A x \in Held(q)' : x \notin free_messages' /\ ~InPipe(x)'
    BY <1>14, <2>1, <2>2, HeldInUse, PipeSame DEF SharedInv, HeldOK
  <2>4. \A q, r \in Proc, x \in Msg : OwnsByTable(q, x)' /\ OwnsByTable(r, x)' => q = r
    BY <1>11, <1>12 DEF SharedInv, HeldOK
  <2> QED
    BY <2>3, <2>4 DEF HeldOK
<1>16. BoundOK'
  BY <1>4, PipeSame DEF SharedInv, BoundOK, ShmTypeOK
<1>17. PipesOK'
  BY <1>4, PipeSame DEF SharedInv, PipesOK, PipesSame
<1>18. \A x : JobsBoundTo(x)' \subseteq JobsBoundTo(x)
  BY <1>4 DEF JobsBoundTo
<1>19. \A q \in Proc \ {p} : LocalOK(q)'
  BY <1>4, <1>18, LocalOther
<1> QED
  BY <1>2, <1>4, <1>6, <1>7, <1>14, <1>15, <1>16, <1>17, <1>18, <1>19 DEF SharedInv, D, c

\* p releases a message of its own and stops working on messages.
ReleaseMove(p, m) ==
  /\ m \in Msg
  /\ OwnsByTable(p, m)
  /\ release_shared_message(p, m)
  /\ UNCHANGED <<job_pipe, result_pipe>>
  /\ pc[p] \notin {"write", "parse", "sent", "replied"}
  /\ pc'[p] \notin {"request", "bind", "write", "response", "reply", "parse", "idle", "sent",
                    "replied"}
  /\ \/ com'[p] = com[p] /\ com[p] # m
     \/ com'[p] = NoMsg /\ com[p] = m
  /\ msg'[p] \in {msg[p], NoMsg}
  /\ pc'[p] \in {"parse", "ready"} \cup ScriptPoint /\ running_job'[p] # NoMsg =>
       /\ pc[p] \in {"parse", "ready"} \cup ScriptPoint
       /\ running_job'[p] = running_job[p]
       /\ running_job[p] # m

\* A process that releases a message keeps it.
LEMMA ReleaseMoveKeeps ==
  ASSUME NEW p \in Proc, StepFrom(p), NEW m \in Msg, ReleaseMove(p, m)
  PROVE  OwnershipInv'
<1>1. /\ PipesSame /\ Settled(p) /\ pc[p] \notin {"write", "parse"}
      /\ OwnsByTable(p, m) /\ release_shared_message(p, m)
      /\ com'[p] = com[p] \/ (com'[p] = NoMsg /\ com[p] = m)
  BY DEF ReleaseMove, PipesSame, Settled
<1>2. PICK D : D = Dropped(m)
  OBVIOUS
<1>3. /\ SharedInv'
      /\ \A q \in Proc \ {p} : LocalOK(q)'
      /\ Held(p)' = Held(p) \ D
      /\ D = {m, common_job[m]} \ {NoMsg}
      /\ common_job' = common_job
      /\ \A x : JobsBoundTo(x)' \subseteq JobsBoundTo(x)
      /\ \A x, y \in Msg \ D : Before(p, x, y) => Before(p, x, y)'
  BY <1>1, <1>2, Start, ReleaseStep
<1>4. LocalOK(p)'
  BY SMTT(60), <1>1, <1>3, Start, ReleaseLocal DEF ReleaseMove
<1> QED
  BY <1>3, <1>4, Conclude

\* p takes a free message.
LEMMA AcquireStep ==
  ASSUME MsgCounting, ShmTypeOK, SharedInv, \A q \in Proc : LocalOK(q), NEW p \in Proc, Others(p),
         PipesSame, Settled(p), NEW m \in Msg, acquire_shared_message(p, m),
         com'[p] = com[p] \/ (com'[p] = m /\ com[p] = NoMsg)
  PROVE  /\ SharedInv'
         /\ \A q \in Proc \ {p} : LocalOK(q)'
         /\ Held(p)' = Held(p) \cup {m}
         /\ m \notin Held(p)
         /\ common_job'[m] = NoMsg
         /\ \A x \in Msg \ {m} : common_job'[x] = common_job[x]
         /\ \A x \in Msg : JobsBoundTo(x)' = JobsBoundTo(x)
         /\ JobsBoundTo(m)' = {}
         /\ \A j \in Held(p) : common_job[j] # m
         /\ \A x, y \in Msg : Before(p, x, y) => Before(p, x, y)'
<1>1. /\ m \in free_messages
      /\ free_messages' = free_messages \ {m}
      /\ owners_counter' = [owners_counter EXCEPT ![m] = 1]
      /\ common_job' = [common_job EXCEPT ![m] = NoMsg]
      /\ attach(p, m)
  BY DEF acquire_shared_message
<1>2. JobsBoundTo(m) = {} /\ ~Owned(m) /\ ~InPipe(m) /\ NoMsg \notin Msg
  BY <1>1, CountUse, ShmAssumption DEF SharedInv
<1>3. \A q \in Proc : m \notin Held(q) /\ \A j \in Held(q) : j \in Msg /\ common_job[j] # m
  BY <1>1, <1>2, HeldType DEF SharedInv, HeldOK, JobsBoundTo
<1>4. /\ common_job'[m] = NoMsg /\ owners_counter'[m] = 1
      /\ \A x \in Msg \ {m} : common_job'[x] = common_job[x] /\ owners_counter'[x] = owners_counter[x]
  BY <1>1 DEF ShmTypeOK
<1>5. \A x \in Msg : JobsBoundTo(x)' = JobsBoundTo(x)
  BY SMTT(60), <1>1, <1>2, <1>4 DEF JobsBoundTo
<1>6. m \notin TableOf(p)
  BY <1>3, HeldSettled
<1>7. /\ TablesOK'
      /\ TableOf(p)' = TableOf(p) \cup {m}
      /\ \A x, y \in Msg : Before(p, x, y) => Before(p, x, y)'
  BY <1>1, <1>6, AttachTable DEF SharedInv
<1>8. Held(p)' = Held(p) \cup {m}
  BY <1>7, HeldSettled
<1>9. \A q \in Proc \ {p}, x \in Msg : OwnsByTable(q, x)' <=> OwnsByTable(q, x)
  BY ZenonT(60), <1>3, <1>4, HeldOther DEF OwnsByTable, Others
<1>10. \A x \in Msg : OwnsByTable(p, x)' <=> OwnsByTable(p, x) \/ x = m
  BY SMTT(60), <1>2, <1>3, <1>4, <1>8 DEF OwnsByTable
<1>11. \A x \in Msg : Owned(x)' <=> Owned(x) \/ x = m
  <2> SUFFICES ASSUME NEW x \in Msg PROVE Owned(x)' <=> Owned(x) \/ x = m
    OBVIOUS
  <2> QED
    BY <1>9, <1>10 DEF Owned
<1>12. CountOK'
  <2> SUFFICES ASSUME NEW x \in Msg
               PROVE  /\ owners_counter'[x] = Cardinality(JobsBoundTo(x)')
                                                + (IF Owned(x)' \/ InPipe(x)' THEN 1 ELSE 0)
                      /\ x \in free_messages' <=> owners_counter'[x] = 0
    BY DEF CountOK
  <2>1. /\ owners_counter[x] = Cardinality(JobsBoundTo(x))
                                 + (IF Owned(x) \/ InPipe(x) THEN 1 ELSE 0)
        /\ x \in free_messages <=> owners_counter[x] = 0
        /\ InPipe(x)' <=> InPipe(x)
        /\ Cardinality(JobsBoundTo(x)) \in Nat
        /\ Cardinality(JobsBoundTo(x)) = 0 <=> JobsBoundTo(x) = {}
    BY PipeSame, BoundCount DEF SharedInv, CountOK
  <2>2. CASE x = m
    BY SMTT(60), <1>1, <1>2, <1>4, <1>5, <1>11, <2>1, <2>2
  <2>3. CASE x # m
    BY <1>1, <1>4, <1>5, <1>11, <2>1, <2>3
  <2> QED
    BY <2>2, <2>3
<1>13. HeldOK'
  <2>1. \A q \in Proc : \A x \in Held(q)' : x = m \/ x \in Held(q)
    BY <1>8, HeldOther
  <2>2. \A q \in Proc : \A x \in Held(q)' : x \notin free_messages' /\ ~InPipe(x)'
    BY <1>1, <1>2, <2>1, PipeSame DEF SharedInv, HeldOK
  <2>3. \A q, r \in Proc, x \in Msg : OwnsByTable(q, x)' /\ OwnsByTable(r, x)' => q = r
    BY ZenonT(60), <1>2, <1>9, <1>10 DEF SharedInv, HeldOK, Owned
  <2> QED
    BY <2>2, <2>3 DEF HeldOK
<1>14. BoundOK'
  <2>1. \A j \in Msg \ free_messages : j # m /\ common_job[j] # m
    BY <1>1, <1>2 DEF JobsBoundTo
  <2> QED
    BY SMTT(60), <1>1, <1>4, <2>1, PipeSame DEF SharedInv, BoundOK, ShmTypeOK
<1>15. PipesOK'
  <2>1. \A q \in Proc, x \in Msg : ResultQueued(q, x) => InPipe(x)
    BY DEF ResultQueued, InPipe
  <2> QED
    BY <1>2, <1>4, <2>1, PipeSame DEF SharedInv, PipesOK, PipesSame
<1>16. \A q \in Proc \ {p} : LocalOK(q)'
  <2> SUFFICES ASSUME NEW q \in Proc \ {p} PROVE LocalOK(q)'
    OBVIOUS
  <2> QED
    BY <1>3, <1>4, <1>5, LocalOther
<1> QED
  BY <1>2, <1>3, <1>4, <1>5, <1>7, <1>8, <1>12, <1>13, <1>14, <1>15, <1>16 DEF SharedInv

\* p binds its job m to its common piece c.  The counter of c does not wrap:
\* neither m nor c is bound to c yet.
LEMMA BindStep ==
  ASSUME MsgCounting, ShmTypeOK, SharedInv, \A q \in Proc : LocalOK(q), NEW p \in Proc, Others(p),
         PipesSame, Settled(p), NEW m \in Held(p), NEW c \in Held(p), m # c, com[p] = c, com'[p] = c,
         common_job[m] = NoMsg, common_job[c] = NoMsg, JobsBoundTo(m) = {}, bind_common_job(m, c)
  PROVE  /\ SharedInv'
         /\ \A q \in Proc \ {p} : LocalOK(q)'
         /\ Held(p)' = Held(p)
         /\ common_job'[m] = c
         /\ \A x \in Msg \ {m} : common_job'[x] = common_job[x]
         /\ \A x \in Msg \ {c} : JobsBoundTo(x)' = JobsBoundTo(x)
         /\ attached' = attached
<1>1. /\ UNCHANGED <<free_messages, attached>>
      /\ owners_counter' = [owners_counter EXCEPT ![c] = Increment(@)]
      /\ common_job' = [common_job EXCEPT ![m] = c]
  BY DEF bind_common_job
<1>2. /\ m \in Msg \ free_messages /\ c \in Msg \ free_messages /\ ~InPipe(m) /\ ~InPipe(c)
      /\ NoMsg \notin Msg
  BY HeldType, ShmAssumption DEF SharedInv, HeldOK
<1>3. /\ common_job'[m] = c
      /\ \A x \in Msg \ {m} : common_job'[x] = common_job[x]
  BY <1>1, <1>2 DEF ShmTypeOK
<1>4. \A x \in Msg : JobsBoundTo(x)' = IF x = c THEN JobsBoundTo(x) \cup {m} ELSE JobsBoundTo(x)
  BY ZenonT(60), <1>1, <1>2, <1>3 DEF JobsBoundTo
<1>5. \A q \in Proc : Held(q)' = Held(q) /\ Held(q) \subseteq Msg
  <2>1. TableOf(p)' = TableOf(p)
    BY <1>1 DEF TableOf
  <2> QED
    BY <2>1, HeldType, HeldOther, HeldSettled
<1>6. \A q \in Proc \ {p} : m \notin Held(q)
  BY HeldUnbound
<1>7. \A q \in Proc \ {p}, x \in Msg : OwnsByTable(q, x)' <=> OwnsByTable(q, x)
  BY <1>3, <1>5, <1>6 DEF OwnsByTable, Others
<1>8. \A x \in Msg : OwnsByTable(p, x)' <=> OwnsByTable(p, x)
  BY <1>2, <1>3, <1>5 DEF OwnsByTable
<1>9. \A x \in Msg : Owned(x)' <=> Owned(x)
  BY <1>7, <1>8 DEF Owned
<1>10. Owned(c)
  BY DEF OwnsByTable, Owned
<1>11. Cardinality(JobsBoundTo(c) \cup {m}) = Cardinality(JobsBoundTo(c)) + 1
  <2>1. m \notin JobsBoundTo(c)
    BY <1>2 DEF JobsBoundTo
  <2> QED
    BY <1>2, <2>1, BoundCount DEF MsgCounting
<1>12. owners_counter[c] < MaxOwners
  <2>1. JobsBoundTo(c) \cup {m} \in SUBSET Msg /\ c \notin JobsBoundTo(c) \cup {m}
    BY <1>2 DEF JobsBoundTo
  <2>2. Cardinality(JobsBoundTo(c) \cup {m}) < Cardinality(Msg) /\ Cardinality(Msg) \in Nat
    BY <1>2, <2>1 DEF MsgCounting
  <2>3. owners_counter[c] = Cardinality(JobsBoundTo(c)) + 1
    BY <1>2, <1>10 DEF SharedInv, CountOK
  <2>4. Cardinality(JobsBoundTo(c)) \in Nat
    BY BoundCount
  <2> QED
    BY SMTT(60), <1>11, <2>2, <2>3, <2>4, ShmAssumption
<1>13. CountOK'
  <2> SUFFICES ASSUME NEW x \in Msg
               PROVE  /\ owners_counter'[x] = Cardinality(JobsBoundTo(x)')
                                                + (IF Owned(x)' \/ InPipe(x)' THEN 1 ELSE 0)
                      /\ x \in free_messages' <=> owners_counter'[x] = 0
    BY DEF CountOK
  <2>1. /\ owners_counter[x] = Cardinality(JobsBoundTo(x))
                                 + (IF Owned(x) \/ InPipe(x) THEN 1 ELSE 0)
        /\ x \in free_messages <=> owners_counter[x] = 0
        /\ InPipe(x)' <=> InPipe(x)
        /\ Cardinality(JobsBoundTo(x)) \in Nat
    BY PipeSame, BoundCount DEF SharedInv, CountOK
  <2>2. CASE x = c
    <3>1. owners_counter'[c] = owners_counter[c] + 1
      BY SMTT(60), <1>1, <1>2, <1>12 DEF Increment, ShmTypeOK
    <3>2. /\ Cardinality(JobsBoundTo(c)') = Cardinality(JobsBoundTo(c)) + 1
          /\ Owned(c)'
          /\ c \notin free_messages'
      BY <1>1, <1>2, <1>4, <1>9, <1>10, <1>11
    <3>3. owners_counter'[x] = Cardinality(JobsBoundTo(x)') + 1
      BY <1>10, <2>1, <2>2, <3>1, <3>2
    <3> QED
      BY SMTT(60), <2>1, <2>2, <3>2, <3>3
  <2>3. CASE x # c
    BY <1>1, <1>4, <1>9, <2>1, <2>3 DEF ShmTypeOK
  <2> QED
    BY <2>2, <2>3
<1>14. HeldOK'
  BY <1>1, <1>5, <1>7, <1>8, PipeSame DEF SharedInv, HeldOK
<1>15. BoundOK'
  <2>1. \A j \in Msg \ free_messages : common_job[j] # m
    BY <1>2 DEF JobsBoundTo
  <2> QED
    BY ZenonT(60), <1>1, <1>2, <1>3, <2>1, PipeSame DEF SharedInv, BoundOK, ShmTypeOK
<1>16. PipesOK'
  <2>1. \A q \in Proc, x \in Msg : ResultQueued(q, x) => InPipe(x)
    BY DEF ResultQueued, InPipe
  <2> QED
    BY ZenonT(60), <1>2, <1>3, <2>1, PipeSame DEF SharedInv, PipesOK, PipesSame
<1>17. \A q \in Proc \ {p} : LocalOK(q)'
  <2> SUFFICES ASSUME NEW q \in Proc \ {p} PROVE LocalOK(q)'
    OBVIOUS
  <2>1. ASSUME c \in Held(q), JobsBoundTo(c) = {} PROVE FALSE
    BY <2>1, HeldUnbound
  <2>2. \A x \in Held(q) : JobsBoundTo(x) = {} => JobsBoundTo(x)' = {}
    BY <1>4, <1>5, <2>1
  <2> QED
    BY <1>3, <1>5, <1>6, <2>2, LocalOther
<1>18. TablesOK'
  BY <1>1 DEF SharedInv, TablesOK
<1> QED
  BY <1>1, <1>3, <1>4, <1>5, <1>13, <1>14, <1>15, <1>16, <1>17, <1>18 DEF SharedInv

-----------------------------------------------------------------------------
(* Pipes.                                                                   *)

InQueue(s, x) == \E i \in 1..Len(s) : s[i] = x

NoRepeat(s) == \A i, k \in 1..Len(s) : s[i] = s[k] => i = k

\* A write to a pipe adds a message that is not in it.
LEMMA AppendQueue ==
  ASSUME NEW s \in Seq(Msg), NEW m \in Msg, NoRepeat(s), ~InQueue(s, m)
  PROVE  /\ NoRepeat(Append(s, m))
         /\ \A x : InQueue(Append(s, m), x) <=> InQueue(s, x) \/ x = m
<1> DEFINE t == Append(s, m)
<1>1. /\ Len(s) \in Nat
      /\ Len(t) = Len(s) + 1
      /\ \A i \in 1..Len(s) : t[i] = s[i]
      /\ t[Len(s) + 1] = m
  BY SMTT(60)
<1> HIDE DEF t
<1>2. \A i \in 1..Len(t) : i = Len(s) + 1 \/ i \in 1..Len(s)
  BY SMTT(60), <1>1
<1>3. 1..Len(s) \subseteq 1..Len(t) /\ Len(s) + 1 \in 1..Len(t)
  BY SMTT(60), <1>1
<1>4. \A x : InQueue(t, x) <=> InQueue(s, x) \/ x = m
  BY <1>1, <1>2, <1>3 DEF InQueue
<1>5. NoRepeat(t)
  <2> SUFFICES ASSUME NEW i \in 1..Len(t), NEW k \in 1..Len(t), t[i] = t[k]
               PROVE  i = k
    BY DEF NoRepeat
  <2>1. CASE i \in 1..Len(s) /\ k \in 1..Len(s)
    BY <1>1, <2>1 DEF NoRepeat
  <2>2. \A n \in 1..Len(s) : t[n] # m
    BY <1>1 DEF InQueue
  <2> QED
    BY <1>1, <1>2, <2>1, <2>2
<1> QED
  BY <1>4, <1>5 DEF t

\* A read takes the first message, and it is not in the pipe any more.
LEMMA TailQueue ==
  ASSUME NEW s \in Seq(Msg), s # <<>>, NoRepeat(s)
  PROVE  /\ Head(s) \in Msg
         /\ InQueue(s, Head(s))
         /\ NoRepeat(Tail(s))
         /\ \A x : InQueue(Tail(s), x) <=> InQueue(s, x) /\ x # Head(s)
<1> DEFINE t == Tail(s)
<1>1. /\ Len(s) \in Nat \ {0}
      /\ Head(s) \in Msg
      /\ Head(s) = s[1]
      /\ Len(t) = Len(s) - 1
      /\ \A i \in 1..Len(t) : t[i] = s[i + 1]
  BY SMTT(60)
<1> HIDE DEF t
<1>2. \A i \in 1..Len(t) : i + 1 \in 1..Len(s)
  BY SMTT(60), <1>1
<1>3. \A i \in 1..Len(s) : i = 1 \/ (i - 1 \in 1..Len(t) /\ t[i - 1] = s[i])
  BY SMTT(60), <1>1
<1>4. NoRepeat(t)
  BY SMTT(60), <1>1, <1>2 DEF NoRepeat
<1>5. InQueue(s, Head(s))
  BY SMTT(60), <1>1 DEF InQueue
<1>6. ASSUME NEW x, InQueue(t, x) PROVE InQueue(s, x) /\ x # Head(s)
  <2>1. PICK i \in 1..Len(t) : t[i] = x
    BY <1>6 DEF InQueue
  <2>2. s[i + 1] = x /\ i + 1 \in 1..Len(s) /\ i + 1 # 1 /\ 1 \in 1..Len(s)
    BY SMTT(60), <1>1, <1>2, <2>1
  <2> QED
    BY <1>1, <2>2 DEF InQueue, NoRepeat
<1>7. ASSUME NEW x, InQueue(s, x), x # Head(s) PROVE InQueue(t, x)
  <2>1. PICK i \in 1..Len(s) : s[i] = x
    BY <1>7 DEF InQueue
  <2> QED
    BY <1>1, <1>3, <1>7, <2>1 DEF InQueue
<1> QED
  BY <1>1, <1>4, <1>5, <1>6, <1>7 DEF t

\* What PipesOK and InPipe are in these terms.
LEMMA PipeTerms ==
  /\ \A x : InPipe(x) <=> JobQueued(x) \/ \E q \in Proc : ResultQueued(q, x)
  /\ \A x : JobQueued(x) <=> InQueue(job_pipe, x)
  /\ \A q \in Proc : \A x : ResultQueued(q, x) <=> InQueue(result_pipe[q], x)
  /\ \A x : InPipe(x)' <=> JobQueued(x)' \/ \E q \in Proc : ResultQueued(q, x)'
  /\ \A x : JobQueued(x)' <=> InQueue(job_pipe', x)
  /\ \A q \in Proc : \A x : ResultQueued(q, x)' <=> InQueue(result_pipe'[q], x)
  BY DEF InPipe, JobQueued, ResultQueued, InQueue

\* What is known of pipes, before and after a step, in the terms of queues.
LEMMA PipesOKTerms ==
  /\ PipesOK <=> /\ NoRepeat(job_pipe)
                 /\ \A q \in Proc : NoRepeat(result_pipe[q])
                 /\ \A q \in Proc, x \in Msg : ResultQueued(q, x) =>
                      /\ common_job[x] = NoMsg
                      /\ ~JobQueued(x)
                      /\ \A r \in Proc : ResultQueued(r, x) => r = q
  /\ PipesOK' <=> /\ NoRepeat(job_pipe')
                  /\ \A q \in Proc : NoRepeat(result_pipe'[q])
                  /\ \A q \in Proc, x \in Msg : ResultQueued(q, x)' =>
                       /\ common_job'[x] = NoMsg
                       /\ ~JobQueued(x)'
                       /\ \A r \in Proc : ResultQueued(r, x)' => r = q
  BY DEF PipesOK, NoRepeat

\* The write of a job keeps what is known of pipes.
LEMMA JobAppended ==
  ASSUME PipeTypeOK, PipesOK, NEW m \in Msg, ~InPipe(m), UNCHANGED <<result_pipe, common_job>>,
         job_pipe' = Append(job_pipe, m)
  PROVE  PipesOK' /\ \A x \in Msg : InPipe(x)' <=> InPipe(x) \/ x = m
<1>1. NoRepeat(job_pipe) /\ ~InQueue(job_pipe, m) /\ job_pipe \in Seq(Msg)
  BY PipeTerms, PipesOKTerms DEF PipeTypeOK
<1>2. /\ NoRepeat(job_pipe')
      /\ \A x : JobQueued(x)' <=> JobQueued(x) \/ x = m
  BY <1>1, AppendQueue, PipeTerms
<1>3. \A q \in Proc : \A x : ResultQueued(q, x)' <=> ResultQueued(q, x)
  BY DEF ResultQueued
<1>4. \A q \in Proc : ~ResultQueued(q, m)
  BY PipeTerms
<1> QED
  BY SMTT(60), <1>2, <1>3, <1>4, PipeTerms, PipesOKTerms

\* The write of a response does.
LEMMA ResultAppended ==
  ASSUME PipeTypeOK, PipesOK, NEW m \in Msg, ~InPipe(m), common_job[m] = NoMsg, NEW p \in Proc,
         UNCHANGED <<job_pipe, common_job>>,
         result_pipe' = [result_pipe EXCEPT ![p] = Append(@, m)]
  PROVE  PipesOK' /\ \A x \in Msg : InPipe(x)' <=> InPipe(x) \/ x = m
<1>1. NoRepeat(result_pipe[p]) /\ ~InQueue(result_pipe[p], m) /\ result_pipe[p] \in Seq(Msg)
  BY PipeTerms, PipesOKTerms DEF PipeTypeOK
<1>2. /\ result_pipe'[p] = Append(result_pipe[p], m)
      /\ \A q \in Proc \ {p} : result_pipe'[q] = result_pipe[q]
  BY DEF PipeTypeOK
<1>3. /\ NoRepeat(result_pipe'[p])
      /\ \A x : ResultQueued(p, x)' <=> ResultQueued(p, x) \/ x = m
  BY SMTT(60), <1>1, <1>2, AppendQueue, PipeTerms
<1>4. \A q \in Proc \ {p} : \A x : ResultQueued(q, x)' <=> ResultQueued(q, x)
  BY <1>2 DEF ResultQueued
<1>5. \A x : JobQueued(x)' <=> JobQueued(x)
  BY DEF JobQueued
<1>6. ~JobQueued(m) /\ \A q \in Proc : ~ResultQueued(q, m)
  BY PipeTerms
<1>7. \A q \in Proc : NoRepeat(result_pipe'[q])
  BY <1>2, <1>3, PipesOKTerms
<1>8. \A x \in Msg : InPipe(x)' <=> InPipe(x) \/ x = m
  BY <1>3, <1>4, <1>5, PipeTerms
<1>9. \A q \in Proc, x \in Msg : ResultQueued(q, x)' =>
        /\ common_job'[x] = NoMsg
        /\ ~JobQueued(x)'
        /\ \A r \in Proc : ResultQueued(r, x)' => r = q
  BY ZenonT(60), <1>3, <1>4, <1>5, <1>6, PipesOKTerms
<1>10. NoRepeat(job_pipe')
  BY PipesOKTerms
<1> QED
  BY <1>7, <1>8, <1>9, <1>10, PipesOKTerms

\* The read of a job does.
LEMMA JobRead ==
  ASSUME PipeTypeOK, PipesOK, job_pipe # <<>>, UNCHANGED <<result_pipe, common_job>>,
         job_pipe' = Tail(job_pipe)
  PROVE  /\ PipesOK'
         /\ Head(job_pipe) \in Msg
         /\ InPipe(Head(job_pipe))
         /\ \A x \in Msg : InPipe(x)' <=> InPipe(x) /\ x # Head(job_pipe)
<1>1. NoRepeat(job_pipe) /\ job_pipe \in Seq(Msg)
  BY PipesOKTerms DEF PipeTypeOK
<1>2. /\ NoRepeat(job_pipe')
      /\ Head(job_pipe) \in Msg
      /\ JobQueued(Head(job_pipe))
      /\ \A x : JobQueued(x)' <=> JobQueued(x) /\ x # Head(job_pipe)
  BY <1>1, TailQueue, PipeTerms
<1>3. \A q \in Proc : \A x : ResultQueued(q, x)' <=> ResultQueued(q, x)
  BY DEF ResultQueued
<1>4. \A q \in Proc : ~ResultQueued(q, Head(job_pipe))
  BY <1>2, PipesOKTerms
<1> QED
  BY SMTT(60), <1>2, <1>3, <1>4, PipeTerms, PipesOKTerms

\* The read of a response does.
LEMMA ResultRead ==
  ASSUME PipeTypeOK, PipesOK, NEW p \in Proc, result_pipe[p] # <<>>,
         UNCHANGED <<job_pipe, common_job>>,
         result_pipe' = [result_pipe EXCEPT ![p] = Tail(@)]
  PROVE  /\ PipesOK'
         /\ Head(result_pipe[p]) \in Msg
         /\ InPipe(Head(result_pipe[p]))
         /\ common_job[Head(result_pipe[p])] = NoMsg
         /\ \A x \in Msg : InPipe(x)' <=> InPipe(x) /\ x # Head(result_pipe[p])
<1> DEFINE m == Head(result_pipe[p])
<1>1. NoRepeat(result_pipe[p]) /\ result_pipe[p] \in Seq(Msg)
  BY PipesOKTerms DEF PipeTypeOK
<1>2. /\ result_pipe'[p] = Tail(result_pipe[p])
      /\ \A q \in Proc \ {p} : result_pipe'[q] = result_pipe[q]
  BY DEF PipeTypeOK
<1>3. /\ NoRepeat(result_pipe'[p])
      /\ m \in Msg
      /\ ResultQueued(p, m)
      /\ \A x : ResultQueued(p, x)' <=> ResultQueued(p, x) /\ x # m
  BY SMTT(60), <1>1, <1>2, TailQueue, PipeTerms
<1> HIDE DEF m
<1>4. \A q \in Proc \ {p} : \A x : ResultQueued(q, x)' <=> ResultQueued(q, x)
  BY <1>2 DEF ResultQueued
<1>5. \A x : JobQueued(x)' <=> JobQueued(x)
  BY DEF JobQueued
<1>6. common_job[m] = NoMsg /\ ~JobQueued(m) /\ \A q \in Proc \ {p} : ~ResultQueued(q, m)
  BY <1>3, PipesOKTerms
<1>7. \A x \in Msg : InPipe(x)' <=> InPipe(x) /\ x # m
  BY SMTT(60), <1>3, <1>4, <1>5, <1>6, PipeTerms
<1>8. \A q \in Proc : NoRepeat(result_pipe'[q])
  BY <1>2, <1>3, PipesOKTerms
<1>9. \A q \in Proc, x \in Msg : ResultQueued(q, x)' =>
        /\ common_job'[x] = NoMsg
        /\ ~JobQueued(x)'
        /\ \A r \in Proc : ResultQueued(r, x)' => r = q
  BY ZenonT(60), <1>3, <1>4, <1>5, PipesOKTerms
<1>10. NoRepeat(job_pipe')
  BY PipesOKTerms
<1>11. InPipe(m)
  BY <1>3, PipeTerms
<1> QED
  BY <1>3, <1>6, <1>7, <1>8, <1>9, <1>10, <1>11, PipesOKTerms DEF m

-----------------------------------------------------------------------------
(* A message enters a pipe.                                                 *)

\* p writes the address of its message m to a pipe.
LEMMA HandOverStep ==
  ASSUME MsgCounting, ShmTypeOK, SharedInv, \A q \in Proc : LocalOK(q), NEW p \in Proc, Others(p), PipesOK',
         NEW m \in Held(p), JobsBoundTo(m) = {}, msg[p] = m, msg'[p] = m, com'[p] = com[p],
         com[p] # m, common_job[m] = NoMsg \/ common_job[m] = com[p],
         pc[p] \notin {"sent", "replied"}, pc'[p] \in {"sent", "replied"},
         UNCHANGED <<free_messages, owners_counter, common_job, attached>>,
         \A x \in Msg : InPipe(x)' <=> InPipe(x) \/ x = m
  PROVE  /\ SharedInv'
         /\ \A q \in Proc \ {p} : LocalOK(q)'
         /\ Held(p)' = Held(p) \ {m}
         /\ \A x : JobsBoundTo(x)' = JobsBoundTo(x)
<1>1. /\ m \in Msg /\ OwnsByTable(p, m) /\ NoMsg \notin Msg
      /\ \A q \in Proc \ {p} : m \notin Held(q)
  BY HeldUnbound, ShmAssumption
<1>2. \A x : JobsBoundTo(x)' = JobsBoundTo(x)
  BY DEF JobsBoundTo
<1>3. /\ Held(p)' = Held(p) \ {m}
      /\ \A q \in Proc \ {p} : Held(q)' = Held(q)
      /\ \A q \in Proc : Held(q) \subseteq Msg
  <2>1. TableOf(p)' = TableOf(p)
    BY DEF TableOf
  <2> QED
    BY <2>1, HeldType, HeldOther DEF Held, HandedOver
<1>4. \A q \in Proc \ {p}, x \in Msg : OwnsByTable(q, x)' <=> OwnsByTable(q, x)
  BY <1>3 DEF OwnsByTable, Others
<1>5. \A x \in Msg : OwnsByTable(p, x)' <=> OwnsByTable(p, x) /\ x # m
  BY <1>1, <1>3 DEF OwnsByTable
<1>6. \A x \in Msg : Owned(x)' <=> Owned(x) /\ x # m
  <2> SUFFICES ASSUME NEW x \in Msg PROVE Owned(x)' <=> Owned(x) /\ x # m
    OBVIOUS
  <2>1. \A q \in Proc \ {p} : ~OwnsByTable(q, m)
    BY <1>1 DEF OwnsByTable
  <2> QED
    BY <1>4, <1>5, <2>1 DEF Owned
<1>7. Owned(m) /\ m \notin free_messages /\ ~InPipe(m)
  BY <1>1 DEF Owned, SharedInv, HeldOK
<1>8. CountOK'
  BY <1>2, <1>6, <1>7 DEF SharedInv, CountOK
<1>9. HeldOK'
  <2>1. \A q \in Proc : \A x \in Held(q)' : x \in Held(q) /\ x # m /\ x \in Msg
    BY <1>1, <1>3
  <2>2. \A q \in Proc : \A x \in Held(q)' : x \notin free_messages' /\ ~InPipe(x)'
    BY <2>1 DEF SharedInv, HeldOK
  <2>3. \A q, r \in Proc, x \in Msg : OwnsByTable(q, x)' /\ OwnsByTable(r, x)' => q = r
    BY <1>4, <1>5 DEF SharedInv, HeldOK
  <2> QED
    BY <2>2, <2>3 DEF HeldOK
<1>10. BoundOK'
  <2>1. \A j \in Msg \ free_messages : common_job[j] # m
    BY DEF JobsBoundTo
  <2> QED
    BY <2>1 DEF SharedInv, BoundOK, ShmTypeOK
<1>11. TablesOK'
  BY DEF SharedInv, TablesOK
<1>12. \A q \in Proc \ {p} : LocalOK(q)'
  BY <1>2, LocalOther
<1> QED
  BY <1>2, <1>3, <1>8, <1>9, <1>10, <1>11, <1>12 DEF SharedInv

\* p takes out of its table the message it has written to a pipe.
LEMMA SettleStep ==
  ASSUME MsgCounting, ShmTypeOK, SharedInv, \A q \in Proc : LocalOK(q), NEW p \in Proc, Others(p), PipesSame,
         NEW m \in Msg, msg[p] = m, com'[p] = com[p],
         pc[p] \in {"sent", "replied"}, pc'[p] \notin {"sent", "replied"},
         detach_shared_message_from_this_proc(p, m)
  PROVE  /\ SharedInv'
         /\ \A q \in Proc \ {p} : LocalOK(q)'
         /\ Held(p)' = Held(p)
         /\ m \notin Held(p)
         /\ common_job' = common_job
         /\ \A x : JobsBoundTo(x)' = JobsBoundTo(x)
         /\ \A x, y \in Msg \ {m} : Before(p, x, y) => Before(p, x, y)'
<1>1. detach(p, m) /\ UNCHANGED <<free_messages, owners_counter, common_job>>
  BY DEF detach_shared_message_from_this_proc
<1>2. /\ TablesOK'
      /\ TableOf(p)' = TableOf(p) \ {m}
      /\ \A x, y \in Msg \ {m} : Before(p, x, y) => Before(p, x, y)'
  BY <1>1, DetachTable DEF SharedInv
<1>3. Held(p)' = Held(p) /\ m \notin Held(p)
  BY <1>2 DEF Held, HandedOver
<1>4. \A q \in Proc : Held(q)' = Held(q) /\ com'[q] = com[q]
  BY <1>3, HeldOther DEF Others
<1>5. \A q \in Proc, x \in Msg : OwnsByTable(q, x)' <=> OwnsByTable(q, x)
  BY <1>1, <1>4 DEF OwnsByTable
<1>6. \A x : JobsBoundTo(x)' = JobsBoundTo(x)
  BY <1>1 DEF JobsBoundTo
<1>7. PipesOK'
  BY ZenonT(60), <1>1, PipeSame DEF SharedInv, PipesOK, PipesSame
<1>8. SharedInv'
  BY <1>1, <1>2, <1>4, <1>5, <1>7, PipeSame, SharedSame
<1>9. \A q \in Proc \ {p} : LocalOK(q)'
  BY <1>1, <1>6, LocalOther
<1> QED
  BY <1>1, <1>2, <1>3, <1>6, <1>8, <1>9

\* The write of p's job m failed: m is unbound from its piece and released.
LEMMA UnbindStep ==
  ASSUME MsgCounting, ShmTypeOK, SharedInv, \A q \in Proc : LocalOK(q), NEW p \in Proc, Others(p),
         PipesSame, Settled(p), NEW m \in Held(p), JobsBoundTo(m) = {}, com'[p] = com[p],
         common_job[m] = com[p], com[p] # m, com[p] # NoMsg => com[p] \in Held(p),
         unbind_and_release(p, m)
  PROVE  /\ SharedInv'
         /\ \A q \in Proc \ {p} : LocalOK(q)'
         /\ Held(p)' = Held(p) \ {m}
         /\ \A x \in Msg \ {m} : common_job'[x] = common_job[x]
         /\ \A x \in Msg : JobsBoundTo(x)' \subseteq JobsBoundTo(x)
         /\ \A x, y \in Msg \ {m} : Before(p, x, y) => Before(p, x, y)'
<1> DEFINE c == com[p]
<1>1. /\ m \in Msg /\ OwnsByTable(p, m) /\ NoMsg \notin Msg
      /\ \A q \in Proc \ {p} : m \notin Held(q)
      /\ owners_counter[m] = 1
  BY HeldUnbound, ShmAssumption
<1>2. /\ detach(p, m)
      /\ common_job' = [common_job EXCEPT ![m] = NoMsg]
      /\ owners_counter' = [x \in Msg |-> IF x \in {m, c} THEN Decrement(owners_counter[x])
                                          ELSE owners_counter[x]]
      /\ free_messages' = free_messages \cup {m}
  BY <1>1 DEF unbind_and_release
<1>3. /\ TablesOK'
      /\ TableOf(p)' = TableOf(p) \ {m}
      /\ \A x, y \in Msg \ {m} : Before(p, x, y) => Before(p, x, y)'
  BY <1>1, <1>2, DetachTable DEF SharedInv
<1>4. Held(p)' = Held(p) \ {m} /\ \A q \in Proc : Held(q) \subseteq Msg
  BY <1>3, HeldSettled, HeldType
<1>5. /\ common_job'[m] = NoMsg
      /\ \A x \in Msg \ {m} : common_job'[x] = common_job[x]
  BY <1>1, <1>2 DEF ShmTypeOK
<1>6. m \notin free_messages /\ ~InPipe(m) /\ \A j \in Msg \ free_messages : common_job[j] # m
  BY DEF SharedInv, HeldOK, JobsBoundTo
<1>7. \A x \in Msg : JobsBoundTo(x)' = IF x = c THEN JobsBoundTo(x) \ {m} ELSE JobsBoundTo(x)
  BY <1>1, <1>2, <1>5 DEF JobsBoundTo
<1>8. \A q \in Proc \ {p}, x \in Msg : OwnsByTable(q, x)' <=> OwnsByTable(q, x)
  BY ZenonT(60), <1>1, <1>4, <1>5, HeldOther DEF OwnsByTable, Others
<1>9. \A x \in Msg : OwnsByTable(p, x)' <=> OwnsByTable(p, x) /\ x # m
  BY <1>1, <1>4, <1>5 DEF OwnsByTable
<1>10. \A x \in Msg : Owned(x)' <=> Owned(x) /\ x # m
  <2> SUFFICES ASSUME NEW x \in Msg PROVE Owned(x)' <=> Owned(x) /\ x # m
    OBVIOUS
  <2>1. \A q \in Proc \ {p} : ~OwnsByTable(q, m)
    BY <1>1 DEF OwnsByTable
  <2> QED
    BY <1>8, <1>9, <2>1 DEF Owned
<1>11. c \in Msg => m \in JobsBoundTo(c) /\ Owned(c)
  BY <1>1, <1>6 DEF JobsBoundTo, Owned, OwnsByTable
<1> HIDE DEF c
<1>12. CountOK'
  <2> SUFFICES ASSUME NEW x \in Msg
               PROVE  /\ owners_counter'[x] = Cardinality(JobsBoundTo(x)')
                                                + (IF Owned(x)' \/ InPipe(x)' THEN 1 ELSE 0)
                      /\ x \in free_messages' <=> owners_counter'[x] = 0
    BY DEF CountOK
  <2>1. /\ owners_counter[x] = Cardinality(JobsBoundTo(x))
                                 + (IF Owned(x) \/ InPipe(x) THEN 1 ELSE 0)
        /\ x \in free_messages <=> owners_counter[x] = 0
        /\ InPipe(x)' <=> InPipe(x)
        /\ Cardinality(JobsBoundTo(x)) \in Nat
        /\ Cardinality(JobsBoundTo(x)) = 0 <=> JobsBoundTo(x) = {}
    BY PipeSame, BoundCount DEF SharedInv, CountOK
  <2>2. CASE x = m
    <3>1. owners_counter'[x] = 0
      BY SMTT(60), <1>1, <1>2, <2>2 DEF Decrement
    <3>2. JobsBoundTo(x)' = {} /\ ~Owned(x)' /\ ~InPipe(x)' /\ x \in free_messages'
      BY <1>2, <1>6, <1>7, <1>10, <2>1, <2>2
    <3> QED
      BY SMTT(60), <2>1, <2>2, <3>1, <3>2 DEF MsgCounting
  <2>3. CASE x = c /\ x # m
    <3>1. Cardinality(JobsBoundTo(x) \ {m}) = Cardinality(JobsBoundTo(x)) - 1
      BY <1>11, <2>3, BoundCount, RemoveOne
    <3>2. /\ Owned(x)' /\ Owned(x)
          /\ Cardinality(JobsBoundTo(x)') = Cardinality(JobsBoundTo(x)) - 1
          /\ x \in free_messages' <=> x \in free_messages
          /\ JobsBoundTo(x) # {}
      BY <1>2, <1>7, <1>10, <1>11, <2>3, <3>1
    <3>3. owners_counter'[x] = owners_counter[x] - 1
      BY SMTT(60), <1>2, <2>1, <2>3, <3>2 DEF Decrement
    <3> QED
      BY SMTT(60), <2>1, <3>2, <3>3
  <2>4. CASE x # m /\ x # c
    BY <1>2, <1>7, <1>10, <2>1, <2>4
  <2> QED
    BY <2>2, <2>3, <2>4
<1>13. HeldOK'
  <2>1. \A q \in Proc : \A x \in Held(q)' : x \in Held(q) /\ x # m /\ x \in Msg
    BY <1>1, <1>4, HeldOther
  <2>2. \A q \in Proc : \A x \in Held(q)' : x \notin free_messages' /\ ~InPipe(x)'
    BY <1>2, <2>1, PipeSame DEF SharedInv, HeldOK
  <2>3. \A q, r \in Proc, x \in Msg : OwnsByTable(q, x)' /\ OwnsByTable(r, x)' => q = r
    BY <1>8, <1>9 DEF SharedInv, HeldOK
  <2> QED
    BY <2>2, <2>3 DEF HeldOK
<1>14. BoundOK'
  BY ZenonT(60), <1>2, <1>5, <1>6, PipeSame DEF SharedInv, BoundOK, ShmTypeOK
<1>15. PipesOK'
  <2>1. \A q \in Proc, x \in Msg : ResultQueued(q, x) => InPipe(x)
    BY DEF ResultQueued, InPipe
  <2> QED
    BY ZenonT(60), <1>5, <1>6, <2>1, PipeSame DEF SharedInv, PipesOK, PipesSame
<1>16. \A x \in Msg : JobsBoundTo(x)' \subseteq JobsBoundTo(x)
  BY <1>7
<1>17. \A q \in Proc \ {p} : LocalOK(q)'
  <2> SUFFICES ASSUME NEW q \in Proc \ {p} PROVE LocalOK(q)'
    OBVIOUS
  <2>1. \A x \in Held(q) : x \in Msg \ {m}
    BY <1>1, <1>4
  <2> QED
    BY <1>5, <1>16, <2>1, LocalOther
<1> QED
  BY ZenonT(60), <1>3, <1>4, <1>5, <1>12, <1>13, <1>14, <1>15, <1>16, <1>17 DEF SharedInv

-----------------------------------------------------------------------------
(* A message leaves a pipe.                                                 *)

\* A message in a pipe has one owner, the pipe.
LEMMA PipedOwnedOnce ==
  ASSUME MsgCounting, ShmTypeOK, SharedInv, NEW m \in Msg, InPipe(m)
  PROVE  /\ m \notin free_messages
         /\ JobsBoundTo(m) = {}
         /\ owners_counter[m] = 1
         /\ \A q \in Proc : m \notin Held(q)
         /\ ~Owned(m)
         /\ common_job[m] # m
<1>1. m \notin free_messages
  BY CountUse DEF SharedInv
<1>2. JobsBoundTo(m) = {}
  BY ShmAssumption DEF JobsBoundTo, SharedInv, BoundOK
<1>3. \A q \in Proc : m \notin Held(q)
  BY DEF SharedInv, HeldOK
<1>4. ~Owned(m)
  BY <1>3 DEF Owned, OwnsByTable
<1>5. owners_counter[m] = 1
  BY <1>2, CountUse DEF SharedInv
<1>6. common_job[m] # m
  BY <1>1, <1>2 DEF JobsBoundTo
<1> QED
  BY <1>1, <1>2, <1>3, <1>4, <1>5, <1>6

\* p reads a response from its pipe and releases it.
LEMMA ReadStep ==
  ASSUME MsgCounting, ShmTypeOK, PipeTypeOK, SharedInv, \A q \in Proc : LocalOK(q), NEW p \in Proc, Others(p),
         Settled(p), com'[p] = com[p], result_pipe[p] # <<>>, UNCHANGED job_pipe,
         result_pipe' = [result_pipe EXCEPT ![p] = Tail(@)],
         attach_then_release(p, Head(result_pipe[p]))
  PROVE  /\ SharedInv'
         /\ \A q \in Proc \ {p} : LocalOK(q)'
         /\ Held(p)' = Held(p)
         /\ common_job' = common_job
         /\ attached' = attached
         /\ \A x \in Msg : JobsBoundTo(x)' = JobsBoundTo(x)
<1> DEFINE m == Head(result_pipe[p])
<1>1. UNCHANGED <<common_job, attached>>
  BY DEF attach_then_release
<1>2. /\ PipesOK'
      /\ m \in Msg
      /\ InPipe(m)
      /\ common_job[m] = NoMsg
      /\ \A x \in Msg : InPipe(x)' <=> InPipe(x) /\ x # m
  BY <1>1, ResultRead DEF SharedInv
<1>3. /\ m \notin free_messages /\ JobsBoundTo(m) = {} /\ owners_counter[m] = 1
      /\ \A q \in Proc : m \notin Held(q)
      /\ ~Owned(m)
  BY <1>2, PipedOwnedOnce
<1>4. /\ free_messages' = free_messages \cup {m}
      /\ owners_counter' = [owners_counter EXCEPT ![m] = 0]
  BY SMTT(60), <1>3 DEF attach_then_release, Decrement
<1> HIDE DEF m
<1>5. \A x \in Msg : JobsBoundTo(x)' = JobsBoundTo(x)
  BY <1>1, <1>2, <1>4, ShmAssumption DEF JobsBoundTo
<1>6. \A q \in Proc : Held(q)' = Held(q) /\ Held(q) \subseteq Msg /\ com'[q] = com[q]
  <2>1. TableOf(p)' = TableOf(p)
    BY <1>1 DEF TableOf
  <2> QED
    BY <2>1, HeldType, HeldOther, HeldSettled DEF Others
<1>7. \A q \in Proc, x \in Msg : OwnsByTable(q, x)' <=> OwnsByTable(q, x)
  BY <1>1, <1>6 DEF OwnsByTable
<1>8. \A x \in Msg : Owned(x)' <=> Owned(x)
  BY <1>7 DEF Owned
<1>9. CountOK'
  <2> SUFFICES ASSUME NEW x \in Msg
               PROVE  /\ owners_counter'[x] = Cardinality(JobsBoundTo(x)')
                                                + (IF Owned(x)' \/ InPipe(x)' THEN 1 ELSE 0)
                      /\ x \in free_messages' <=> owners_counter'[x] = 0
    BY DEF CountOK
  <2>1. /\ owners_counter[x] = Cardinality(JobsBoundTo(x))
                                 + (IF Owned(x) \/ InPipe(x) THEN 1 ELSE 0)
        /\ x \in free_messages <=> owners_counter[x] = 0
        /\ Cardinality(JobsBoundTo(x)) = 0 <=> JobsBoundTo(x) = {}
    BY BoundCount DEF SharedInv, CountOK
  <2>2. CASE x = m
    <3>1. /\ owners_counter'[x] = 0 /\ x \in free_messages'
          /\ ~Owned(x)' /\ ~InPipe(x)' /\ Cardinality(JobsBoundTo(x)') = 0
      BY <1>2, <1>3, <1>4, <1>5, <1>8, <2>1, <2>2 DEF ShmTypeOK
    <3> QED
      BY SMTT(60), <3>1
  <2>3. CASE x # m
    BY <1>2, <1>4, <1>5, <1>8, <2>1, <2>3 DEF ShmTypeOK
  <2> QED
    BY <2>2, <2>3
<1>10. HeldOK'
  <2>1. \A q \in Proc : \A x \in Held(q)' : x \in Held(q) /\ x # m /\ x \in Msg
    BY <1>3, <1>6
  <2>2. \A q \in Proc : \A x \in Held(q)' : x \notin free_messages' /\ ~InPipe(x)'
    BY <1>2, <1>4, <2>1 DEF SharedInv, HeldOK
  <2> QED
    BY <1>7, <2>2 DEF SharedInv, HeldOK
<1>11. BoundOK'
  BY <1>1, <1>2, <1>4 DEF SharedInv, BoundOK, ShmTypeOK
<1>12. TablesOK'
  BY <1>1 DEF SharedInv, TablesOK
<1>13. \A q \in Proc \ {p} : LocalOK(q)'
  <2> SUFFICES ASSUME NEW q \in Proc \ {p} PROVE LocalOK(q)'
    OBVIOUS
  <2> QED
    BY <1>1, <1>5, <1>6, LocalOther
<1> QED
  BY <1>1, <1>2, <1>5, <1>6, <1>9, <1>10, <1>11, <1>12, <1>13 DEF SharedInv

\* p, which holds nothing, reads a job from the pipe.
LEMMA TakeStep ==
  ASSUME MsgCounting, ShmTypeOK, PipeTypeOK, SharedInv, \A q \in Proc : LocalOK(q), NEW p \in Proc, Others(p),
         Settled(p), com'[p] = com[p], job_pipe # <<>>, NEW m, m = Head(job_pipe), UNCHANGED result_pipe,
         \A i \in Slot : attached[p][i] = NoMsg,
         job_pipe' = Tail(job_pipe), attach_shared_message_to_this_proc(p, m)
  PROVE  /\ SharedInv'
         /\ \A q \in Proc \ {p} : LocalOK(q)'
         /\ m \in Msg
         /\ Held(p)' = {m}
         /\ common_job' = common_job
         /\ \A i \in Slot : attached'[p][i] = IF i = 1 THEN m ELSE NoMsg
         /\ JobsBoundTo(m)' = {}
<1>1. attach(p, m) /\ UNCHANGED <<free_messages, owners_counter, common_job>>
  BY DEF attach_shared_message_to_this_proc
<1>2. /\ PipesOK'
      /\ m \in Msg
      /\ InPipe(m)
      /\ \A x \in Msg : InPipe(x)' <=> InPipe(x) /\ x # m
  BY <1>1, JobRead DEF SharedInv
<1>3. /\ m \notin free_messages /\ JobsBoundTo(m) = {} /\ owners_counter[m] = 1
      /\ \A q \in Proc : m \notin Held(q)
      /\ ~Owned(m) /\ common_job[m] # m
  BY <1>2, PipedOwnedOnce
<1>4. \A x : JobsBoundTo(x)' = JobsBoundTo(x)
  BY <1>1 DEF JobsBoundTo
<1>5. Held(p) = {} /\ TableOf(p) = {}
  BY HeldSettled DEF TableOf
<1>6. TablesOK' /\ Held(p)' = {m}
  BY <1>1, <1>2, <1>5, AttachTable, HeldSettled DEF SharedInv
<1>7. \A i \in Slot : attached'[p][i] = IF i = 1 THEN m ELSE NoMsg
  <2>1. PICK k \in Slot : /\ FirstAt(p, NoMsg, k)
                          /\ attached' = [attached EXCEPT ![p] = [@ EXCEPT ![k] = m]]
    BY <1>1 DEF attach, replace
  <2>2. k = 1
    BY SMTT(60), <2>1, ShmAssumption DEF FirstAt, Slot
  <2> QED
    BY <2>1, <2>2 DEF ShmTypeOK
<1>8. \A q \in Proc \ {p} : Held(q)' = Held(q) /\ Held(q) \subseteq Msg /\ com'[q] = com[q]
  BY HeldType, HeldOther DEF Others
<1>9. \A q \in Proc \ {p}, x \in Msg : OwnsByTable(q, x)' <=> OwnsByTable(q, x)
  BY <1>1, <1>8 DEF OwnsByTable
<1>10. \A x \in Msg : (OwnsByTable(p, x)' <=> x = m) /\ ~OwnsByTable(p, x)
  BY <1>1, <1>3, <1>5, <1>6 DEF OwnsByTable
<1>11. \A x \in Msg : Owned(x)' <=> Owned(x) \/ x = m
  <2> SUFFICES ASSUME NEW x \in Msg PROVE Owned(x)' <=> Owned(x) \/ x = m
    OBVIOUS
  <2> QED
    BY <1>9, <1>10 DEF Owned
<1>12. CountOK'
  BY <1>1, <1>2, <1>3, <1>4, <1>11 DEF SharedInv, CountOK
<1>13. HeldOK'
  <2>1. \A q \in Proc : \A x \in Held(q)' : x = m \/ (x \in Held(q) /\ x \in Msg)
    BY SMTT(60), <1>6, <1>8
  <2>2. \A q \in Proc : \A x \in Held(q)' : x \notin free_messages' /\ ~InPipe(x)'
    BY <1>1, <1>2, <1>3, <2>1 DEF SharedInv, HeldOK
  <2>3. \A q, r \in Proc, x \in Msg : OwnsByTable(q, x)' /\ OwnsByTable(r, x)' => q = r
    BY SMTT(60), <1>3, <1>9, <1>10 DEF SharedInv, HeldOK, Owned
  <2> QED
    BY <2>2, <2>3 DEF HeldOK
<1>14. BoundOK'
  BY <1>1, <1>2 DEF SharedInv, BoundOK, ShmTypeOK
<1>15. \A q \in Proc \ {p} : LocalOK(q)'
  BY <1>1, <1>4, LocalOther
<1> QED
  BY ZenonT(60), <1>1, <1>2, <1>3, <1>4, <1>6, <1>7, <1>12, <1>13, <1>14, <1>15 DEF SharedInv

\* p attaches the piece of the job it has read.
LEMMA AttachPieceStep ==
  ASSUME MsgCounting, ShmTypeOK, SharedInv, \A q \in Proc : LocalOK(q), NEW p \in Proc, Others(p), PipesSame,
         Settled(p), com[p] = NoMsg, com'[p] = NoMsg, NEW j \in Held(p), Held(p) = {j},
         NEW c, common_job[j] = c, c # NoMsg, attached[p][1] = j,
         attach_shared_message_to_this_proc(p, c)
  PROVE  /\ SharedInv'
         /\ \A q \in Proc \ {p} : LocalOK(q)'
         /\ Held(p)' = {j, c}
         /\ common_job' = common_job
         /\ common_job[c] = NoMsg
         /\ JobsBoundTo(j)' = {}
         /\ Before(p, j, c)'
<1>1. attach(p, c) /\ UNCHANGED <<free_messages, owners_counter, common_job>>
  BY DEF attach_shared_message_to_this_proc
<1>2. j \in Msg \ free_messages /\ c \in Msg
  BY HeldType DEF SharedInv, HeldOK, ShmTypeOK
<1>3. OwnsByTable(p, j) /\ JobsBoundTo(j) = {}
  BY BoundJobOwnedOnce
<1>4. common_job[c] = NoMsg /\ ~InPipe(c) /\ j \in JobsBoundTo(c)
  BY <1>2 DEF SharedInv, BoundOK, JobsBoundTo
<1>5. c \notin free_messages /\ c # j
  BY <1>2, <1>3, <1>4, CountUse DEF SharedInv
<1>6. \A x : JobsBoundTo(x)' = JobsBoundTo(x)
  BY <1>1 DEF JobsBoundTo
<1>7. TablesOK' /\ Held(p)' = {j, c} /\ NoMsg \notin Msg
  <2>1. c \notin TableOf(p) /\ TableOf(p) = {j}
    BY <1>5, HeldSettled
  <2> QED
    BY SMTT(60), <1>1, <1>2, <2>1, AttachTable, HeldSettled, ShmAssumption DEF SharedInv
<1>8. Before(p, j, c)'
  <2>1. PICK k \in Slot : /\ FirstAt(p, NoMsg, k)
                          /\ attached' = [attached EXCEPT ![p] = [@ EXCEPT ![k] = c]]
    BY <1>1 DEF attach, replace
  <2>2. k # 1 /\ 1 \in Slot
    BY SMTT(60), <1>2, <1>7, <2>1, ShmAssumption DEF FirstAt, Slot
  <2>3. attached'[p][1] = j /\ attached'[p][k] = c
    BY <2>1, <2>2 DEF ShmTypeOK
  <2>4. 1 < k
    BY SMTT(60), <2>2 DEF Slot
  <2> QED
    BY <2>2, <2>3, <2>4 DEF Before
<1>9. \A q \in Proc \ {p} : Held(q)' = Held(q) /\ Held(q) \subseteq Msg /\ com'[q] = com[q]
  BY HeldType, HeldOther DEF Others
<1>10. \A q \in Proc \ {p}, x \in Msg : OwnsByTable(q, x)' <=> OwnsByTable(q, x)
  BY <1>1, <1>9 DEF OwnsByTable
<1>11. \A x \in Msg : OwnsByTable(p, x)' <=> OwnsByTable(p, x)
  <2>1. common_job'[j] = c /\ common_job'[c] = NoMsg /\ common_job[j] = c
    BY <1>1, <1>4
  <2> QED
    BY <1>5, <1>7, <2>1 DEF OwnsByTable
<1>12. \A x \in Msg : Owned(x)' <=> Owned(x)
  BY <1>10, <1>11 DEF Owned
<1>13. CountOK'
  BY <1>1, <1>6, <1>12, PipeSame DEF SharedInv, CountOK
<1>14. HeldOK'
  <2>1. \A q \in Proc : \A x \in Held(q)' : x = c \/ x \in Held(q)
    BY <1>7, <1>9
  <2>2. \A q \in Proc : \A x \in Held(q)' : x \notin free_messages' /\ ~InPipe(x)'
    BY ZenonT(60), <1>1, <1>4, <1>5, <2>1, PipeSame DEF SharedInv, HeldOK
  <2> QED
    BY <1>10, <1>11, <2>2 DEF SharedInv, HeldOK
<1>15. BoundOK' /\ PipesOK'
  <2>1. BoundOK'
    BY <1>1, PipeSame DEF SharedInv, BoundOK, ShmTypeOK
  <2>2. PipesOK'
    BY ZenonT(60), <1>1, PipeSame DEF SharedInv, PipesOK, PipesSame
  <2> QED
    BY <2>1, <2>2
<1>16. \A q \in Proc \ {p} : LocalOK(q)'
  BY <1>1, <1>6, LocalOther
<1> QED
  BY <1>1, <1>3, <1>4, <1>6, <1>7, <1>8, <1>13, <1>14, <1>15, <1>16 DEF SharedInv
=============================================================================
