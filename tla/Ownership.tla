----------------------------- MODULE Ownership -----------------------------
(***************************************************************************)
(* The inductive invariant behind OwnersCounted and RunningJobIsSafe: who  *)
(* owns a message, what its counter is, and what a process knows of the    *)
(* messages in its hands at each program point.                            *)
(***************************************************************************)
EXTENDS JobWorkersState

\* The points at which a process works on msg[p].
MsgPoint == {"request", "bind", "write", "sent", "warn", "response", "reply", "replied"}

\* The points at which a script, and the job it runs, exist.
ScriptPoint == {"script", "common", "multi", "error", "free"} \cup MsgPoint

\* x is in a lower slot of p's table than y.
Before(p, x, y) == \E i, k \in Slot : i < k /\ attached[p][i] = x /\ attached[p][k] = y

JobQueued(m) == \E i \in 1..Len(job_pipe) : job_pipe[i] = m
ResultQueued(p, m) == \E i \in 1..Len(result_pipe[p]) : result_pipe[p][i] = m

Owned(m) == \E p \in Proc : OwnsByTable(p, m)

\* No message is twice in a table.
TablesOK ==
  \A p \in Proc : \A i, k \in Slot :
    attached[p][i] = attached[p][k] /\ attached[p][i] # NoMsg => i = k

\* A message is in one pipe, once; a response has no piece.
PipesOK ==
  /\ \A i, k \in 1..Len(job_pipe) : job_pipe[i] = job_pipe[k] => i = k
  /\ \A p \in Proc : \A i, k \in 1..Len(result_pipe[p]) :
       result_pipe[p][i] = result_pipe[p][k] => i = k
  /\ \A p \in Proc, m \in Msg : ResultQueued(p, m) =>
       /\ common_job[m] = NoMsg
       /\ ~JobQueued(m)
       /\ \A q \in Proc : ResultQueued(q, m) => q = p

\* A message that a process holds is in use and in no pipe, and one process owns it.
HeldOK ==
  /\ \A p \in Proc : \A m \in Held(p) : m \notin free_messages /\ ~InPipe(m)
  /\ \A p, q \in Proc, m \in Msg : OwnsByTable(p, m) /\ OwnsByTable(q, m) => p = q

\* The common piece of a job in use is in no pipe and has no piece itself.
BoundOK ==
  \A j \in Msg \ free_messages : common_job[j] # NoMsg =>
    /\ ~InPipe(common_job[j])
    /\ common_job[common_job[j]] = NoMsg

\* The counter of a message: the jobs bound to it, and one for its owner.
CountOK ==
  \A m \in Msg :
    /\ owners_counter[m] =
         Cardinality(JobsBoundTo(m)) + (IF Owned(m) \/ InPipe(m) THEN 1 ELSE 0)
    /\ m \in free_messages <=> owners_counter[m] = 0

(* What p knows of the messages in its hands.                               *)

\* A job that p holds comes with its piece: further down the table; or not
\* attached yet; or, in the client between the bind and the write, as com[p].
\* A piece comes with one job.
PiecesOK(p) ==
  /\ \A j \in Held(p) : common_job[j] # NoMsg =>
       \/ At(p, "parse") /\ running_job[p] = j
       \/ At(p, "write") /\ msg[p] = j /\ com[p] = common_job[j]
       \/ /\ com[p] # common_job[j]
          /\ common_job[j] \in Held(p)
          /\ Before(p, j, common_job[j])
  /\ \A j, k \in Held(p) : common_job[j] = common_job[k] /\ common_job[j] # NoMsg => j = k

ComOK(p) == com[p] # NoMsg => com[p] \in Held(p) /\ common_job[com[p]] = NoMsg

MsgOK(p) ==
  pc[p] \in {"request", "bind", "write", "response", "reply"} =>
    /\ msg[p] \in Held(p)
    /\ msg[p] # com[p]
    /\ common_job[msg[p]] = IF At(p, "write") THEN com[p] ELSE NoMsg
    /\ JobsBoundTo(msg[p]) = {}

JobOK(p) ==
  pc[p] \in {"parse", "ready"} \cup ScriptPoint /\ running_job[p] # NoMsg =>
    /\ running_job[p] \in Held(p)
    /\ running_job[p] # com[p]
    /\ running_job[p] # msg[p]
    /\ JobsBoundTo(running_job[p]) = {}

TakenOK(p) ==
  /\ At(p, "idle") => \A i \in Slot : attached[p][i] = NoMsg
  /\ At(p, "parse") =>
       /\ running_job[p] # NoMsg
       /\ attached[p][1] = running_job[p]
       /\ \A i \in Slot : i # 1 => attached[p][i] = NoMsg
       /\ common_job[running_job[p]] # NoMsg

LocalOK(p) == PiecesOK(p) /\ ComOK(p) /\ MsgOK(p) /\ JobOK(p) /\ TakenOK(p)

OwnershipInv ==
  /\ TablesOK
  /\ PipesOK
  /\ HeldOK
  /\ BoundOK
  /\ CountOK
  /\ \A p \in Proc : LocalOK(p)

\* Which local variables are set at which point.
PointOK ==
  \A p \in Proc :
    /\ pc[p] \in MsgPoint <=> msg[p] # NoMsg
    /\ pc[p] \in {"common", "multi", "bind"} => com[p] # NoMsg
    /\ com[p] # NoMsg =>
         pc[p] \in {"common", "multi", "request", "bind", "write", "sent", "warn"}
    /\ pc[p] \in {"parse", "ready", "error", "response", "reply", "replied"} =>
         running_job[p] # NoMsg
    /\ pc[p] \in {"dead", "starting", "idle"} => running_job[p] = NoMsg
    /\ current_job[p] = IF pc[p] \in ScriptPoint THEN running_job[p] ELSE NoMsg

\* All but what p itself knows.
SharedInv == TablesOK /\ PipesOK /\ HeldOK /\ BoundOK /\ CountOK

\* What the proofs use of Cardinality.  JobWorkersTheorems shows that it holds,
\* since Msg is finite.
MsgCounting ==
  \A S \in SUBSET Msg :
    /\ Cardinality(S) \in Nat
    /\ Cardinality(S) = 0 <=> S = {}
    /\ \A m \in Msg \ S : Cardinality(S \cup {m}) = Cardinality(S) + 1
    /\ S # Msg => Cardinality(S) < Cardinality(Msg)

\* The other processes are where they were.
Others(p) ==
  \A q \in Proc \ {p} :
    /\ attached'[q] = attached[q]
    /\ pc'[q] = pc[q]
    /\ msg'[q] = msg[q]
    /\ com'[q] = com[q]
    /\ running_job'[q] = running_job[q]

\* What is known where a step of p starts, and what the step leaves alone.
StepFrom(p) == MsgCounting /\ TypeOK /\ TypeOK' /\ PointOK /\ OwnershipInv /\ Others(p)
=============================================================================
