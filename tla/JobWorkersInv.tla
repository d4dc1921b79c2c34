--------------------------- MODULE JobWorkersInv ---------------------------
(***************************************************************************)
(* The inductive invariants from which the properties of JobWorkers are    *)
(* proved: ScriptInv in JobWorkersProofs, OwnershipInv of Ownership in     *)
(* OwnershipProofs, and on top of these two SlotsOK (what a process has in *)
(* its table), ExtraOK (where the extra buffers are), RepliesOK (which     *)
(* jobs may still be replied to) and FreshOK (a piece that is being filled *)
(* belongs to no job) in JobWorkersTheorems.                               *)
(***************************************************************************)
EXTENDS JobWorkers, Ownership

\* The ids of the running script are the ones the slot factory calls current;
\* without a script none is current and nothing is waited for.
IdsOK ==
  \A p \in Proc :
    /\ begin_slot_id[p] .. (end_slot_id[p] - 1) \subseteq sent_ids[p]
    /\ begin_slot_id[p] <= end_slot_id[p]
    /\ pc[p] \in {"bind", "write", "sent"} => begin_slot_id[p] < end_slot_id[p]
    /\ processing[p] \subseteq sent_ids[p]
    /\ net_events[p] \subseteq sent_ids[p]
    /\ pc[p] \notin ScriptPoint =>
         /\ begin_slot_id[p] = end_slot_id[p]
         /\ processing[p] = {}
         /\ net_events[p] = {}

ScriptInv == TypeOK /\ PointOK /\ IdsOK

\* The job that p runs and its common piece.
JobPieces(p) ==
  IF running_job[p] = NoMsg THEN {} ELSE {running_job[p], common_job[running_job[p]]}

\* What the table of p may hold.  While a script runs: its job, the message it
\* works on and, inside start_multi, the common piece.  When it was stopped:
\* whatever it had of these.
RoomOK(p) ==
  /\ stopped[p] => pc[p] \in {"error", "reply", "replied", "free", "finish"}
  /\ pc[p] \in {"ready"} \cup (ScriptPoint \ {"error", "free"}) /\ ~stopped[p] =>
       TableOf(p) \subseteq JobPieces(p) \cup {com[p], msg[p]}
  /\ At(p, "error") =>
       /\ stopped[p]
       /\ \E x, y \in Msg \cup {NoMsg} : TableOf(p) \subseteq JobPieces(p) \cup {x, y}
  /\ pc[p] \in {"sent", "replied"} => msg[p] \in TableOf(p)
  /\ At(p, "warn") => msg[p] \notin TableOf(p)

SlotsOK == \A p \in Proc : RoomOK(p)

\* Every buffer that is not free is chained to one message, which is in use.
ExtraOK ==
  /\ \A m \in free_messages : extra[m] = {}
  /\ \A m \in Msg : extra[m] \cap free_extra = {}
  /\ \A m, n \in Msg : m # n => extra[m] \cap extra[n] = {}
  /\ \A b \in Buffer \ free_extra : \E m \in Msg : b \in extra[m]

\* m is a job that a response may still be written for.
Unanswered(m) ==
  \/ JobQueued(m)
  \/ \E p \in Proc : msg[p] = m /\ pc[p] \in {"bind", "write"}
  \/ \E p \in Proc : /\ running_job[p] = m /\ ~reply_was_sent[p]
                     /\ pc[p] \in {"parse", "ready"} \cup ScriptPoint

JobOf(m) == <<metadata[m].fd, metadata[m].job_id>>

\* No two messages are the same job, and what was replied to is none of them.
RepliesOK ==
  /\ \A m \in Msg : Unanswered(m) =>
       JobOf(m) \notin replied /\ metadata[m].job_id < end_slot_id[metadata[m].fd]
  /\ \A m, n \in Msg : Unanswered(m) /\ Unanswered(n) /\ JobOf(m) = JobOf(n) => m = n
  /\ \A r \in replied : r[2] < end_slot_id[r[1]]

\* No job is bound to a common piece that is still being filled.
FreshOK == \A p \in Proc : At(p, "common") => JobsBoundTo(com[p]) = {}
=============================================================================
