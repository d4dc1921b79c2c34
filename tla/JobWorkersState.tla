-------------------------- MODULE JobWorkersState --------------------------
(***************************************************************************)
(* The state of the workers that start and run jobs, of the pipes between  *)
(* them, and who has which message.  The steps are in JobWorkers.          *)
(***************************************************************************)
EXTENDS SharedMemoryManager, Sequences

CONSTANTS
  JobWorker,           \* the processes that run jobs; the others are general workers
  JobBudget,           \* how many job ids each process may create (bounds the model)
  JobPipeCapacity,     \* addresses the job pipe holds
  ResultPipeCapacity,  \* addresses a result pipe holds
  MaxStops,            \* how many SIGTERMs and kills may happen (bounds the model)
  KillInWindow         \* may a process die inside the windows of HandoverWindow and LoseRead

ASSUME JobAssumption ==
  /\ JobWorker \subseteq Proc
  /\ JobBudget \in [Proc -> Nat]
  /\ JobPipeCapacity \in Nat \ {0}
  /\ ResultPipeCapacity \in Nat \ {0}
  /\ MaxStops \in Nat
  /\ KillInWindow \in BOOLEAN

VARIABLES
  job_pipe,        \* JobWorkersContext::job_pipe
  result_pipe,     \* JobWorkersContext::result_pipes, by client slot
  metadata,        \* job_id, job_result_fd_idx and no_reply of each message
  pc,              \* program point of each process
  msg,             \* the message a process is filling, sending or has just sent
  com,             \* the common piece of a running kphp_job_worker_start_multi
  no_reply,        \* the no_reply argument of the job being sent
  stopped,         \* the script has finished or failed and is being taken down
  begin_slot_id,   \* SlotIdsFactory of job ids: the running script's ids are
  end_slot_id,     \*   begin_slot_id .. end_slot_id - 1
  processing,      \* ProcessingJobs::processing_: ids of the jobs waited for
  net_events,      \* ids of the answers queued for the script
  running_job,     \* JobWorkerServer::running_job
  current_job,     \* current_job.job_request of server-functions.cpp
  reply_was_sent,  \* JobWorkerServer::reply_was_sent
  armed,           \* the job pipe is armed in this worker's epoll (EPOLLONESHOT)
  event,           \* a read of the job pipe is due (epoll event or C_REPARSE)
  sigterm_on,      \* SIGTERM was received
  stops,           \* SIGTERMs and kills so far
  sent_ids,        \* history: ids created by the script running now (or last)
  replied          \* history: the jobs <<client, job id>> a response was written for

pipeVars == <<job_pipe, result_pipe, metadata, replied>>
ctlVars  == <<msg, com, no_reply, stopped>>
idVars   == <<begin_slot_id, end_slot_id, sent_ids>>
waitVars == <<processing, net_events>>
jobVars  == <<running_job, current_job, reply_was_sent>>
pollVars == <<armed, event>>
stopVars == <<sigterm_on, stops>>

vars == <<shmVars, pipeVars, pc, ctlVars, idVars, waitVars, jobVars, pollVars, stopVars>>

Point ==
  { "dead",      \* no process has this slot
    "starting",  \* forked; releasing what its predecessor left attached
    "idle",      \* in the event loop, no script
    "parse",     \* job_parse_execute: job attached, its common piece not yet
    "ready",     \* PhpWorker made for a job, its script not started
    "script",    \* the script runs, or waits in the event loop
    "common",    \* start_multi: the common piece is being filled
    "multi",     \* start_multi: between two of its jobs
    "request",   \* a job request is being filled
    "bind",      \* send_job_request_message: before bind_common_job
    "write",     \* before the write to the job pipe
    "sent",      \* after it, before the message is detached
    "warn",      \* the write failed, the message is released, the warning not yet made
    "response",  \* store_response: the response is being filled
    "reply",     \* before send_job_reply
    "replied",   \* after its write, before the response is detached
    "error",     \* the script is over: an error response is due
    "free",      \* state_free_script
    "finish" }   \* state_finish: clear_shared_job_messages

PipeTypeOK ==
  /\ job_pipe \in Seq(Msg)
  /\ result_pipe \in [Proc -> Seq(Msg)]
  /\ metadata \in [Msg -> [job_id : Nat, fd : Proc, no_reply : BOOLEAN]]
  /\ replied \subseteq Proc \X Nat

CtlTypeOK ==
  /\ pc \in [Proc -> Point]
  /\ msg \in [Proc -> Msg \cup {NoMsg}]
  /\ com \in [Proc -> Msg \cup {NoMsg}]
  /\ no_reply \in [Proc -> BOOLEAN]
  /\ stopped \in [Proc -> BOOLEAN]

IdTypeOK ==
  /\ begin_slot_id \in [Proc -> Nat]
  /\ end_slot_id \in [Proc -> Nat]
  /\ sent_ids \in [Proc -> SUBSET Nat]
  /\ processing \in [Proc -> SUBSET Nat]
  /\ net_events \in [Proc -> SUBSET Nat]

ServerTypeOK ==
  /\ running_job \in [Proc -> Msg \cup {NoMsg}]
  /\ current_job \in [Proc -> Msg \cup {NoMsg}]
  /\ reply_was_sent \in [Proc -> BOOLEAN]
  /\ armed \in [Proc -> BOOLEAN]
  /\ event \in [Proc -> BOOLEAN]
  /\ sigterm_on \in [Proc -> BOOLEAN]
  /\ stops \in Nat

TypeOK == ShmTypeOK /\ PipeTypeOK /\ CtlTypeOK /\ IdTypeOK /\ ServerTypeOK

At(p, point) == pc[p] = point

-----------------------------------------------------------------------------
(* Who has a message.                                                       *)

InPipe(m) ==
  \/ \E i \in 1..Len(job_pipe) : job_pipe[i] = m
  \/ \E p \in Proc : \E i \in 1..Len(result_pipe[p]) : result_pipe[p][i] = m

\* p has handed m over and its table does not say so yet.
HandedOver(p, m) == pc[p] \in {"sent", "replied"} /\ msg[p] = m

Held(p) == {m \in TableOf(p) : ~HandedOver(p, m)}

\* p's table entry for m stands for one unit of m's counter.  The entry a job
\* worker makes for the common piece of its job does not: the job's own
\* reference to the piece is the one that counts.
OwnsByTable(p, m) ==
  /\ m \in Held(p)
  /\ com[p] = m \/ \A j \in Held(p) : common_job[j] # m

JobsBoundTo(c) == {m \in Msg \ free_messages : common_job[m] = c}
=============================================================================
