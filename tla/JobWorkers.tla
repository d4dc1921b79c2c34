---------------------------- MODULE JobWorkers ----------------------------
(***************************************************************************)
(* Jobs: a worker (the client) copies a request into a shared message and  *)
(* writes its address to the job pipe; some job worker reads it, runs the  *)
(* script, and writes the address of a response to the client's result     *)
(* pipe.  Workers end scripts, time out, run out of messages, find pipes   *)
(* full, get SIGTERM, die, and are replaced by the master.                 *)
(*                                                                         *)
(* Each process is at one program point pc[p].  A step of the model is the *)
(* code between two points at which another process can see a difference.  *)
(***************************************************************************)
EXTENDS JobWorkersState

Init ==
  /\ ShmInit
  /\ job_pipe = <<>>
  /\ result_pipe = [p \in Proc |-> <<>>]
  /\ metadata = [m \in Msg |-> [job_id |-> 0, fd |-> CHOOSE p \in Proc : TRUE,
                                no_reply |-> FALSE]]
  /\ pc = [p \in Proc |-> "starting"]
  /\ msg = [p \in Proc |-> NoMsg]
  /\ com = [p \in Proc |-> NoMsg]
  /\ no_reply = [p \in Proc |-> FALSE]
  /\ stopped = [p \in Proc |-> FALSE]
  /\ begin_slot_id = [p \in Proc |-> 0]
  /\ end_slot_id = [p \in Proc |-> 0]
  /\ processing = [p \in Proc |-> {}]
  /\ net_events = [p \in Proc |-> {}]
  /\ running_job = [p \in Proc |-> NoMsg]
  /\ current_job = [p \in Proc |-> NoMsg]
  /\ reply_was_sent = [p \in Proc |-> FALSE]
  /\ armed = [p \in Proc |-> FALSE]
  /\ event = [p \in Proc |-> FALSE]
  /\ sigterm_on = [p \in Proc |-> FALSE]
  /\ stops = 0
  /\ sent_ids = [p \in Proc |-> {}]
  /\ replied = {}

Goto(p, point) == pc' = [pc EXCEPT ![p] = point]

\* epoll is polled between scripts and whenever a script waits (wait_net_events).
InEventLoop(p) == pc[p] \in {"idle", "script"}

-----------------------------------------------------------------------------
(* The client: kphp_job_worker_start, _start_no_reply and _start_multi.     *)

AfterJob(p) == IF com[p] = NoMsg THEN "script" ELSE "multi"

\* make_job_request_message<JobSharedMessage>: the acquire.  When there is no
\* free message the call returns without effect.
StartJob(p) ==
  /\ pc[p] \in {"script", "multi"}
  /\ end_slot_id[p] < JobBudget[p]
  /\ \E m \in Msg :
       /\ acquire_shared_message(p, m)
       /\ msg' = [msg EXCEPT ![p] = m]
  /\ Goto(p, "request")
  /\ UNCHANGED <<pipeVars, com, no_reply, stopped, idVars, waitVars, jobVars, pollVars, stopVars>>

\* kphp_job_worker_start_multi: make_job_request_message<JobSharedMemoryPiece>.
StartMulti(p) ==
  /\ At(p, "script")
  /\ end_slot_id[p] < JobBudget[p]
  /\ \E c \in Msg :
       /\ acquire_shared_message(p, c)
       /\ com' = [com EXCEPT ![p] = c]
  /\ Goto(p, "common")
  /\ UNCHANGED <<pipeVars, msg, no_reply, stopped, idVars, waitVars, jobVars, pollVars, stopVars>>

\* The message copy_instance_into_other_memory is filling.
Filling(p) == IF At(p, "common") THEN com[p] ELSE msg[p]

\* The groups that have a size a copy may ask for.
CopyGroups == {BufferGroup[b] : b \in Buffer}

\* The end of a copy that was refused.
AfterTooBig(p) == IF At(p, "request") THEN AfterJob(p) ELSE "script"

\* The copy outgrows its memory and gets one more buffer.
CopyGrows(p) ==
  /\ pc[p] \in {"common", "request", "response"}
  /\ \E g \in CopyGroups : request_extra_memory_for_resource(Filling(p), g)
  /\ UNCHANGED <<pipeVars, pc, ctlVars, idVars, waitVars, jobVars, pollVars, stopVars>>

\* Faulty: the refused message is not released.
TooBigLeaks(p) ==
  /\ pc[p] \in {"common", "request", "response"}
  /\ msg' = [msg EXCEPT ![p] = NoMsg]
  /\ com' = IF At(p, "common") THEN [com EXCEPT ![p] = NoMsg] ELSE com
  /\ Goto(p, AfterTooBig(p))
  /\ UNCHANGED <<shmVars, pipeVars, no_reply, stopped, idVars, waitVars, jobVars, pollVars,
                 stopVars>>

\* "too big request", "too big response": there is no buffer for the copy.  A copy may
\* always ask for more than the largest group has.
CopyTooBig(p) ==
  /\ pc[p] \in {"common", "request", "response"}
  /\ release_shared_message(p, Filling(p))
  /\ msg' = [msg EXCEPT ![p] = NoMsg]
  /\ com' = IF At(p, "common") THEN [com EXCEPT ![p] = NoMsg] ELSE com
  /\ Goto(p, AfterTooBig(p))
  /\ UNCHANGED <<pipeVars, no_reply, stopped, idVars, waitVars, jobVars, pollVars, stopVars>>

CommonFilled(p) ==
  /\ At(p, "common")
  /\ Goto(p, "multi")
  /\ UNCHANGED <<shmVars, pipeVars, ctlVars, idVars, waitVars, jobVars, pollVars, stopVars>>

\* init_job_request_metadata.  Only single jobs may be no-reply.
RequestFilled(p, nr) ==
  /\ At(p, "request")
  /\ nr => com[p] = NoMsg
  /\ metadata' = [metadata EXCEPT ![msg[p]] =
       [job_id |-> end_slot_id[p], fd |-> p, no_reply |-> nr]]
  /\ end_slot_id' = [end_slot_id EXCEPT ![p] = @ + 1]
  /\ sent_ids' = [sent_ids EXCEPT ![p] = @ \cup {end_slot_id[p]}]
  /\ no_reply' = [no_reply EXCEPT ![p] = nr]
  /\ Goto(p, IF com[p] = NoMsg THEN "write" ELSE "bind")
  /\ UNCHANGED <<shmVars, job_pipe, result_pipe, replied, msg, com, stopped, begin_slot_id,
                 waitVars, jobVars, pollVars, stopVars>>

BindCommon(p) ==
  /\ At(p, "bind")
  /\ bind_common_job(msg[p], com[p])
  /\ Goto(p, "write")
  /\ UNCHANGED <<pipeVars, ctlVars, idVars, waitVars, jobVars, pollVars, stopVars>>

\* JobWorkerClient::send_job: from here on the message belongs to its reader.
SendJob(p) ==
  /\ At(p, "write")
  /\ Len(job_pipe) < JobPipeCapacity
  /\ job_pipe' = Append(job_pipe, msg[p])
  /\ Goto(p, "sent")
  /\ UNCHANGED <<shmVars, result_pipe, metadata, replied, ctlVars, idVars, waitVars, jobVars,
                 pollVars, stopVars>>

\* The pipe is full: unbind, release, leave the critical section.
SendJobFails(p) ==
  /\ At(p, "write")
  /\ Len(job_pipe) = JobPipeCapacity
  /\ unbind_and_release(p, msg[p])
  /\ Goto(p, "warn")
  /\ UNCHANGED <<pipeVars, ctlVars, idVars, waitVars, jobVars, pollVars, stopVars>>

WarnQueueIsFull(p) ==
  /\ At(p, "warn")
  /\ msg' = [msg EXCEPT ![p] = NoMsg]
  /\ no_reply' = [no_reply EXCEPT ![p] = FALSE]
  /\ Goto(p, AfterJob(p))
  /\ UNCHANGED <<shmVars, pipeVars, com, stopped, idVars, waitVars, jobVars, pollVars, stopVars>>

\* The end of send_job_request_message.  The id is the local copy of the last
\* one created: the message may already be freed, and be another job's.
JobSent(p) ==
  /\ At(p, "sent")
  /\ detach_shared_message_from_this_proc(p, msg[p])
  /\ msg' = [msg EXCEPT ![p] = NoMsg]
  /\ processing' = IF no_reply[p] THEN processing
                   ELSE [processing EXCEPT ![p] = @ \cup {end_slot_id[p] - 1}]
  /\ no_reply' = [no_reply EXCEPT ![p] = FALSE]
  /\ Goto(p, AfterJob(p))
  /\ UNCHANGED <<pipeVars, com, stopped, idVars, net_events, jobVars, pollVars, stopVars>>

\* The end of kphp_job_worker_start_multi: the client's own hold on the piece.
MultiDone(p) ==
  /\ At(p, "multi")
  /\ release_shared_message(p, com[p])
  /\ com' = [com EXCEPT ![p] = NoMsg]
  /\ Goto(p, "script")
  /\ UNCHANGED <<pipeVars, msg, no_reply, stopped, idVars, waitVars, jobVars, pollVars, stopVars>>

-----------------------------------------------------------------------------
(* Answers, back in the client.                                             *)

\* Faulty: ids of earlier scripts pass.
IsNotFromFuture(p, id) == id < end_slot_id[p]

\* SlotIdsFactory::is_from_current_script_execution.
IsFromCurrentScript(p, id) == begin_slot_id[p] <= id /\ id < end_slot_id[p]

\* Faulty: a job may be replied to again.
ReplyIsWanted(p) == running_job[p] # NoMsg /\ ~metadata[running_job[p]].no_reply

\* JobWorkerServer::reply_is_expected.
reply_is_expected(p) ==
  /\ running_job[p] # NoMsg
  /\ ~metadata[running_job[p]].no_reply
  /\ ~reply_was_sent[p]

\* state_run, once the script has finished or failed: a job that still owes its
\* reply gets an error response.
Stop(p) ==
  /\ stopped' = [stopped EXCEPT ![p] = TRUE]
  /\ Goto(p, IF reply_is_expected(p) THEN "error" ELSE "free")

\* One round of read_job_results: the response is attached, copied into an
\* event of the script that sent the job, and released.  The answer of a job of
\* an earlier script is dropped.  No event can be allocated: on_net_event
\* terminates the script.
ReadJobResult(p) ==
  /\ InEventLoop(p)
  /\ result_pipe[p] # <<>>
  /\ LET m  == Head(result_pipe[p])
         id == metadata[m].job_id
     IN
     /\ attach_then_release(p, m)
     /\ \/ /\ net_events' = [net_events EXCEPT ![p] =
                IF IsFromCurrentScript(p, id) THEN @ \cup {id} ELSE @]
           /\ UNCHANGED <<pc, stopped>>
        \/ /\ IsFromCurrentScript(p, id)
           /\ Stop(p)
           /\ UNCHANGED net_events
  /\ result_pipe' = [result_pipe EXCEPT ![p] = Tail(@)]
  /\ UNCHANGED <<job_pipe, metadata, replied, msg, com, no_reply, idVars, processing, jobVars,
                 pollVars, stopVars>>

\* process_job_answer, then job_resumable::run: the future gets the answer,
\* unless its timeout came first (finish_job_impl returns 0).
ProcessJobAnswer(p) ==
  /\ At(p, "script")
  /\ \E id \in net_events[p] :
       /\ net_events' = [net_events EXCEPT ![p] = @ \ {id}]
       /\ processing' = [processing EXCEPT ![p] = @ \ {id}]
  /\ UNCHANGED <<shmVars, pipeVars, pc, ctlVars, idVars, jobVars, pollVars, stopVars>>

\* process_job_timeout, then job_resumable::run.
ProcessJobTimeout(p) ==
  /\ At(p, "script")
  /\ \E id \in processing[p] : processing' = [processing EXCEPT ![p] = @ \ {id}]
  /\ UNCHANGED <<shmVars, pipeVars, pc, ctlVars, idVars, net_events, jobVars, pollVars, stopVars>>

-----------------------------------------------------------------------------
(* The job worker: JobWorkerServer and kphp_job_worker_store_response.      *)

\* epoll reports the job pipe, once (EPOLLONESHOT), to every worker that polls.
JobPipeEvent(p) ==
  /\ InEventLoop(p)
  /\ armed[p]
  /\ job_pipe # <<>>
  /\ armed' = [armed EXCEPT ![p] = FALSE]
  /\ event' = [event EXCEPT ![p] = TRUE]
  /\ UNCHANGED <<shmVars, pipeVars, pc, ctlVars, idVars, waitVars, jobVars, stopVars>>

\* Faulty: a worker that woke up in vain does not poll the job pipe again.
IgnoreUnarmed(p) ==
  /\ InEventLoop(p)
  /\ event[p]
  /\ event' = [event EXCEPT ![p] = FALSE]
  /\ sigterm_on[p] \/ running_job[p] # NoMsg \/ job_pipe = <<>>
  /\ UNCHANGED <<shmVars, pipeVars, pc, ctlVars, idVars, waitVars, jobVars, armed, stopVars>>

\* job_parse_execute: the exits that take no job.
IgnoreJob(p) ==
  /\ InEventLoop(p)
  /\ event[p]
  /\ event' = [event EXCEPT ![p] = FALSE]
  /\ \/ /\ sigterm_on[p] \/ running_job[p] # NoMsg
        /\ UNCHANGED armed
     \/ /\ ~sigterm_on[p] /\ running_job[p] = NoMsg
        /\ job_pipe = <<>>
        /\ armed' = [armed EXCEPT ![p] = TRUE]
  /\ UNCHANGED <<shmVars, pipeVars, pc, ctlVars, idVars, waitVars, jobVars, stopVars>>

\* job_parse_execute: read_job finds a job.
ReadsJob(p) ==
  /\ At(p, "idle")
  /\ event[p]
  /\ ~sigterm_on[p]
  /\ running_job[p] = NoMsg
  /\ job_pipe # <<>>

\* The job is attached; with a common piece that is attached next.
TakeJob(p) ==
  /\ ReadsJob(p)
  /\ attach_shared_message_to_this_proc(p, Head(job_pipe))
  /\ job_pipe' = Tail(job_pipe)
  /\ running_job' = [running_job EXCEPT ![p] = Head(job_pipe)]
  /\ reply_was_sent' = [reply_was_sent EXCEPT ![p] = FALSE]
  /\ event' = [event EXCEPT ![p] = FALSE]
  /\ Goto(p, IF common_job[Head(job_pipe)] = NoMsg THEN "ready" ELSE "parse")
  /\ UNCHANGED <<result_pipe, metadata, replied, ctlVars, idVars, waitVars, current_job, armed,
                 stopVars>>

AttachCommon(p) ==
  /\ At(p, "parse")
  /\ attach_shared_message_to_this_proc(p, common_job[running_job[p]])
  /\ Goto(p, "ready")
  /\ UNCHANGED <<pipeVars, ctlVars, idVars, waitVars, jobVars, pollVars, stopVars>>

\* The job's script starts: init_job_server_interface_lib.
StartJobScript(p) ==
  /\ At(p, "ready")
  /\ current_job[p] = NoMsg
  /\ current_job' = [current_job EXCEPT ![p] = running_job[p]]
  /\ sent_ids' = [sent_ids EXCEPT ![p] = {}]
  /\ Goto(p, "script")
  /\ UNCHANGED <<shmVars, pipeVars, ctlVars, begin_slot_id, end_slot_id, waitVars, running_job,
                 reply_was_sent, pollVars, stopVars>>

\* The job was read after its deadline: enter_lifecycle terminates the PhpWorker
\* and state_try_start goes to state_finish.
JobExpired(p) ==
  /\ At(p, "ready")
  /\ Goto(p, "finish")
  /\ UNCHANGED <<shmVars, pipeVars, ctlVars, idVars, waitVars, jobVars, pollVars, stopVars>>

\* kphp_job_worker_store_response: the acquire.
StoreResponse(p) ==
  /\ At(p, "script")
  /\ current_job[p] # NoMsg
  /\ \E m \in Msg :
       /\ acquire_shared_message(p, m)
       /\ msg' = [msg EXCEPT ![p] = m]
  /\ Goto(p, "response")
  /\ UNCHANGED <<pipeVars, com, no_reply, stopped, idVars, waitVars, jobVars, pollVars, stopVars>>

ResponseFilled(p) ==
  /\ At(p, "response")
  /\ Goto(p, "reply")
  /\ UNCHANGED <<shmVars, pipeVars, ctlVars, idVars, waitVars, jobVars, pollVars, stopVars>>

\* store_job_response_error: without a free message there is no reply at all.
StoreJobResponseError(p) ==
  /\ At(p, "error")
  /\ \E m \in Msg :
       /\ acquire_shared_message(p, m)
       /\ msg' = [msg EXCEPT ![p] = m]
  /\ Goto(p, "reply")
  /\ UNCHANGED <<pipeVars, com, no_reply, stopped, idVars, waitVars, jobVars, pollVars, stopVars>>

ErrorResponseLost(p) ==
  /\ At(p, "error")
  /\ free_messages = {}
  /\ Goto(p, "free")
  /\ UNCHANGED <<shmVars, pipeVars, ctlVars, idVars, waitVars, jobVars, pollVars, stopVars>>

AfterReply(p) == IF stopped[p] THEN "free" ELSE "script"

\* JobWorkerServer::send_job_reply, the write succeeds.
SendJobReply(p) ==
  /\ At(p, "reply")
  /\ reply_is_expected(p)
  /\ LET job == metadata[running_job[p]] IN
     /\ Len(result_pipe[job.fd]) < ResultPipeCapacity
     /\ metadata' = [metadata EXCEPT ![msg[p]] =
          [job_id |-> job.job_id, fd |-> @.fd, no_reply |-> @.no_reply]]
     /\ result_pipe' = [result_pipe EXCEPT ![job.fd] = Append(@, msg[p])]
     /\ replied' = replied \cup {<<job.fd, job.job_id>>}
  /\ reply_was_sent' = [reply_was_sent EXCEPT ![p] = TRUE]
  /\ Goto(p, "replied")
  /\ UNCHANGED <<shmVars, job_pipe, ctlVars, idVars, waitVars, running_job, current_job, pollVars,
                 stopVars>>

\* send_job_reply returns an error: the caller releases the response.
SendJobReplyFails(p) ==
  /\ At(p, "reply")
  /\ \/ ~reply_is_expected(p)
     \/ Len(result_pipe[metadata[running_job[p]].fd]) = ResultPipeCapacity
  /\ release_shared_message(p, msg[p])
  /\ msg' = [msg EXCEPT ![p] = NoMsg]
  /\ Goto(p, AfterReply(p))
  /\ UNCHANGED <<pipeVars, com, no_reply, stopped, idVars, waitVars, jobVars, pollVars, stopVars>>

ReplySent(p) ==
  /\ At(p, "replied")
  /\ detach_shared_message_from_this_proc(p, msg[p])
  /\ msg' = [msg EXCEPT ![p] = NoMsg]
  /\ Goto(p, AfterReply(p))
  /\ UNCHANGED <<pipeVars, com, no_reply, stopped, idVars, waitVars, jobVars, pollVars, stopVars>>

-----------------------------------------------------------------------------
(* Scripts and processes.                                                   *)

\* A general worker gets an HTTP or RPC query.
StartScript(p) ==
  /\ At(p, "idle")
  /\ p \notin JobWorker
  /\ sent_ids' = [sent_ids EXCEPT ![p] = {}]
  /\ Goto(p, "script")
  /\ UNCHANGED <<shmVars, pipeVars, ctlVars, begin_slot_id, end_slot_id, waitVars, jobVars,
                 pollVars, stopVars>>

\* Where a script can end: it returns, or a timeout, an error or an exit() stops
\* it wherever it is, except inside a critical section.  Its locals are gone;
\* what it had attached stays in the table.
Interruptible == {"script", "common", "multi", "request", "warn", "response"}

StopScript(p) ==
  /\ pc[p] \in Interruptible
  /\ Stop(p)
  /\ msg' = [msg EXCEPT ![p] = NoMsg]
  /\ com' = [com EXCEPT ![p] = NoMsg]
  /\ no_reply' = [no_reply EXCEPT ![p] = FALSE]
  /\ UNCHANGED <<shmVars, pipeVars, idVars, waitVars, jobVars, pollVars, stopVars>>

\* free_slot_factories: ids created so far are no longer current.
ClearIds(p) == begin_slot_id' = [begin_slot_id EXCEPT ![p] = end_slot_id[p]]

\* state_free_script: free_runtime_environment and php_queries_finish.
FreeScript(p) ==
  /\ At(p, "free")
  /\ ClearIds(p)
  /\ processing' = [processing EXCEPT ![p] = {}]
  /\ net_events' = [net_events EXCEPT ![p] = {}]
  /\ \/ /\ current_job[p] # NoMsg
        /\ release_shared_message(p, current_job[p])
     \/ /\ current_job[p] = NoMsg
        /\ UNCHANGED shmVars
  /\ current_job' = [current_job EXCEPT ![p] = NoMsg]
  /\ Goto(p, "finish")
  /\ UNCHANGED <<pipeVars, ctlVars, end_slot_id, sent_ids, running_job, reply_was_sent, pollVars,
                 stopVars>>

\* forcibly_release_all_attached_messages, in state_finish and in run_worker.
ForciblyRelease(p) ==
  /\ pc[p] \in {"starting", "finish"}
  /\ forcibly_release_next(p)
  /\ UNCHANGED <<pipeVars, pc, ctlVars, idVars, waitVars, jobVars, pollVars, stopVars>>

\* Faulty: the job pipe is not armed again after a job.
FinishUnarmed(p) ==
  /\ At(p, "finish")
  /\ TableOf(p) = {}
  /\ running_job' = [running_job EXCEPT ![p] = NoMsg]
  /\ stopped' = [stopped EXCEPT ![p] = FALSE]
  /\ \E reparse \in BOOLEAN :
       event' = [event EXCEPT ![p] = @ \/ (p \in JobWorker /\ reparse)]
  /\ Goto(p, "idle")
  /\ UNCHANGED <<shmVars, pipeVars, msg, com, no_reply, idVars, waitVars, current_job,
                 reply_was_sent, armed, stopVars>>

\* The end of state_finish; for a job, jobs_server_at_query_end: the pipe is
\* armed again and, unless the job ran to its end inside jobs_server_reader,
\* the C_REPARSE flag makes server_read_write try the next job at once.
FinishQuery(p) ==
  /\ At(p, "finish")
  /\ TableOf(p) = {}
  /\ running_job' = [running_job EXCEPT ![p] = NoMsg]
  /\ stopped' = [stopped EXCEPT ![p] = FALSE]
  /\ \E reparse \in BOOLEAN :
       event' = [event EXCEPT ![p] = @ \/ (p \in JobWorker /\ reparse)]
  /\ armed' = [armed EXCEPT ![p] = p \in JobWorker]
  /\ Goto(p, "idle")
  /\ UNCHANGED <<shmVars, pipeVars, msg, com, no_reply, idVars, waitVars, current_job,
                 reply_was_sent, stopVars>>

\* Faulty: a new worker does not release what its predecessor had attached.
StartWorkerAtOnce(p) ==
  /\ At(p, "starting")
  /\ armed' = [armed EXCEPT ![p] = p \in JobWorker]
  /\ Goto(p, "idle")
  /\ UNCHANGED <<shmVars, pipeVars, ctlVars, idVars, waitVars, jobVars, event, stopVars>>

\* run_worker, in the child; JobWorkerServer::init arms the job pipe.
StartWorker(p) ==
  /\ At(p, "starting")
  /\ TableOf(p) = {}
  /\ armed' = [armed EXCEPT ![p] = p \in JobWorker]
  /\ Goto(p, "idle")
  /\ UNCHANGED <<shmVars, pipeVars, ctlVars, idVars, waitVars, jobVars, event, stopVars>>

\* The private memory of a process is gone with it.  The job ids of the process
\* that replaces it start elsewhere: here, after the last id of its predecessor.
Die(p) ==
  /\ msg' = [msg EXCEPT ![p] = NoMsg]
  /\ com' = [com EXCEPT ![p] = NoMsg]
  /\ no_reply' = [no_reply EXCEPT ![p] = FALSE]
  /\ stopped' = [stopped EXCEPT ![p] = FALSE]
  /\ ClearIds(p)
  /\ processing' = [processing EXCEPT ![p] = {}]
  /\ net_events' = [net_events EXCEPT ![p] = {}]
  /\ running_job' = [running_job EXCEPT ![p] = NoMsg]
  /\ current_job' = [current_job EXCEPT ![p] = NoMsg]
  /\ reply_was_sent' = [reply_was_sent EXCEPT ![p] = FALSE]
  /\ armed' = [armed EXCEPT ![p] = FALSE]
  /\ event' = [event EXCEPT ![p] = FALSE]
  /\ sigterm_on' = [sigterm_on EXCEPT ![p] = FALSE]
  /\ Goto(p, "dead")
  /\ UNCHANGED <<shmVars, metadata, replied, end_slot_id, sent_ids>>

\* sigterm_handler.
Sigterm(p) ==
  /\ ~At(p, "dead")
  /\ ~sigterm_on[p]
  /\ stops < MaxStops
  /\ stops' = stops + 1
  /\ sigterm_on' = [sigterm_on EXCEPT ![p] = TRUE]
  /\ UNCHANGED <<shmVars, pipeVars, pc, ctlVars, idVars, waitVars, jobVars, pollVars>>

\* The event loop ends when no script is left.
Exit(p) ==
  /\ At(p, "idle")
  /\ sigterm_on[p]
  /\ Die(p)
  /\ UNCHANGED <<job_pipe, result_pipe, stops>>

\* The points between the change of a message's owner and the matching change of
\* the process's table.  Critical sections defer signals there; SIGKILL is not
\* deferred by anything.
HandoverWindow == {"write", "sent", "replied", "parse"}

\* Another one: the address was read from a pipe, and the message is in no table yet.
LoseRead(p) ==
  \/ /\ ReadsJob(p)
     /\ job_pipe' = Tail(job_pipe)
     /\ UNCHANGED result_pipe
  \/ /\ InEventLoop(p)
     /\ result_pipe[p] # <<>>
     /\ result_pipe' = [result_pipe EXCEPT ![p] = Tail(@)]
     /\ UNCHANGED job_pipe

\* SIGKILL from the master or the kernel, or a crash.
Kill(p) ==
  /\ ~At(p, "dead")
  /\ KillInWindow \/ pc[p] \notin HandoverWindow
  /\ stops < MaxStops
  /\ stops' = stops + 1
  /\ Die(p)
  /\ \/ UNCHANGED <<job_pipe, result_pipe>>
     \/ KillInWindow /\ LoseRead(p)

\* The master forks a worker into the slot.
RunWorker(p) ==
  /\ At(p, "dead")
  /\ Goto(p, "starting")
  /\ UNCHANGED <<shmVars, pipeVars, ctlVars, idVars, waitVars, jobVars, pollVars, stopVars>>

ClientStep(p) ==
  \/ StartJob(p) \/ StartMulti(p) \/ CopyGrows(p) \/ CopyTooBig(p) \/ CommonFilled(p)
  \/ \E nr \in BOOLEAN : RequestFilled(p, nr)
  \/ BindCommon(p) \/ SendJob(p) \/ SendJobFails(p) \/ WarnQueueIsFull(p) \/ JobSent(p)
  \/ MultiDone(p) \/ ReadJobResult(p) \/ ProcessJobAnswer(p) \/ ProcessJobTimeout(p)

ServerStep(p) ==
  \/ JobPipeEvent(p) \/ IgnoreJob(p) \/ TakeJob(p) \/ AttachCommon(p) \/ StartJobScript(p)
  \/ JobExpired(p) \/ StoreResponse(p) \/ ResponseFilled(p) \/ StoreJobResponseError(p)
  \/ ErrorResponseLost(p) \/ SendJobReply(p) \/ SendJobReplyFails(p) \/ ReplySent(p)

LifeStep(p) ==
  \/ StartScript(p) \/ StopScript(p) \/ FreeScript(p) \/ ForciblyRelease(p) \/ FinishQuery(p)
  \/ StartWorker(p) \/ Sigterm(p) \/ Exit(p) \/ Kill(p) \/ RunWorker(p)

Next == \E p \in Proc : ClientStep(p) \/ ServerStep(p) \/ LifeStep(p)

Spec == Init /\ [][Next]_vars

\* The steps that a process takes of itself, once it is at their point.
Proceed(p) ==
  \/ CommonFilled(p) \/ (\E nr \in BOOLEAN : RequestFilled(p, nr)) \/ BindCommon(p)
  \/ SendJob(p) \/ SendJobFails(p) \/ WarnQueueIsFull(p) \/ JobSent(p) \/ MultiDone(p)
  \/ AttachCommon(p) \/ StartJobScript(p) \/ JobExpired(p)
  \/ ResponseFilled(p) \/ StoreJobResponseError(p) \/ ErrorResponseLost(p)
  \/ SendJobReply(p) \/ SendJobReplyFails(p) \/ ReplySent(p)
  \/ FreeScript(p) \/ ForciblyRelease(p) \/ FinishQuery(p) \/ StartWorker(p) \/ RunWorker(p)

\* What epoll may report to a process.
Poll(p) == ReadJobResult(p) \/ JobPipeEvent(p) \/ IgnoreJob(p) \/ TakeJob(p)

\* A process keeps running.  It keeps coming back to its event loop, where epoll
\* reports what is ready; its script ends, if not by itself then by its time
\* limit; after SIGTERM an idle worker leaves the loop.
Fairness ==
  \A p \in Proc :
    /\ WF_vars(Proceed(p))
    /\ WF_vars(Exit(p))
    /\ SF_vars(StopScript(p))
    /\ SF_vars(Poll(p))

FairSpec == Spec /\ Fairness

-----------------------------------------------------------------------------
(* Properties.                                                              *)

\* What the counter of m should be.
OwnersOf(m) ==
    Cardinality({p \in Proc : OwnsByTable(p, m)})
  + Cardinality(JobsBoundTo(m))
  + (IF InPipe(m) THEN 1 ELSE 0)

\* The owners counter of every message is at every step the number of its
\* owners: the processes that will release it, the jobs that refer to it as
\* their common piece, and the pipe it is in; and the free messages are those
\* without owners.  So no message is freed while somebody can still reach it,
\* none is lost, and none is freed twice, whatever scripts and processes end
\* or die in between (release_shared_message, send_job_request_message,
\* store_response, forcibly_release_all_attached_messages).
OwnersCounted ==
  \A m \in Msg :
    /\ owners_counter[m] = OwnersOf(m)
    /\ m \in free_messages <=> owners_counter[m] = 0

\* The last steps of a job worker before it can read a job's memory.
UsesJob(p) == running_job[p] # NoMsg /\ pc[p] \in
  {"ready", "script", "common", "multi", "request", "bind", "write", "sent", "warn", "response",
   "reply", "replied", "error"}

\* A job worker that runs a job has that job and its common piece to itself or
\* shared, never freed, until it releases them; no other worker runs the same
\* job, and the job is in no pipe (JobWorkerServer::job_parse_execute).
RunningJobIsSafe ==
  \A p \in Proc : UsesJob(p) =>
    LET job == running_job[p] IN
    /\ job \notin free_messages
    /\ ~InPipe(job)
    /\ common_job[job] # NoMsg => common_job[job] \in TableOf(p) \ free_messages
    /\ \A q \in Proc \ {p} : UsesJob(q) => running_job[q] # job

\* No assertion of the job code can fail:
\*  - WorkerProcessMeta::replace finds a free slot for each message a process
\*    can attach next, and finds the message it detaches;
\*  - attach_shared_message_to_this_proc and forcibly_release_all_attached_messages
\*    see a counter that is not zero;
\*  - unbind_common_job does not drop the last reference;
\*  - on_net_event is called only while there is a script;
\*  - init_job_server_interface_lib finds no job of an earlier script;
\*  - store_job_response_error has a running job.
AssertionsHold ==
  \A p \in Proc :
    /\ pc[p] \in {"idle", "parse", "script", "multi", "error"} => HasFreeSlot(p)
    /\ \A i \in 1..Len(job_pipe) : owners_counter[job_pipe[i]] # 0
    /\ \A i \in 1..Len(result_pipe[p]) : owners_counter[result_pipe[p][i]] # 0
    /\ At(p, "parse") => owners_counter[common_job[running_job[p]]] # 0
    /\ pc[p] \in {"sent", "replied"} => msg[p] \in TableOf(p)
    /\ pc[p] \in {"common", "request", "response"} => Dropped(Filling(p)) \subseteq TableOf(p)
    /\ At(p, "reply") => Dropped(msg[p]) \subseteq TableOf(p)
    /\ At(p, "multi") => Dropped(com[p]) \subseteq TableOf(p)
    /\ At(p, "free") /\ current_job[p] # NoMsg => Dropped(current_job[p]) \subseteq TableOf(p)
    /\ At(p, "write") /\ common_job[msg[p]] # NoMsg => owners_counter[common_job[msg[p]]] > 1
    /\ At(p, "write") => msg[p] \in TableOf(p)
    /\ pc[p] \in {"starting", "finish"} =>
         \A i \in Slot : NextForced(p, i) =>
           /\ owners_counter[attached[p][i]] # 0
           /\ Dropped(attached[p][i]) \subseteq TableOf(p)
    /\ At(p, "idle") => \A i \in 1..Len(result_pipe[p]) :
                          ~IsFromCurrentScript(p, metadata[result_pipe[p][i]].job_id)
    /\ At(p, "ready") => current_job[p] = NoMsg
    /\ At(p, "error") => running_job[p] # NoMsg

\* An extra buffer is either in its freelist or chained to exactly one message
\* that is in use; a free message keeps none (request_extra_memory_for_resource,
\* release_shared_message).
ExtraBuffersAccounted ==
  \A b \in Buffer :
    LET users == {m \in Msg : b \in extra[m]} IN
    IF b \in free_extra THEN users = {}
    ELSE Cardinality(users) = 1 /\ users \cap free_messages = {}

\* The answers and the timers a script sees are those of jobs it started itself,
\* never of an earlier script of the same worker or of the worker it replaced,
\* however late they come (create_job_worker_answer_event, SlotIdsFactory).
AnswersOfThisScript ==
  \A p \in Proc : net_events[p] \cup processing[p] \subseteq sent_ids[p]

\* A response is written at most once for a job, whether by store_response or
\* as an error when its script ends or is stopped (reply_was_sent).
AtMostOneReply ==
  [][\A p \in Proc :
       Len(result_pipe'[p]) > Len(result_pipe[p]) =>
         LET r == result_pipe'[p][Len(result_pipe'[p])]
         IN <<p, metadata'[r].job_id>> \notin replied]_vars

\* m is a message whose owner is its reader, on its way or with a job worker.
Sent(m) ==
  \/ InPipe(m)
  \/ \E p \in Proc : running_job[p] = m /\ (At(p, "parse") \/ UsesJob(p))

\* m was sent, or is the common piece of a job that was.
Shared(m) == Sent(m) \/ \E j \in Msg : Sent(j) /\ common_job[j] = m

\* Nobody writes to a message that was sent, nor to the common piece of a sent
\* job, before its reader gives it up: the reader sees what the sender wrote,
\* although the sender goes on, ends or dies, and the pool hands out messages
\* meanwhile (send_job_request_message, send_job_reply, acquire_shared_message).
SentMessagesAreFrozen ==
  [][\A m \in Msg : Shared(m) /\ Shared(m)' =>
       UNCHANGED <<metadata[m], common_job[m], extra[m]>>]_vars

\* A job worker without a job polls the job pipe or has an event of it to handle,
\* until it is told to stop.  All workers are woken for a job that one of them
\* gets, and one that was woken in vain would never run a job again if it did not
\* poll again (rearm_read_job_fd, jobs_server_at_query_end).
IdleWorkersListen ==
  \A p \in JobWorker : At(p, "idle") /\ ~sigterm_on[p] => armed[p] \/ event[p]

\* Every job written to the job pipe is taken by a job worker, although workers
\* wake up in vain, skip events while they run a job, get SIGTERM and die
\* (rearm_read_job_fd, jobs_server_at_query_end).
JobsAreTaken ==
  \A m \in Msg :
    (\E i \in 1..Len(job_pipe) : job_pipe[i] = m)
      ~> ~(\E i \in 1..Len(job_pipe) : job_pipe[i] = m)

\* Every message that is taken from the pool is given back to it.
MessagesComeBack ==
  \A m \in Msg : m \notin free_messages ~> m \in free_messages

\* After a send has failed the client does not read the message it has released:
\* "it's incorrect to use job_message after send" (client-functions.cpp:83).
ReleasedMessageIsNotRead ==
  \A p \in Proc : At(p, "warn") => msg[p] \notin free_messages
============================================================================
