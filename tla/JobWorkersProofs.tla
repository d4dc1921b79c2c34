------------------------- MODULE JobWorkersProofs -------------------------
(***************************************************************************)
(* Theorems about JobWorkers, for every number of processes, messages,     *)
(* buffers, slots and jobs: type correctness, that a script sees only the  *)
(* answers of its own jobs, and that an idle job worker listens.  Then     *)
(* what single steps do to buffers, replies, tables and messages, for the  *)
(* proofs of JobWorkersTheorems.                                           *)
(***************************************************************************)
EXTENDS JobWorkersInv, TLAPS

USE ZenonT(20), SMTT(60)

-----------------------------------------------------------------------------
(* The operations of SharedMemoryManager keep the types of its variables.   *)

\* A change of one slot keeps the type of the tables.
LEMMA ReplaceType ==
  ASSUME ShmTypeOK, NEW p \in Proc, NEW old, NEW new \in Msg \cup {NoMsg}, replace(p, old, new)
  PROVE  attached' \in [Proc -> [Slot -> Msg \cup {NoMsg}]]
  BY SMTT(60) DEF ShmTypeOK, replace

\* acquire_shared_message keeps the types of the shared memory.
LEMMA AcquireType ==
  ASSUME ShmTypeOK, NEW p \in Proc, NEW m \in Msg, acquire_shared_message(p, m)
  PROVE  ShmTypeOK'
<1>1. attached' \in [Proc -> [Slot -> Msg \cup {NoMsg}]]
  BY ReplaceType DEF acquire_shared_message, attach
<1> QED
  BY SMTT(60), <1>1, ShmAssumption DEF ShmTypeOK, acquire_shared_message

\* attach_shared_message_to_this_proc does.
LEMMA AttachType ==
  ASSUME ShmTypeOK, NEW p \in Proc, NEW m \in Msg \cup {NoMsg},
         attach_shared_message_to_this_proc(p, m)
  PROVE  ShmTypeOK'
<1>1. attached' \in [Proc -> [Slot -> Msg \cup {NoMsg}]]
  BY ReplaceType DEF attach_shared_message_to_this_proc, attach
<1> QED
  BY <1>1 DEF ShmTypeOK, attach_shared_message_to_this_proc

\* detach_shared_message_from_this_proc does.
LEMMA DetachType ==
  ASSUME ShmTypeOK, NEW p \in Proc, NEW m, detach_shared_message_from_this_proc(p, m)
  PROVE  ShmTypeOK'
<1>1. attached' \in [Proc -> [Slot -> Msg \cup {NoMsg}]]
  BY ReplaceType DEF detach_shared_message_from_this_proc, detach
<1> QED
  BY <1>1 DEF ShmTypeOK, detach_shared_message_from_this_proc

\* The owners counter keeps its width when it goes down.
LEMMA DecrementType == \A n \in 0..MaxOwners : Decrement(n) \in 0..MaxOwners
  BY SMTT(60), ShmAssumption DEF Decrement

\* The owners counter keeps its width when it goes up.
LEMMA IncrementType == \A n \in 0..MaxOwners : Increment(n) \in 0..MaxOwners
  BY SMTT(60), ShmAssumption DEF Increment

\* What is chained to released messages goes back to the free buffers.
LEMMA ReturnExtraType ==
  ASSUME ShmTypeOK, NEW F, F \subseteq Msg, ReturnExtra(F)
  PROVE  free_extra' \subseteq Buffer /\ extra' \in [Msg -> SUBSET Buffer]
  BY DEF ShmTypeOK, ReturnExtra

\* release_shared_message, with its cascade to the common piece, keeps the types.
LEMMA ReleaseType ==
  ASSUME ShmTypeOK, NEW p \in Proc, NEW m \in Msg, release_shared_message(p, m)
  PROVE  ShmTypeOK'
<1>1. Freed(m) \subseteq Msg
  BY DEF Freed, Dropped, ShmTypeOK
<1>2. free_extra' \subseteq Buffer /\ extra' \in [Msg -> SUBSET Buffer]
  BY <1>1, ReturnExtraType DEF release_shared_message
<1>3. owners_counter' \in [Msg -> 0..MaxOwners]
  BY DecrementType DEF release_shared_message, ShmTypeOK
<1>4. attached' \in [Proc -> [Slot -> Msg \cup {NoMsg}]]
  BY DEF release_shared_message, ShmTypeOK
<1> QED
  BY <1>1, <1>2, <1>3, <1>4 DEF ShmTypeOK, release_shared_message

\* So does the release of a job that loses its piece first.
LEMMA UnbindType ==
  ASSUME ShmTypeOK, NEW p \in Proc, NEW m \in Msg, unbind_and_release(p, m)
  PROVE  ShmTypeOK'
<1> DEFINE F == {x \in {m} : owners_counter[x] = 1}
<1>1. attached' \in [Proc -> [Slot -> Msg \cup {NoMsg}]]
  BY ReplaceType DEF unbind_and_release, detach
<1>2. free_extra' \subseteq Buffer /\ extra' \in [Msg -> SUBSET Buffer]
  <2>1. F \subseteq Msg /\ ReturnExtra(F)
    BY DEF unbind_and_release
  <2> QED
    BY <2>1, ReturnExtraType
<1>3. owners_counter' \in [Msg -> 0..MaxOwners]
  BY DecrementType DEF unbind_and_release, ShmTypeOK
<1> QED
  BY <1>1, <1>2, <1>3 DEF ShmTypeOK, unbind_and_release

\* So do the attach and the release of a message in one step.
LEMMA AttachThenReleaseType ==
  ASSUME ShmTypeOK, NEW p \in Proc, NEW m \in Msg, attach_then_release(p, m)
  PROVE  ShmTypeOK'
<1> DEFINE F == {x \in {m} : owners_counter[x] = 1}
<1>1. free_extra' \subseteq Buffer /\ extra' \in [Msg -> SUBSET Buffer]
  <2>1. F \subseteq Msg /\ ReturnExtra(F)
    BY DEF attach_then_release
  <2> QED
    BY <2>1, ReturnExtraType
<1>2. owners_counter' \in [Msg -> 0..MaxOwners]
  BY DecrementType DEF attach_then_release, ShmTypeOK
<1> QED
  BY <1>1, <1>2 DEF ShmTypeOK, attach_then_release

\* So does the binding of a job to a common piece.
LEMMA BindType ==
  ASSUME ShmTypeOK, NEW m \in Msg, NEW c \in Msg, bind_common_job(m, c)
  PROVE  ShmTypeOK'
  BY IncrementType DEF ShmTypeOK, bind_common_job

\* So does a request for extra memory.
LEMMA RequestExtraType ==
  ASSUME ShmTypeOK, NEW m \in Msg, NEW g, request_extra_memory_for_resource(m, g)
  PROVE  ShmTypeOK'
  BY ZenonT(60) DEF ShmTypeOK, request_extra_memory_for_resource

-----------------------------------------------------------------------------
(* The steps.                                                               *)

\* A step of p.
Step(p) == ClientStep(p) \/ ServerStep(p) \/ LifeStep(p)

\* The initial state has its types.
LEMMA TypeInit == Init => TypeOK
  BY SMTT(60), ShmAssumption, JobAssumption
  DEF Init, TypeOK, ShmInit, ShmTypeOK, PipeTypeOK, CtlTypeOK, IdTypeOK, ServerTypeOK, Point

\* The steps that leave the shared memory alone.
LEMMA ShmFrame ==
  ASSUME NEW p \in Proc, Step(p),
         ~StartJob(p), ~StartMulti(p), ~CopyGrows(p), ~CopyTooBig(p), ~BindCommon(p),
         ~SendJobFails(p), ~JobSent(p), ~MultiDone(p), ~ReadJobResult(p), ~TakeJob(p),
         ~AttachCommon(p), ~StoreResponse(p), ~StoreJobResponseError(p), ~SendJobReplyFails(p),
         ~ReplySent(p), ~FreeScript(p), ~ForciblyRelease(p)
  PROVE  UNCHANGED shmVars
  BY DEF Step, ClientStep, ServerStep, LifeStep, CommonFilled, RequestFilled, SendJob,
         WarnQueueIsFull, ProcessJobAnswer, ProcessJobTimeout, JobPipeEvent, IgnoreJob,
         StartJobScript, JobExpired, ResponseFilled, ErrorResponseLost, SendJobReply, StartScript,
         StopScript, FinishQuery, StartWorker, Sigterm, Exit, Kill, RunWorker, Die

\* A process that is killed may have read one message that nobody gets any more.
LEMMA KillReads ==
  ASSUME NEW p \in Proc, Kill(p)
  PROVE  /\ UNCHANGED <<metadata, replied>>
         /\ job_pipe' = job_pipe \/ (job_pipe # <<>> /\ job_pipe' = Tail(job_pipe))
         /\ \/ result_pipe' = result_pipe
            \/ /\ result_pipe[p] # <<>>
               /\ result_pipe' = [result_pipe EXCEPT ![p] = Tail(@)]
  BY ZenonT(60) DEF Kill, Die, LoseRead, ReadsJob

\* The steps that leave the pipes and the metadata of the messages alone.
LEMMA PipeFrame ==
  ASSUME NEW p \in Proc, Step(p), ~(\E nr \in BOOLEAN : RequestFilled(p, nr)), ~SendJob(p),
         ~ReadJobResult(p), ~TakeJob(p), ~SendJobReply(p), ~Kill(p)
  PROVE  UNCHANGED pipeVars
  BY DEF Step, ClientStep, ServerStep, LifeStep, StartJob, StartMulti, CopyGrows, CopyTooBig,
         CommonFilled, BindCommon, SendJobFails, WarnQueueIsFull, JobSent, MultiDone,
         ProcessJobAnswer, ProcessJobTimeout, JobPipeEvent, IgnoreJob, AttachCommon,
         StartJobScript, JobExpired, StoreResponse, ResponseFilled, StoreJobResponseError,
         ErrorResponseLost, SendJobReplyFails, ReplySent, StartScript, StopScript, FreeScript,
         ForciblyRelease, FinishQuery, StartWorker, Sigterm, Exit, RunWorker, Die, pipeVars

\* Every step keeps the types of the shared memory: what it releases is a message.
LEMMA ShmTypeStep ==
  ASSUME TypeOK, PointOK, NEW p \in Proc, Step(p)
  PROVE  ShmTypeOK'
<1> USE DEF TypeOK
<1>m. pc[p] \in MsgPoint => msg[p] \in Msg
  BY DEF CtlTypeOK, PointOK
<1>c. pc[p] \in {"common", "multi", "bind"} => com[p] \in Msg
  BY DEF CtlTypeOK, PointOK
<1>1. CASE StartJob(p) \/ StartMulti(p) \/ StoreResponse(p) \/ StoreJobResponseError(p)
  BY <1>1, AcquireType DEF StartJob, StartMulti, StoreResponse, StoreJobResponseError
<1>2. CASE CopyGrows(p)
  <2>1. Filling(p) \in Msg
    BY <1>2, <1>m, <1>c DEF CopyGrows, Filling, At, MsgPoint
  <2> QED
    BY <1>2, <2>1, RequestExtraType DEF CopyGrows
<1>3. CASE CopyTooBig(p)
  <2>1. Filling(p) \in Msg
    BY <1>3, <1>m, <1>c DEF CopyTooBig, Filling, At, MsgPoint
  <2> QED
    BY <1>3, <2>1, ReleaseType DEF CopyTooBig
<1>4. CASE BindCommon(p)
  BY <1>4, <1>m, <1>c, BindType DEF BindCommon, At, MsgPoint
<1>5. CASE SendJobFails(p)
  BY <1>5, <1>m, UnbindType DEF SendJobFails, At, MsgPoint
<1>6. CASE JobSent(p) \/ ReplySent(p)
  BY <1>6, DetachType DEF JobSent, ReplySent
<1>7. CASE MultiDone(p)
  BY <1>7, <1>c, ReleaseType DEF MultiDone, At
<1>8. CASE SendJobReplyFails(p)
  BY <1>8, <1>m, ReleaseType DEF SendJobReplyFails, At, MsgPoint
<1>9. CASE ReadJobResult(p)
  <2>1. Head(result_pipe[p]) \in Msg
    BY SMTT(60), <1>9 DEF ReadJobResult, PipeTypeOK
  <2> QED
    BY <1>9, <2>1, AttachThenReleaseType DEF ReadJobResult
<1>10. CASE TakeJob(p)
  <2>1. Head(job_pipe) \in Msg
    BY SMTT(60), <1>10 DEF TakeJob, ReadsJob, PipeTypeOK
  <2> QED
    BY <1>10, <2>1, AttachType DEF TakeJob, ReadsJob
<1>11. CASE AttachCommon(p)
  <2>1. common_job[running_job[p]] \in Msg \cup {NoMsg}
    BY <1>11 DEF AttachCommon, At, PointOK, ServerTypeOK, ShmTypeOK
  <2> QED
    BY <1>11, <2>1, AttachType DEF AttachCommon
<1>12. CASE FreeScript(p)
  <2>1. CASE UNCHANGED shmVars
    BY <2>1 DEF ShmTypeOK, shmVars, Slot
  <2>2. CASE current_job[p] # NoMsg /\ release_shared_message(p, current_job[p])
    BY <2>2, ReleaseType DEF ServerTypeOK
  <2> QED
    BY <1>12, <2>1, <2>2 DEF FreeScript
<1>13. CASE ForciblyRelease(p)
  <2>1. PICK i \in Slot : NextForced(p, i) /\ release_shared_message(p, attached[p][i])
    BY <1>13 DEF ForciblyRelease, forcibly_release_next
  <2>2. attached[p][i] \in Msg
    BY SMTT(60), <2>1 DEF NextForced, ShmTypeOK
  <2> QED
    BY <2>1, <2>2, ReleaseType
<1>14. CASE UNCHANGED shmVars
  BY <1>14 DEF ShmTypeOK, shmVars, Slot
<1> QED
  BY <1>1, <1>2, <1>3, <1>4, <1>5, <1>6, <1>7, <1>8, <1>9, <1>10, <1>11, <1>12, <1>13, <1>14,
     ShmFrame

\* Every step keeps the types of pipes: what is written is a message.
LEMMA PipeTypeStep ==
  ASSUME TypeOK, PointOK, NEW p \in Proc, Step(p)
  PROVE  PipeTypeOK'
<1> USE DEF TypeOK, PipeTypeOK
<1>m. pc[p] \in MsgPoint => msg[p] \in Msg
  BY DEF CtlTypeOK, PointOK
<1>1. ASSUME NEW nr \in BOOLEAN, RequestFilled(p, nr)
      PROVE  PipeTypeOK'
  BY <1>1, <1>m DEF RequestFilled, At, MsgPoint, IdTypeOK
<1>2. CASE SendJob(p)
  <2>1. msg[p] \in Msg
    BY <1>2, <1>m DEF SendJob, At, MsgPoint
  <2> QED
    BY SMTT(60), <1>2, <2>1 DEF SendJob
<1>3. CASE ReadJobResult(p)
  <2>1. Tail(result_pipe[p]) \in Seq(Msg)
    BY SMTT(60), <1>3 DEF ReadJobResult
  <2> QED
    BY <1>3, <2>1 DEF ReadJobResult
<1>4. CASE TakeJob(p)
  <2>1. Tail(job_pipe) \in Seq(Msg)
    BY SMTT(60), <1>4 DEF TakeJob, ReadsJob
  <2> QED
    BY <1>4, <2>1 DEF TakeJob, ReadsJob
<1>5. CASE SendJobReply(p)
  <2>1. msg[p] \in Msg
    BY <1>5, <1>m DEF SendJobReply, At, MsgPoint
  <2>2. metadata[running_job[p]].fd \in Proc /\ metadata[running_job[p]].job_id \in Nat
    BY <1>5 DEF SendJobReply, reply_is_expected, ServerTypeOK
  <2>3. Append(result_pipe[metadata[running_job[p]].fd], msg[p]) \in Seq(Msg)
    BY SMTT(60), <2>1, <2>2
  <2>4. result_pipe' \in [Proc -> Seq(Msg)]
    BY <1>5, <2>2, <2>3 DEF SendJobReply
  <2>5. metadata' \in [Msg -> [job_id : Nat, fd : Proc, no_reply : BOOLEAN]]
    BY <1>5, <2>1, <2>2 DEF SendJobReply
  <2>6. job_pipe' = job_pipe
    BY <1>5 DEF SendJobReply
  <2>7. replied' \subseteq Proc \X Nat
    BY SMTT(60), <1>5, <2>2 DEF SendJobReply
  <2> QED
    BY <2>4, <2>5, <2>6, <2>7
<1>6. CASE UNCHANGED pipeVars
  BY <1>6 DEF pipeVars
<1>7. CASE Kill(p)
  <2>1. \A s \in Seq(Msg) : s # <<>> => Tail(s) \in Seq(Msg)
    BY SMTT(60)
  <2>2. job_pipe' \in Seq(Msg)
    BY ZenonT(60), <1>7, <2>1, KillReads
  <2>3. result_pipe' \in [Proc -> Seq(Msg)]
    <3>1. CASE result_pipe' = result_pipe
      BY <3>1
    <3>2. CASE /\ result_pipe[p] # <<>>
               /\ result_pipe' = [result_pipe EXCEPT ![p] = Tail(@)]
      <4>1. Tail(result_pipe[p]) \in Seq(Msg)
        BY ZenonT(60), <2>1, <3>2
      <4> QED
        BY ZenonT(60), <3>2, <4>1
    <3> QED
      BY ZenonT(60), <1>7, <3>1, <3>2, KillReads
  <2> QED
    BY ZenonT(60), <1>7, <2>2, <2>3, KillReads
<1> QED
  BY <1>1, <1>2, <1>3, <1>4, <1>5, <1>6, <1>7, PipeFrame

\* Every step keeps the types of points, locals and flags.
LEMMA CtlTypeStep ==
  ASSUME TypeOK, NEW p \in Proc, Step(p)
  PROVE  CtlTypeOK'
<1> USE DEF TypeOK, CtlTypeOK, Point, Goto, ctlVars
<1>1. CASE StartJob(p) \/ StartMulti(p) \/ CopyGrows(p) \/ CommonFilled(p) \/ BindCommon(p)
  BY ZenonT(60), <1>1 DEF StartJob, StartMulti, CopyGrows, CommonFilled, BindCommon
<1>4. CASE CopyTooBig(p)
  BY <1>4 DEF CopyTooBig, AfterTooBig, AfterJob
<1>5. ASSUME NEW nr \in BOOLEAN, RequestFilled(p, nr)
      PROVE  CtlTypeOK'
  BY <1>5 DEF RequestFilled
<1>6. CASE \/ SendJob(p) \/ SendJobFails(p) \/ WarnQueueIsFull(p) \/ JobSent(p) \/ MultiDone(p)
  BY <1>6 DEF SendJob, SendJobFails, WarnQueueIsFull, JobSent, MultiDone, AfterJob
<1>7. CASE ReadJobResult(p)
  <2>1. UNCHANGED <<msg, com, no_reply>> /\ (UNCHANGED <<pc, stopped>> \/ Stop(p))
    BY <1>7 DEF ReadJobResult
  <2> QED
    BY <2>1 DEF Stop
<1>8. CASE ProcessJobAnswer(p) \/ ProcessJobTimeout(p)
  BY <1>8 DEF ProcessJobAnswer, ProcessJobTimeout
<1>2. CASE ServerStep(p)
  BY ZenonT(60), <1>2
  DEF ServerStep, AfterReply, JobPipeEvent, IgnoreJob, TakeJob, ReadsJob, AttachCommon, StartJobScript, JobExpired,
         StoreResponse, ResponseFilled, StoreJobResponseError, ErrorResponseLost, SendJobReply,
         SendJobReplyFails, ReplySent
<1>3. CASE LifeStep(p)
  BY ZenonT(60), <1>3
  DEF LifeStep, Stop, Die, StartScript, StopScript, FreeScript, ForciblyRelease, FinishQuery, StartWorker,
         Sigterm, Exit, Kill, RunWorker
<1> QED
  BY <1>1, <1>2, <1>3, <1>4, <1>5, <1>6, <1>7, <1>8 DEF Step, ClientStep

\* Every step keeps the types of the ids of jobs.
LEMMA IdTypeStep ==
  ASSUME TypeOK, IdsOK, NEW p \in Proc, Step(p)
  PROVE  IdTypeOK'
<1> USE DEF TypeOK, IdTypeOK, idVars, waitVars
<1>1. CASE ReadJobResult(p)
  <2>1. Head(result_pipe[p]) \in Msg
    BY SMTT(60), <1>1 DEF ReadJobResult, PipeTypeOK
  <2>2. metadata[Head(result_pipe[p])].job_id \in Nat
    BY <2>1 DEF PipeTypeOK
  <2>3. /\ UNCHANGED <<idVars, processing>>
        /\ \/ UNCHANGED net_events
           \/ net_events' = [net_events EXCEPT ![p] =
                               @ \cup {metadata[Head(result_pipe[p])].job_id}]
    BY <1>1 DEF ReadJobResult
  <2> QED
    BY ZenonT(60), <2>2, <2>3
<1>2. CASE JobSent(p)
  <2>1. end_slot_id[p] - 1 \in Nat
    BY SMTT(60), <1>2 DEF JobSent, At, IdsOK
  <2> QED
    BY <1>2, <2>1 DEF JobSent
<1>3. ASSUME NEW nr \in BOOLEAN, RequestFilled(p, nr)
      PROVE  IdTypeOK'
  <2>1. /\ end_slot_id' = [end_slot_id EXCEPT ![p] = @ + 1]
        /\ sent_ids' = [sent_ids EXCEPT ![p] = @ \cup {end_slot_id[p]}]
        /\ UNCHANGED <<begin_slot_id, waitVars>>
    BY <1>3 DEF RequestFilled
  <2> QED
    BY SMTT(60), <2>1
<1>4. CASE ProcessJobAnswer(p) \/ ProcessJobTimeout(p)
  BY ZenonT(60), <1>4 DEF ProcessJobAnswer, ProcessJobTimeout
<1>5. CASE \/ StartJob(p) \/ StartMulti(p) \/ CopyGrows(p) \/ CopyTooBig(p) \/ CommonFilled(p)
           \/ BindCommon(p) \/ SendJob(p) \/ SendJobFails(p) \/ WarnQueueIsFull(p) \/ MultiDone(p)
  BY <1>5
  DEF StartJob, StartMulti, CopyGrows, CopyTooBig, CommonFilled, BindCommon, SendJob,
      SendJobFails, WarnQueueIsFull, MultiDone
<1>6. CASE ServerStep(p)
  BY <1>6
  DEF ServerStep, JobPipeEvent, IgnoreJob, TakeJob, ReadsJob, AttachCommon, StartJobScript, JobExpired,
         StoreResponse, ResponseFilled, StoreJobResponseError, ErrorResponseLost, SendJobReply,
         SendJobReplyFails, ReplySent
<1>7. CASE LifeStep(p)
  BY <1>7
  DEF LifeStep, Die, ClearIds, StartScript, StopScript, FreeScript, ForciblyRelease, FinishQuery, StartWorker,
         Sigterm, Exit, Kill, RunWorker
<1> QED
  BY <1>1, <1>2, <1>3, <1>4, <1>5, <1>6, <1>7 DEF Step, ClientStep

\* Every step keeps the types of what a job worker knows of its job.
LEMMA ServerTypeStep ==
  ASSUME TypeOK, NEW p \in Proc, Step(p)
  PROVE  ServerTypeOK'
<1> USE DEF TypeOK, ServerTypeOK, jobVars, pollVars, stopVars
<1>1. CASE ClientStep(p)
  BY <1>1
  DEF ClientStep, StartJob, StartMulti, CopyGrows, CopyTooBig, CommonFilled, RequestFilled,
         BindCommon, SendJob, SendJobFails, WarnQueueIsFull, JobSent, MultiDone, ReadJobResult,
         ProcessJobAnswer, ProcessJobTimeout
<1>2. CASE TakeJob(p)
  <2>1. Head(job_pipe) \in Msg
    BY SMTT(60), <1>2 DEF TakeJob, ReadsJob, PipeTypeOK
  <2> QED
    BY <1>2, <2>1 DEF TakeJob, ReadsJob
<1>3. CASE ServerStep(p) /\ ~TakeJob(p)
  BY <1>3
  DEF ServerStep, JobPipeEvent, IgnoreJob, AttachCommon, StartJobScript, JobExpired,
      StoreResponse, ResponseFilled, StoreJobResponseError, ErrorResponseLost, SendJobReply,
      SendJobReplyFails, ReplySent
<1>4. CASE FinishQuery(p)
  BY SMTT(60), <1>4 DEF FinishQuery
<1>5. CASE StartWorker(p)
  BY SMTT(60), <1>5 DEF StartWorker
<1>6. CASE Sigterm(p)
  BY SMTT(60), <1>6, JobAssumption DEF Sigterm
<1>7. CASE Exit(p) \/ Kill(p)
  <2>1. stops' \in Nat
    BY SMTT(60), <1>7 DEF Exit, Kill
  <2>2. Die(p)
    BY <1>7 DEF Exit, Kill
  <2> QED
    BY <2>1, <2>2 DEF Die
<1>8. CASE StartScript(p) \/ StopScript(p) \/ FreeScript(p) \/ ForciblyRelease(p) \/ RunWorker(p)
  BY <1>8 DEF StartScript, StopScript, FreeScript, ForciblyRelease, RunWorker
<1> QED
  BY <1>1, <1>2, <1>3, <1>4, <1>5, <1>6, <1>7, <1>8 DEF Step, LifeStep

\* Every step keeps the types.
LEMMA TypeStep ==
  ASSUME TypeOK, PointOK, IdsOK, [Next]_vars
  PROVE  TypeOK'
<1>1. CASE UNCHANGED vars
  BY <1>1
  DEF vars, shmVars, pipeVars, ctlVars, idVars, waitVars, jobVars, pollVars, stopVars, TypeOK,
      ShmTypeOK, Slot, PipeTypeOK, CtlTypeOK, IdTypeOK, ServerTypeOK
<1>2. ASSUME NEW p \in Proc, Step(p)
      PROVE  TypeOK'
  BY <1>2, ShmTypeStep, PipeTypeStep, CtlTypeStep, IdTypeStep, ServerTypeStep DEF TypeOK
<1> QED
  BY <1>1, <1>2 DEF Next, Step

-----------------------------------------------------------------------------
(* Program points and local variables.                                      *)

\* Every step sets the locals that its next point needs.
LEMMA PointStep ==
  ASSUME TypeOK, PointOK, NEW p \in Proc, Step(p)
  PROVE  PointOK'
<1> USE ShmAssumption DEF TypeOK, CtlTypeOK, ServerTypeOK, PointOK, MsgPoint, ScriptPoint, Goto,
      At, ctlVars, jobVars
<1>1. CASE StartJob(p)
  BY SMTT(60), <1>1 DEF StartJob
<1>21. CASE StartMulti(p)
  <2>1. PICK c \in Msg : com' = [com EXCEPT ![p] = c]
    BY <1>21 DEF StartMulti
  <2>2. pc[p] = "script" /\ pc' = [pc EXCEPT ![p] = "common"] /\ UNCHANGED <<msg, jobVars>>
    BY <1>21 DEF StartMulti
  <2> QED
    BY ZenonT(60), <2>1, <2>2
<1>2. CASE CopyGrows(p) \/ CommonFilled(p) \/ BindCommon(p)
  BY SMTT(60), <1>2 DEF CopyGrows, CommonFilled, BindCommon
<1>3. CASE CopyTooBig(p)
  BY ZenonT(60), <1>3 DEF CopyTooBig, AfterTooBig, AfterJob
<1>4. ASSUME NEW nr \in BOOLEAN, RequestFilled(p, nr)
      PROVE  PointOK'
  BY ZenonT(60), <1>4 DEF RequestFilled
<1>5. CASE SendJob(p) \/ SendJobFails(p)
  BY SMTT(60), <1>5 DEF SendJob, SendJobFails
<1>6. CASE WarnQueueIsFull(p) \/ JobSent(p)
  BY SMTT(60), <1>6 DEF WarnQueueIsFull, JobSent, AfterJob
<1>7. CASE MultiDone(p)
  BY ZenonT(60), <1>7 DEF MultiDone
<1>8. CASE ReadJobResult(p)
  <2>1. UNCHANGED <<msg, com, jobVars>> /\ (UNCHANGED pc \/ (pc[p] \in {"idle", "script"} /\ Stop(p)))
    BY <1>8 DEF ReadJobResult, InEventLoop
  <2>2. CASE UNCHANGED pc
    BY <2>1, <2>2
  <2>3. CASE pc[p] \in {"idle", "script"} /\ Stop(p)
    BY ZenonT(60), <2>1, <2>3 DEF Stop, reply_is_expected
  <2> QED
    BY <2>1, <2>2, <2>3
<1>9. CASE ProcessJobAnswer(p) \/ ProcessJobTimeout(p) \/ JobPipeEvent(p) \/ IgnoreJob(p)
  <2>1. UNCHANGED <<pc, msg, com, jobVars>>
    BY <1>9 DEF ProcessJobAnswer, ProcessJobTimeout, JobPipeEvent, IgnoreJob
  <2> QED
    BY <2>1
<1>10. CASE TakeJob(p)
  <2>1. Head(job_pipe) \in Msg
    BY SMTT(60), <1>10 DEF TakeJob, ReadsJob, PipeTypeOK
  <2> QED
    BY ZenonT(60), <1>10, <2>1 DEF TakeJob, ReadsJob
<1>11. CASE AttachCommon(p) \/ JobExpired(p)
  <2>1. /\ \/ pc[p] = "parse" /\ pc' = [pc EXCEPT ![p] = "ready"]
           \/ pc[p] = "ready" /\ pc' = [pc EXCEPT ![p] = "finish"]
        /\ UNCHANGED <<msg, com, jobVars>>
    BY <1>11 DEF AttachCommon, JobExpired
  <2> QED
    BY SMTT(60), <2>1
<1>22. CASE StartJobScript(p)
  BY ZenonT(60), <1>22 DEF StartJobScript
<1>12. CASE StoreResponse(p) \/ StoreJobResponseError(p)
  BY SMTT(60), <1>12 DEF StoreResponse, StoreJobResponseError
<1>13. CASE ResponseFilled(p) \/ ErrorResponseLost(p)
  BY SMTT(60), <1>13 DEF ResponseFilled, ErrorResponseLost
<1>23. CASE SendJobReply(p)
  BY <1>23 DEF SendJobReply
<1>14. CASE SendJobReplyFails(p) \/ ReplySent(p)
  BY SMTT(60), <1>14 DEF SendJobReplyFails, ReplySent, AfterReply
<1>15. CASE StopScript(p)
  BY ZenonT(60), <1>15 DEF Stop, reply_is_expected, Interruptible, StopScript
<1>16. CASE StartScript(p) \/ FreeScript(p)
  BY SMTT(60), <1>16 DEF StartScript, FreeScript
<1>17. CASE ForciblyRelease(p) \/ Sigterm(p)
  BY ZenonT(60), <1>17 DEF ForciblyRelease, Sigterm
<1>18. CASE FinishQuery(p)
  BY ZenonT(60), <1>18 DEF FinishQuery
<1>19. CASE StartWorker(p) \/ RunWorker(p)
  BY SMTT(60), <1>19 DEF StartWorker, RunWorker
<1>20. CASE Exit(p) \/ Kill(p)
  <2>1. Die(p)
    BY <1>20 DEF Exit, Kill
  <2> QED
    BY ZenonT(60), <2>1 DEF Die
<1> QED
  BY <1>1, <1>2, <1>3, <1>4, <1>5, <1>6, <1>7, <1>8, <1>9, <1>10, <1>11, <1>12, <1>13, <1>14,
     <1>15, <1>16, <1>17, <1>18, <1>19, <1>20, <1>21, <1>22, <1>23
  DEF Step, ClientStep, ServerStep, LifeStep

-----------------------------------------------------------------------------
(* Job ids.                                                                 *)

\* A script that goes on keeps its ids.
LEMMA IdsMove ==
  ASSUME TypeOK, IdsOK, NEW p \in Proc, NEW x, pc' = [pc EXCEPT ![p] = x],
         pc[p] \in ScriptPoint, x \in ScriptPoint, UNCHANGED <<idVars, waitVars>>,
         x \in {"bind", "write", "sent"} => pc[p] \in {"bind", "write", "sent"}
  PROVE  IdsOK'
<1>1. \A q \in Proc : pc'[q] = IF q = p THEN x ELSE pc[q]
  BY DEF TypeOK, CtlTypeOK
<1>2. /\ begin_slot_id' = begin_slot_id /\ end_slot_id' = end_slot_id /\ sent_ids' = sent_ids
      /\ processing' = processing /\ net_events' = net_events
  BY DEF idVars, waitVars
<1> QED
  BY ZenonT(60), <1>1, <1>2 DEF IdsOK

\* Every step keeps the range of ids that of the running script.
LEMMA IdsStep ==
  ASSUME TypeOK, PointOK, IdsOK, NEW p \in Proc, Step(p)
  PROVE  IdsOK'
<1> USE DEF TypeOK, CtlTypeOK, IdTypeOK, IdsOK, MsgPoint, ScriptPoint, Goto, At, idVars, waitVars
<1>1. CASE StartJob(p) \/ StartMulti(p) \/ CopyGrows(p) \/ CommonFilled(p) \/ BindCommon(p)
  BY ZenonT(60), <1>1 DEF StartJob, StartMulti, CopyGrows, CommonFilled, BindCommon
<1>2. CASE CopyTooBig(p)
  BY <1>2 DEF CopyTooBig, AfterTooBig, AfterJob
<1>3. ASSUME NEW nr \in BOOLEAN, RequestFilled(p, nr)
      PROVE  IdsOK'
  BY SMTT(60), <1>3 DEF RequestFilled
<1>4. CASE SendJob(p) \/ SendJobFails(p) \/ WarnQueueIsFull(p) \/ MultiDone(p)
  <2>1. PICK x \in ScriptPoint :
          /\ pc' = [pc EXCEPT ![p] = x]
          /\ x \in {"bind", "write", "sent"} => pc[p] \in {"bind", "write", "sent"}
    BY SMTT(60), <1>4 DEF SendJob, SendJobFails, WarnQueueIsFull, MultiDone, AfterJob
  <2>2. pc[p] \in ScriptPoint /\ UNCHANGED <<idVars, waitVars>>
    BY <1>4 DEF SendJob, SendJobFails, WarnQueueIsFull, MultiDone
  <2> QED
    BY <2>1, <2>2, IdsMove
<1>5. CASE JobSent(p)
  BY SMTT(60), <1>5 DEF JobSent, AfterJob
<1>6. CASE ReadJobResult(p)
  <2> DEFINE id == metadata[Head(result_pipe[p])].job_id
  <2>1. id \in Nat
    BY SMTT(60), <1>6 DEF ReadJobResult, PipeTypeOK
  <2>2. IsFromCurrentScript(p, id) => id \in sent_ids[p] /\ pc[p] \in ScriptPoint
    <3> SUFFICES ASSUME begin_slot_id[p] <= id, id < end_slot_id[p]
                 PROVE  id \in sent_ids[p] /\ pc[p] \in ScriptPoint
      BY DEF IsFromCurrentScript
    <3> HIDE DEF id
    <3>1. begin_slot_id[p] \in Nat /\ end_slot_id[p] \in Nat
      OBVIOUS
    <3>2. id \in begin_slot_id[p] .. (end_slot_id[p] - 1)
      BY SMTT(60), <2>1, <3>1
    <3> QED
      BY SMTT(60), <2>1, <3>1, <3>2
  <2>3. /\ UNCHANGED <<idVars, processing>>
        /\ \/ /\ UNCHANGED pc
              /\ net_events' = [net_events EXCEPT ![p] =
                   IF IsFromCurrentScript(p, id) THEN @ \cup {id} ELSE @]
           \/ /\ IsFromCurrentScript(p, id)
              /\ Stop(p)
              /\ UNCHANGED net_events
    BY <1>6 DEF ReadJobResult
  <2> HIDE DEF id
  <2>4. CASE UNCHANGED pc
    BY SMTT(60), <2>2, <2>3, <2>4
  <2>5. CASE IsFromCurrentScript(p, id) /\ Stop(p)
    BY SMTT(60), <2>2, <2>3, <2>5 DEF Stop
  <2> QED
    BY <2>3, <2>4, <2>5
<1>7. CASE ProcessJobAnswer(p) \/ ProcessJobTimeout(p)
  BY SMTT(60), <1>7 DEF ProcessJobAnswer, ProcessJobTimeout
<1>14. CASE JobPipeEvent(p) \/ IgnoreJob(p)
  BY <1>14 DEF JobPipeEvent, IgnoreJob
<1>8. CASE TakeJob(p)
  BY <1>8 DEF TakeJob, ReadsJob
<1>12. CASE AttachCommon(p) \/ JobExpired(p)
  BY ZenonT(60), <1>12 DEF AttachCommon, JobExpired
<1>13. CASE StartJobScript(p)
  <2>1. begin_slot_id[p] = end_slot_id[p] /\ processing[p] = {} /\ net_events[p] = {}
    BY <1>13 DEF StartJobScript
  <2>2. begin_slot_id[p] .. (end_slot_id[p] - 1) = {}
    BY SMTT(60), <2>1
  <2> QED
    BY <1>13, <2>1, <2>2 DEF StartJobScript
<1>9. CASE StoreResponse(p) \/ StoreJobResponseError(p) \/ ResponseFilled(p)
  <2>1. PICK x \in {"response", "reply"} : pc' = [pc EXCEPT ![p] = x]
    BY <1>9 DEF StoreResponse, StoreJobResponseError, ResponseFilled
  <2>2. pc[p] \in ScriptPoint /\ UNCHANGED <<idVars, waitVars>>
    BY <1>9 DEF StoreResponse, StoreJobResponseError, ResponseFilled
  <2> QED
    BY <2>1, <2>2, IdsMove
<1>10. CASE ErrorResponseLost(p) \/ SendJobReply(p) \/ SendJobReplyFails(p) \/ ReplySent(p)
  <2>1. PICK x \in ScriptPoint \ {"bind", "write", "sent"} : pc' = [pc EXCEPT ![p] = x]
    BY <1>10 DEF ErrorResponseLost, SendJobReply, SendJobReplyFails, ReplySent, AfterReply
  <2>2. pc[p] \in ScriptPoint /\ UNCHANGED <<idVars, waitVars>>
    BY <1>10 DEF ErrorResponseLost, SendJobReply, SendJobReplyFails, ReplySent
  <2> QED
    BY <2>1, <2>2, IdsMove
<1>11. CASE StopScript(p)
  BY <1>11 DEF Stop, Interruptible, StopScript
<1>15. CASE StartScript(p)
  BY SMTT(60), <1>15 DEF StartScript
<1>16. CASE FreeScript(p)
  BY SMTT(60), <1>16 DEF FreeScript, ClearIds
<1>17. CASE ForciblyRelease(p) \/ Sigterm(p)
  BY <1>17 DEF ForciblyRelease, Sigterm
<1>18. CASE FinishQuery(p)
  BY <1>18 DEF FinishQuery
<1>19. CASE StartWorker(p) \/ RunWorker(p)
  BY ZenonT(60), <1>19 DEF StartWorker, RunWorker
<1>20. CASE Exit(p) \/ Kill(p)
  <2>1. Die(p)
    BY <1>20 DEF Exit, Kill
  <2>2. /\ begin_slot_id' = [begin_slot_id EXCEPT ![p] = end_slot_id[p]]
        /\ processing' = [processing EXCEPT ![p] = {}]
        /\ net_events' = [net_events EXCEPT ![p] = {}]
        /\ pc' = [pc EXCEPT ![p] = "dead"]
        /\ UNCHANGED <<end_slot_id, sent_ids>>
    BY <2>1 DEF Die, ClearIds
  <2>3. end_slot_id[p] .. (end_slot_id[p] - 1) = {}
    BY SMTT(60)
  <2> QED
    BY SMTT(60), <2>2, <2>3
<1> QED
  BY <1>1, <1>2, <1>3, <1>4, <1>5, <1>6, <1>7, <1>8, <1>9, <1>10, <1>11, <1>12,
     <1>13, <1>14, <1>15, <1>16, <1>17, <1>18, <1>19, <1>20
  DEF Step, ClientStep, ServerStep, LifeStep

\* A step of p leaves the tables of the other processes alone.
LEMMA TableFrame ==
  ASSUME TypeOK, NEW p \in Proc, Step(p)
  PROVE  \A q \in Proc \ {p} : attached'[q] = attached[q]
<1> DEFINE Frame == \A q \in Proc \ {p} : attached'[q] = attached[q]
<1>1. ASSUME NEW x, NEW y, replace(p, x, y) PROVE Frame
  BY <1>1 DEF replace, TypeOK, ShmTypeOK
<1>2. ASSUME NEW m, release_shared_message(p, m) PROVE Frame
  BY <1>2 DEF release_shared_message, TypeOK, ShmTypeOK
<1>3. ASSUME UNCHANGED attached PROVE Frame
  BY <1>3
<1>4. CASE StartJob(p) \/ StartMulti(p) \/ StoreResponse(p) \/ StoreJobResponseError(p)
  BY <1>1, <1>4 DEF StartJob, StartMulti, StoreResponse, StoreJobResponseError,
                    acquire_shared_message, attach
<1>5. CASE CopyGrows(p) \/ BindCommon(p)
  BY <1>3, <1>5 DEF CopyGrows, BindCommon, bind_common_job, request_extra_memory_for_resource
<1>6. CASE CopyTooBig(p) \/ MultiDone(p) \/ SendJobReplyFails(p)
  BY <1>2, <1>6 DEF CopyTooBig, MultiDone, SendJobReplyFails
<1>7. CASE SendJobFails(p) \/ JobSent(p) \/ ReplySent(p)
  BY <1>1, <1>7 DEF SendJobFails, JobSent, ReplySent, unbind_and_release,
                    detach_shared_message_from_this_proc, detach
<1>8. CASE ReadJobResult(p)
  BY <1>3, <1>8 DEF ReadJobResult, attach_then_release
<1>9. CASE TakeJob(p) \/ AttachCommon(p)
  BY <1>1, <1>9 DEF TakeJob, ReadsJob, AttachCommon, attach_shared_message_to_this_proc, attach
<1>10. CASE FreeScript(p)
  BY <1>2, <1>3, <1>10 DEF FreeScript, shmVars
<1>11. CASE ForciblyRelease(p)
  BY <1>2, <1>11 DEF ForciblyRelease, forcibly_release_next
<1>12. CASE UNCHANGED shmVars
  BY <1>3, <1>12 DEF shmVars
<1> QED
  BY <1>4, <1>5, <1>6, <1>7, <1>8, <1>9, <1>10, <1>11, <1>12, ShmFrame

\* A step of p leaves the other processes where they were.
LEMMA OthersKept ==
  ASSUME TypeOK, NEW p \in Proc, Step(p)
  PROVE  Others(p)
<1> USE DEF Goto, ctlVars, jobVars
<1> DEFINE Kept(f, g) == \A q \in Proc \ {p} : g[q] = f[q]
<1>t. /\ pc \in [Proc -> Point]
      /\ msg \in [Proc -> Msg \cup {NoMsg}]
      /\ com \in [Proc -> Msg \cup {NoMsg}]
      /\ running_job \in [Proc -> Msg \cup {NoMsg}]
  BY DEF TypeOK, CtlTypeOK, ServerTypeOK
<1>1. Kept(pc, pc') /\ Kept(msg, msg') /\ Kept(com, com') /\ Kept(running_job, running_job')
  <2>1. CASE StartJob(p) \/ StartMulti(p) \/ CopyGrows(p) \/ CopyTooBig(p) \/ CommonFilled(p)
    BY <1>t, <2>1 DEF StartJob, StartMulti, CopyGrows, CopyTooBig, CommonFilled
  <2>2. ASSUME NEW nr \in BOOLEAN, RequestFilled(p, nr)
        PROVE  Kept(pc, pc') /\ Kept(msg, msg') /\ Kept(com, com') /\ Kept(running_job, running_job')
    BY <1>t, <2>2 DEF RequestFilled
  <2>3. CASE \/ BindCommon(p) \/ SendJob(p) \/ SendJobFails(p) \/ WarnQueueIsFull(p) \/ JobSent(p)
             \/ MultiDone(p)
    BY <1>t, <2>3 DEF BindCommon, SendJob, SendJobFails, WarnQueueIsFull, JobSent, MultiDone
  <2>4. CASE ReadJobResult(p)
    <3>1. UNCHANGED <<msg, com, running_job>> /\ (UNCHANGED pc \/ Stop(p))
      BY <2>4 DEF ReadJobResult
    <3> QED
      BY <1>t, <3>1 DEF Stop
  <2>5. CASE ProcessJobAnswer(p) \/ ProcessJobTimeout(p)
    BY <2>5 DEF ProcessJobAnswer, ProcessJobTimeout
  <2>6. CASE \/ JobPipeEvent(p) \/ IgnoreJob(p) \/ TakeJob(p) \/ AttachCommon(p)
             \/ StartJobScript(p) \/ JobExpired(p)
    BY <1>t, <2>6 DEF JobPipeEvent, IgnoreJob, TakeJob, ReadsJob, AttachCommon, StartJobScript, JobExpired
  <2>7. CASE \/ StoreResponse(p) \/ ResponseFilled(p) \/ StoreJobResponseError(p)
             \/ ErrorResponseLost(p) \/ SendJobReply(p) \/ SendJobReplyFails(p) \/ ReplySent(p)
    BY <1>t, <2>7 DEF StoreResponse, ResponseFilled, StoreJobResponseError, ErrorResponseLost,
                      SendJobReply, SendJobReplyFails, ReplySent
  <2>8. CASE \/ StartScript(p) \/ StopScript(p) \/ FreeScript(p) \/ ForciblyRelease(p)
             \/ FinishQuery(p) \/ StartWorker(p)
    BY <1>t, <2>8 DEF StartScript, StopScript, Stop, FreeScript, ForciblyRelease, FinishQuery,
                      StartWorker
  <2>9. CASE Sigterm(p) \/ RunWorker(p)
    BY <1>t, <2>9 DEF Sigterm, RunWorker
  <2>10. CASE Exit(p) \/ Kill(p)
    <3>1. Die(p)
      BY <2>10 DEF Exit, Kill
    <3> QED
      BY <1>t, <3>1 DEF Die
  <2> QED
    BY <2>1, <2>2, <2>3, <2>4, <2>5, <2>6, <2>7, <2>8, <2>9, <2>10
    DEF Step, ClientStep, ServerStep, LifeStep
<1> QED
  BY <1>1, TableFrame DEF Others

\* Types, points and ids are right at first.
LEMMA ScriptInvInit == Init => ScriptInv
<1> SUFFICES ASSUME Init PROVE ScriptInv
  OBVIOUS
<1>1. TypeOK
  BY TypeInit
<1>2. PointOK
  BY DEF Init, PointOK, MsgPoint, ScriptPoint
<1>3. IdsOK
  BY SMTT(60) DEF Init, IdsOK, ScriptPoint, MsgPoint
<1> QED
  BY <1>1, <1>2, <1>3 DEF ScriptInv

\* Every step keeps them.
LEMMA ScriptInvStep == ScriptInv /\ [Next]_vars => ScriptInv'
<1> SUFFICES ASSUME ScriptInv, [Next]_vars PROVE ScriptInv'
  OBVIOUS
<1> USE DEF ScriptInv
<1>1. TypeOK'
  BY TypeStep
<1>2. CASE UNCHANGED vars
  BY <1>1, <1>2
  DEF vars, shmVars, pipeVars, ctlVars, idVars, waitVars, jobVars, PointOK, IdsOK
<1>3. ASSUME NEW p \in Proc, Step(p)
      PROVE  ScriptInv'
  BY <1>1, <1>3, PointStep, IdsStep
<1> QED
  BY <1>2, <1>3 DEF Next, Step

\* Type correctness of the job workers.
THEOREM TypeCorrect == Spec => []TypeOK
<1>1. ScriptInv => TypeOK
  BY DEF ScriptInv
<1> QED
  BY <1>1, ScriptInvInit, ScriptInvStep, PTL DEF Spec

\* However late an answer comes and whatever died in between, a script is given
\* the answers and the timeouts of its own jobs only.
THEOREM AnswersReachTheirScript == Spec => []AnswersOfThisScript
<1>1. ScriptInv => AnswersOfThisScript
  BY DEF ScriptInv, IdsOK, AnswersOfThisScript
<1> QED
  BY <1>1, ScriptInvInit, ScriptInvStep, PTL DEF Spec

\* Every step keeps the idle job workers awake.
LEMMA ListenStep ==
  ASSUME ScriptInv, IdleWorkersListen, [Next]_vars
  PROVE  IdleWorkersListen'
<1>1. CASE UNCHANGED vars
  BY ZenonT(60), <1>1 DEF vars, pollVars, stopVars, IdleWorkersListen, At
<1>2. ASSUME NEW p \in Proc, Step(p)
      PROVE  IdleWorkersListen'
  <2> USE DEF Goto, At, pollVars, stopVars
  <2>t. /\ pc \in [Proc -> Point]
        /\ armed \in [Proc -> BOOLEAN]
        /\ event \in [Proc -> BOOLEAN]
        /\ sigterm_on \in [Proc -> BOOLEAN]
    BY ZenonT(60) DEF ScriptInv, TypeOK, CtlTypeOK, ServerTypeOK
  <2>o. \A q \in Proc \ {p} : pc'[q] = pc[q]
    BY ZenonT(60), <1>2, OthersKept DEF ScriptInv, Others
  <2>1. CASE FinishQuery(p) \/ StartWorker(p)
    BY ZenonT(60), <2>t, <2>o, <2>1, JobAssumption DEF FinishQuery, StartWorker, IdleWorkersListen
  <2>2. CASE IgnoreJob(p)
    <3>1. pc[p] = "idle" => running_job[p] = NoMsg
      BY ZenonT(60) DEF ScriptInv, PointOK
    <3> QED
      BY ZenonT(60), <2>t, <2>2, <3>1, JobAssumption DEF IgnoreJob, IdleWorkersListen
  <2>3. CASE JobPipeEvent(p)
    BY ZenonT(60), <2>t, <2>3, JobAssumption DEF JobPipeEvent, IdleWorkersListen
  <2>4. CASE TakeJob(p)
    BY ZenonT(60), <2>t, <2>o, <2>4, JobAssumption DEF TakeJob, IdleWorkersListen
  <2>5. CASE Exit(p) \/ Kill(p)
    BY ZenonT(60), <2>t, <2>o, <2>5, JobAssumption DEF Exit, Kill, Die, IdleWorkersListen
  <2>6. CASE Sigterm(p)
    BY ZenonT(60), <2>t, <2>6, JobAssumption DEF Sigterm, IdleWorkersListen
  <2>7. CASE /\ UNCHANGED <<armed, event, sigterm_on>>
             /\ pc'[p] = "idle" => pc[p] = "idle"
    BY ZenonT(60), <2>o, <2>7, JobAssumption DEF IdleWorkersListen
  <2>8. CASE ClientStep(p)
    BY ZenonT(60), <2>t, <2>7, <2>8
    DEF ClientStep, StartJob, StartMulti, CopyGrows, CopyTooBig, CommonFilled, RequestFilled,
        BindCommon, SendJob, SendJobFails, WarnQueueIsFull, JobSent, MultiDone, ReadJobResult,
        ProcessJobAnswer, ProcessJobTimeout, AfterJob, AfterTooBig, Stop
  <2>9. CASE \/ AttachCommon(p) \/ StartJobScript(p) \/ JobExpired(p) \/ StoreResponse(p)
             \/ ResponseFilled(p) \/ StoreJobResponseError(p) \/ ErrorResponseLost(p)
             \/ SendJobReply(p) \/ SendJobReplyFails(p) \/ ReplySent(p)
    BY ZenonT(60), <2>t, <2>7, <2>9
    DEF AttachCommon, StartJobScript, JobExpired, StoreResponse, ResponseFilled,
        StoreJobResponseError, ErrorResponseLost, SendJobReply, SendJobReplyFails, ReplySent,
        AfterReply
  <2>10. CASE \/ StartScript(p) \/ StopScript(p) \/ FreeScript(p) \/ ForciblyRelease(p)
              \/ RunWorker(p)
    BY ZenonT(60), <2>t, <2>7, <2>10
    DEF StartScript, StopScript, Stop, FreeScript, ForciblyRelease, RunWorker
  <2> QED
    BY ZenonT(60), <1>2, <2>1, <2>2, <2>3, <2>4, <2>5, <2>6, <2>8, <2>9, <2>10
    DEF Step, ServerStep, LifeStep
<1> QED
  BY ZenonT(60), <1>1, <1>2 DEF Next, Step

\* A job worker without a job is reached by the next one, whoever gets the jobs
\* before it.
THEOREM IdleWorkersAreReached == Spec => []IdleWorkersListen
<1>1. Init => IdleWorkersListen
  BY ZenonT(60), JobAssumption DEF Init, IdleWorkersListen, At
<1> QED
  BY <1>1, ListenStep, ScriptInvInit, ScriptInvStep, PTL DEF Spec

-----------------------------------------------------------------------------
(* Extra buffers.                                                           *)

\* The chains of released messages become free buffers.
LEMMA ReturnExtraKeeps ==
  ASSUME ShmTypeOK, ExtraOK, NEW F \in SUBSET Msg, ReturnExtra(F),
         free_messages' = free_messages \cup F
  PROVE  ExtraOK'
<1>1. \A m \in Msg : extra'[m] = IF m \in F THEN {} ELSE extra[m]
  BY ZenonT(60) DEF ReturnExtra
<1>2. \A b : b \in free_extra' <=> b \in free_extra \/ \E m \in F : b \in extra[m]
  BY ZenonT(60) DEF ReturnExtra
<1>3. free_messages \subseteq Msg
  BY DEF ShmTypeOK
<1>4. \A m \in free_messages' : extra'[m] = {}
  BY ZenonT(60), <1>1, <1>3 DEF ExtraOK
<1>5. \A m \in Msg : extra'[m] \cap free_extra' = {}
  BY ZenonT(60), <1>1, <1>2 DEF ExtraOK
<1>6. \A m, n \in Msg : m # n => extra'[m] \cap extra'[n] = {}
  BY ZenonT(60), <1>1 DEF ExtraOK
<1>7. \A b \in Buffer \ free_extra' : \E m \in Msg : b \in extra'[m]
  BY ZenonT(60), <1>1, <1>2 DEF ExtraOK
<1> QED
  BY ZenonT(60), <1>4, <1>5, <1>6, <1>7 DEF ExtraOK

\* A message in use gets one more buffer.
LEMMA GrowKeeps ==
  ASSUME ShmTypeOK, ExtraOK, NEW m \in Msg \ free_messages, NEW g,
         request_extra_memory_for_resource(m, g)
  PROVE  ExtraOK'
<1>1. PICK b \in free_extra : /\ free_extra' = free_extra \ {b}
                              /\ extra' = [extra EXCEPT ![m] = @ \cup {b}]
                              /\ free_messages' = free_messages
  BY ZenonT(60) DEF request_extra_memory_for_resource, FitsBest
<1>2. \A n \in Msg : extra'[n] = IF n = m THEN extra[m] \cup {b} ELSE extra[n]
  BY ZenonT(60), <1>1 DEF ShmTypeOK
<1>3. free_messages \subseteq Msg
  BY DEF ShmTypeOK
<1>4. \A n \in free_messages' : extra'[n] = {}
  BY ZenonT(60), <1>1, <1>2, <1>3 DEF ExtraOK
<1>5. \A n \in Msg : extra'[n] \cap free_extra' = {}
  BY SMTT(60), <1>1, <1>2 DEF ExtraOK
<1>6. \A k, n \in Msg : k # n => extra'[k] \cap extra'[n] = {}
  BY SMTT(60), <1>1, <1>2 DEF ExtraOK
<1>7. \A c \in Buffer \ free_extra' : \E n \in Msg : c \in extra'[n]
  BY SMTT(60), <1>1, <1>2 DEF ExtraOK
<1> QED
  BY ZenonT(60), <1>4, <1>5, <1>6, <1>7 DEF ExtraOK

\* A message is taken from the pool without a chain.
LEMMA AcquireExtra ==
  ASSUME ShmTypeOK, ExtraOK, NEW p, NEW m \in Msg, acquire_shared_message(p, m)
  PROVE  ExtraOK'
<1>1. m \in free_messages /\ free_messages' = free_messages \ {m} /\ free_extra' = free_extra
      /\ extra' = [extra EXCEPT ![m] = {}]
  BY DEF acquire_shared_message
<1>2. extra' = extra
  BY ZenonT(60), <1>1 DEF ShmTypeOK, ExtraOK
<1> QED
  BY ZenonT(60), <1>1, <1>2 DEF ExtraOK

\* A release gives back the chains of all messages it frees.
LEMMA ReleaseExtra ==
  ASSUME ShmTypeOK, ExtraOK, NEW p, NEW m \in Msg, release_shared_message(p, m)
  PROVE  ExtraOK'
<1>1. Freed(m) \in SUBSET Msg
  BY DEF Freed, Dropped, ShmTypeOK
<1> QED
  BY ZenonT(60), <1>1, ReturnExtraKeeps DEF release_shared_message

-----------------------------------------------------------------------------
(* Jobs that were not replied to.                                           *)

\* No message becomes a job that awaits its response.
LEMMA UnansweredKept ==
  ASSUME NEW p \in Proc, Others(p),
         \A q \in Proc \ {p} : reply_was_sent'[q] = reply_was_sent[q],
         \A m \in Msg : JobQueued(m)' => Unanswered(m),
         pc'[p] \in {"bind", "write"} => pc[p] \in {"bind", "write"} /\ msg'[p] = msg[p],
         pc'[p] \in {"parse", "ready"} \cup ScriptPoint /\ running_job'[p] \in Msg
           /\ ~reply_was_sent'[p] => Unanswered(running_job'[p])
  PROVE  \A m \in Msg : Unanswered(m)' => Unanswered(m)
<1> SUFFICES ASSUME NEW m \in Msg, Unanswered(m)' PROVE Unanswered(m)
  OBVIOUS
<1>1. CASE JobQueued(m)'
  BY ZenonT(60), <1>1
<1>2. ASSUME NEW q \in Proc, msg'[q] = m, pc'[q] \in {"bind", "write"} PROVE Unanswered(m)
  BY ZenonT(60), <1>2 DEF Others, Unanswered
<1>3. ASSUME NEW q \in Proc, running_job'[q] = m, ~reply_was_sent'[q],
             pc'[q] \in {"parse", "ready"} \cup ScriptPoint
      PROVE  Unanswered(m)
  BY ZenonT(60), <1>3 DEF Others, Unanswered
<1> QED
  BY ZenonT(60), <1>1, <1>2, <1>3 DEF Unanswered

\* A step of p leaves what the others know of their replies alone.
LEMMA ReplyFrame ==
  ASSUME TypeOK, NEW p \in Proc, Step(p)
  PROVE  \A q \in Proc \ {p} : reply_was_sent'[q] = reply_was_sent[q]
<1>t. reply_was_sent \in [Proc -> BOOLEAN]
  BY DEF TypeOK, ServerTypeOK
<1>1. CASE ClientStep(p)
  BY ZenonT(60), <1>1
  DEF ClientStep, StartJob, StartMulti, CopyGrows, CopyTooBig, CommonFilled, RequestFilled,
      BindCommon, SendJob, SendJobFails, WarnQueueIsFull, JobSent, MultiDone, ReadJobResult,
      ProcessJobAnswer, ProcessJobTimeout, jobVars
<1>2. CASE ServerStep(p)
  BY ZenonT(60), <1>2, <1>t
  DEF ServerStep, JobPipeEvent, IgnoreJob, TakeJob, ReadsJob, AttachCommon, StartJobScript, JobExpired,
      StoreResponse, ResponseFilled, StoreJobResponseError, ErrorResponseLost, SendJobReply,
      SendJobReplyFails, ReplySent, jobVars
<1>3. CASE LifeStep(p)
  BY ZenonT(60), <1>3, <1>t
  DEF LifeStep, StartScript, StopScript, FreeScript, ForciblyRelease, FinishQuery, StartWorker,
      Sigterm, Exit, Kill, RunWorker, Die, jobVars
<1> QED
  BY ZenonT(60), <1>1, <1>2, <1>3 DEF Step

\* A new job has a new id.
LEMMA CreateReplies ==
  ASSUME ScriptInv, RepliesOK, NEW p \in Proc, NEW nr \in BOOLEAN, RequestFilled(p, nr),
         Others(p), \A q \in Proc \ {p} : reply_was_sent'[q] = reply_was_sent[q]
  PROVE  RepliesOK'
<1>t. /\ metadata \in [Msg -> [job_id : Nat, fd : Proc, no_reply : BOOLEAN]]
      /\ replied \subseteq Proc \X Nat
      /\ end_slot_id \in [Proc -> Nat]
      /\ pc \in [Proc -> Point]
      /\ msg[p] \in Msg
  BY ZenonT(60) DEF ScriptInv, TypeOK, PipeTypeOK, IdTypeOK, CtlTypeOK, PointOK, RequestFilled, At,
                    MsgPoint
<1>1. /\ pc[p] = "request" /\ pc'[p] \in {"bind", "write"}
      /\ UNCHANGED <<job_pipe, replied, msg, running_job, reply_was_sent>>
      /\ metadata' = [metadata EXCEPT ![msg[p]] =
                        [job_id |-> end_slot_id[p], fd |-> p, no_reply |-> nr]]
      /\ end_slot_id' = [end_slot_id EXCEPT ![p] = @ + 1]
  BY ZenonT(60), <1>t DEF RequestFilled, Goto, At, jobVars
<1>2. /\ metadata'[msg[p]].fd = p /\ metadata'[msg[p]].job_id = end_slot_id[p]
      /\ \A m \in Msg \ {msg[p]} : metadata'[m] = metadata[m]
  BY <1>t, <1>1
<1>3. /\ end_slot_id'[p] = end_slot_id[p] + 1
      /\ \A q \in Proc \ {p} : end_slot_id'[q] = end_slot_id[q]
      /\ \A q \in Proc : end_slot_id[q] \in Nat
  BY <1>t, <1>1
<1>4. \A m \in Msg \ {msg[p]} : Unanswered(m)' => Unanswered(m)
  <2> SUFFICES ASSUME NEW m \in Msg \ {msg[p]}, Unanswered(m)' PROVE Unanswered(m)
    OBVIOUS
  <2>1. CASE JobQueued(m)'
    BY ZenonT(60), <1>1, <2>1 DEF Unanswered, JobQueued
  <2>2. ASSUME NEW q \in Proc, msg'[q] = m, pc'[q] \in {"bind", "write"} PROVE Unanswered(m)
    BY ZenonT(60), <1>1, <2>2 DEF Others, Unanswered
  <2>3. ASSUME NEW q \in Proc, running_job'[q] = m, ~reply_was_sent'[q],
               pc'[q] \in {"parse", "ready"} \cup ScriptPoint
        PROVE  Unanswered(m)
    BY ZenonT(60), <1>1, <2>3 DEF Others, Unanswered, ScriptPoint, MsgPoint
  <2> QED
    BY ZenonT(60), <2>1, <2>2, <2>3 DEF Unanswered
<1>5. ASSUME NEW m \in Msg \ {msg[p]}, Unanswered(m)'
      PROVE  /\ JobOf(m)' = JobOf(m) /\ JobOf(m) \notin replied
             /\ metadata[m].fd \in Proc /\ metadata[m].job_id < end_slot_id[metadata[m].fd]
  BY ZenonT(60), <1>2, <1>4, <1>5, <1>t DEF RepliesOK, JobOf
<1>6. \A r \in replied : r \in Proc \X Nat /\ r[1] \in Proc /\ r[2] \in Nat /\ r[2] < end_slot_id[r[1]]
  BY <1>t DEF RepliesOK
<1>7. \A m \in Msg : Unanswered(m)' => /\ JobOf(m)' \notin replied'
                                       /\ metadata'[m].job_id < end_slot_id'[metadata'[m].fd]
  <2>1. JobOf(msg[p])' = <<p, end_slot_id[p]>>
    BY ZenonT(60), <1>1, <1>2 DEF JobOf
  <2>2. <<p, end_slot_id[p]>> \notin replied
    BY SMTT(60), <1>3, <1>6
  <2>3. metadata'[msg[p]].job_id < end_slot_id'[metadata'[msg[p]].fd]
    BY SMTT(60), <1>2, <1>3
  <2>4. ASSUME NEW m \in Msg \ {msg[p]}, Unanswered(m)'
        PROVE  metadata'[m].job_id < end_slot_id'[metadata'[m].fd]
    <3>1. /\ metadata'[m] = metadata[m] /\ metadata[m].job_id \in Nat /\ metadata[m].fd \in Proc
          /\ metadata[m].job_id < end_slot_id[metadata[m].fd]
      BY ZenonT(60), <1>2, <1>5, <1>t, <2>4
    <3> QED
      BY SMTT(60), <1>3, <3>1
  <2> QED
    BY ZenonT(60), <1>1, <1>5, <2>1, <2>2, <2>3, <2>4
<1>8. \A m \in Msg \ {msg[p]} : Unanswered(m)' => JobOf(m)' # JobOf(msg[p])'
  <2> SUFFICES ASSUME NEW m \in Msg \ {msg[p]}, Unanswered(m)' PROVE JobOf(m)' # JobOf(msg[p])'
    OBVIOUS
  <2>1. JobOf(m)' = <<metadata[m].fd, metadata[m].job_id>>
    BY ZenonT(60), <1>5 DEF JobOf
  <2>2. JobOf(msg[p])' = <<p, end_slot_id[p]>>
    BY ZenonT(60), <1>1, <1>2 DEF JobOf
  <2>3. metadata[m].fd = p => metadata[m].job_id # end_slot_id[p]
    BY SMTT(60), <1>3, <1>5, <1>t
  <2> QED
    BY SMTT(60), <2>1, <2>2, <2>3
<1>9. \A m, n \in Msg : Unanswered(m)' /\ Unanswered(n)' /\ JobOf(m)' = JobOf(n)' => m = n
  <2>1. ASSUME NEW m \in Msg \ {msg[p]}, NEW n \in Msg \ {msg[p]}, Unanswered(m)', Unanswered(n)',
               JobOf(m)' = JobOf(n)'
        PROVE  m = n
    <3>1. Unanswered(m) /\ Unanswered(n) /\ JobOf(m) = JobOf(n)
      BY ZenonT(60), <1>4, <1>5, <2>1
    <3> QED
      BY ZenonT(60), <3>1 DEF RepliesOK
  <2> QED
    BY ZenonT(60), <1>1, <1>8, <2>1
<1>10. \A r \in replied' : r[2] < end_slot_id'[r[1]]
  BY SMTT(60), <1>1, <1>3, <1>6
<1> QED
  BY ZenonT(60), <1>7, <1>9, <1>10 DEF RepliesOK

-----------------------------------------------------------------------------
(* Scripts that were stopped.                                               *)

\* A script is stopped once, and what it stops at is one of these points.
LEMMA StoppedStep ==
  ASSUME TypeOK, PointOK, SlotsOK, NEW p \in Proc, Step(p)
  PROVE  /\ stopped'[p] => pc'[p] \in {"error", "reply", "replied", "free", "finish"}
         /\ pc'[p] = "error" => stopped'[p]
         /\ \A q \in Proc \ {p} : stopped'[q] = stopped[q]
<1>t. pc \in [Proc -> Point] /\ stopped \in [Proc -> BOOLEAN]
  BY ZenonT(60) DEF TypeOK, CtlTypeOK
<1>r. /\ stopped[p] => pc[p] \in {"error", "reply", "replied", "free", "finish"}
      /\ pc[p] = "error" => stopped[p]
  BY ZenonT(60) DEF SlotsOK, RoomOK, At
<1> USE DEF Goto, At, ctlVars
<1>1. CASE \/ StartJob(p) \/ StartMulti(p) \/ CopyGrows(p) \/ CopyTooBig(p) \/ CommonFilled(p)
           \/ \E nr \in BOOLEAN : RequestFilled(p, nr)
  BY ZenonT(60), <1>1, <1>r, <1>t
  DEF StartJob, StartMulti, CopyGrows, CopyTooBig, CommonFilled, RequestFilled, AfterTooBig,
      AfterJob
<1>2. CASE \/ BindCommon(p) \/ SendJob(p) \/ SendJobFails(p) \/ WarnQueueIsFull(p) \/ JobSent(p)
           \/ MultiDone(p)
  BY ZenonT(60), <1>2, <1>r, <1>t
  DEF BindCommon, SendJob, SendJobFails, WarnQueueIsFull, JobSent, MultiDone, AfterJob
<1>3. CASE ReadJobResult(p)
  <2>1. UNCHANGED <<pc, stopped>> \/ Stop(p)
    BY ZenonT(60), <1>3 DEF ReadJobResult
  <2> QED
    BY ZenonT(60), <1>r, <1>t, <2>1 DEF Stop
<1>4. CASE ProcessJobAnswer(p) \/ ProcessJobTimeout(p) \/ JobPipeEvent(p) \/ IgnoreJob(p)
  BY ZenonT(60), <1>4, <1>r DEF ProcessJobAnswer, ProcessJobTimeout, JobPipeEvent, IgnoreJob
<1>5. CASE TakeJob(p) \/ AttachCommon(p) \/ StartJobScript(p) \/ JobExpired(p)
  BY ZenonT(60), <1>5, <1>r, <1>t DEF TakeJob, ReadsJob, AttachCommon, StartJobScript, JobExpired
<1>6. CASE \/ StoreResponse(p) \/ ResponseFilled(p) \/ StoreJobResponseError(p)
           \/ ErrorResponseLost(p) \/ SendJobReply(p) \/ SendJobReplyFails(p) \/ ReplySent(p)
  BY ZenonT(60), <1>6, <1>r, <1>t
  DEF StoreResponse, ResponseFilled, StoreJobResponseError, ErrorResponseLost, SendJobReply,
      SendJobReplyFails, ReplySent, AfterReply
<1>7. CASE StartScript(p) \/ StopScript(p) \/ FreeScript(p) \/ ForciblyRelease(p) \/ Sigterm(p)
  BY ZenonT(60), <1>7, <1>r, <1>t
  DEF StartScript, StopScript, Stop, FreeScript, ForciblyRelease, Sigterm
<1>8. CASE FinishQuery(p) \/ StartWorker(p) \/ RunWorker(p)
  BY ZenonT(60), <1>8, <1>r, <1>t DEF FinishQuery, StartWorker, RunWorker
<1>9. CASE Exit(p) \/ Kill(p)
  <2>1. Die(p)
    BY ZenonT(60), <1>9 DEF Exit, Kill
  <2> QED
    BY ZenonT(60), <1>t, <2>1 DEF Die
<1> QED
  BY ZenonT(60), <1>1, <1>2, <1>3, <1>4, <1>5, <1>6, <1>7, <1>8, <1>9
  DEF Step, ClientStep, ServerStep, LifeStep

\* What a table holds after a message was put into it, or another taken out.
LEMMA ReplaceRoom ==
  ASSUME ShmTypeOK, NEW p \in Proc, NEW old, NEW new, replace(p, old, new)
  PROVE  TableOf(p)' \subseteq TableOf(p) \cup {new}
<1>1. PICK i \in Slot : attached' = [attached EXCEPT ![p] = [@ EXCEPT ![i] = new]]
  BY ZenonT(60) DEF replace
<1>2. \A k \in Slot : attached'[p][k] \in {attached[p][k], new}
  BY <1>1 DEF ShmTypeOK
<1> QED
  BY ZenonT(60), <1>2 DEF TableOf

-----------------------------------------------------------------------------
(* Writes to messages.                                                      *)

\* The messages that a step of p writes to, or binds: free ones, and the one that p
\* is working on.
Written(p, m) ==
  \/ m \in free_messages
  \/ m \in free_messages'
  \/ m = msg[p] /\ pc[p] \in {"request", "bind", "write", "response", "reply"}
  \/ m = com[p] /\ pc[p] = "common"

\* The chains that are given back are those of messages that become free.
LEMMA ReturnWrites ==
  ASSUME NEW p \in Proc, NEW F, ReturnExtra(F), free_messages' = free_messages \cup F
  PROVE  \A m \in Msg : extra'[m] = extra[m] \/ Written(p, m)
BY ZenonT(60) DEF ReturnExtra, Written

\* A step changes the metadata of the messages that it writes to, and of no others.
LEMMA MetadataWritten ==
  ASSUME ScriptInv, NEW p \in Proc, Step(p), NEW m \in Msg
  PROVE  metadata'[m] = metadata[m] \/ Written(p, m)
<1>t. PipeTypeOK
  BY ZenonT(60) DEF ScriptInv, TypeOK
<1>1. CASE \E nr \in BOOLEAN : RequestFilled(p, nr)
  <2>1. pc[p] = "request" /\ \E x : metadata' = [metadata EXCEPT ![msg[p]] = x]
    BY ZenonT(60), <1>1 DEF RequestFilled, At
  <2>2. m # msg[p] => metadata'[m] = metadata[m]
    BY SMTT(60), <1>t, <2>1 DEF PipeTypeOK
  <2> QED
    BY ZenonT(60), <2>1, <2>2 DEF Written
<1>2. CASE SendJobReply(p)
  <2>1. pc[p] = "reply" /\ \E x : metadata' = [metadata EXCEPT ![msg[p]] = x]
    BY ZenonT(60), <1>2 DEF SendJobReply, At
  <2>2. m # msg[p] => metadata'[m] = metadata[m]
    BY SMTT(60), <1>t, <2>1 DEF PipeTypeOK
  <2> QED
    BY ZenonT(60), <2>1, <2>2 DEF Written
<1>3. CASE SendJob(p) \/ ReadJobResult(p) \/ TakeJob(p) \/ Kill(p)
  BY ZenonT(60), <1>3, KillReads DEF SendJob, ReadJobResult, TakeJob
<1>4. CASE UNCHANGED pipeVars
  BY ZenonT(60), <1>4 DEF pipeVars
<1> QED
  BY ZenonT(60), <1>1, <1>2, <1>3, <1>4, PipeFrame

\* The pieces of the jobs: only a bind adds one, and the failed send of a job and a
\* message that is taken from the pool lose theirs.
LEMMA PieceWritten ==
  ASSUME ScriptInv, NEW p \in Proc, Step(p), NEW m \in Msg
  PROVE  \/ common_job'[m] = common_job[m]
         \/ Written(p, m) /\ common_job'[m] = NoMsg
         \/ Written(p, m) /\ common_job'[m] = com[p] /\ pc[p] = "bind"
<1>t. ShmTypeOK
  BY ZenonT(60) DEF ScriptInv, TypeOK
<1>1. CASE StartJob(p) \/ StartMulti(p) \/ StoreResponse(p) \/ StoreJobResponseError(p)
  <2>1. PICK n \in free_messages : common_job' = [common_job EXCEPT ![n] = NoMsg]
    BY ZenonT(60), <1>1
    DEF StartJob, StartMulti, StoreResponse, StoreJobResponseError, acquire_shared_message
  <2> QED
    BY ZenonT(60), <1>t, <2>1 DEF ShmTypeOK, Written
<1>2. CASE SendJobFails(p)
  <2>1. pc[p] = "write" /\ common_job' = [common_job EXCEPT ![msg[p]] = NoMsg]
    BY ZenonT(60), <1>2 DEF SendJobFails, unbind_and_release, At
  <2> QED
    BY ZenonT(60), <1>t, <2>1 DEF ShmTypeOK, Written
<1>3. CASE BindCommon(p)
  <2>1. pc[p] = "bind" /\ common_job' = [common_job EXCEPT ![msg[p]] = com[p]]
    BY ZenonT(60), <1>3 DEF BindCommon, bind_common_job, At
  <2> QED
    BY ZenonT(60), <1>t, <2>1 DEF ShmTypeOK, Written
<1>4. CASE CopyGrows(p) \/ CopyTooBig(p) \/ MultiDone(p) \/ SendJobReplyFails(p)
           \/ ForciblyRelease(p)
  BY ZenonT(60), <1>4
  DEF CopyGrows, CopyTooBig, MultiDone, SendJobReplyFails, ForciblyRelease,
      request_extra_memory_for_resource, release_shared_message, forcibly_release_next
<1>5. CASE FreeScript(p)
  BY ZenonT(60), <1>5 DEF FreeScript, release_shared_message, shmVars
<1>6. CASE JobSent(p) \/ ReadJobResult(p) \/ TakeJob(p) \/ AttachCommon(p) \/ ReplySent(p)
  BY ZenonT(60), <1>6
  DEF JobSent, ReadJobResult, TakeJob, ReadsJob, AttachCommon, ReplySent, attach_then_release,
      detach_shared_message_from_this_proc, attach_shared_message_to_this_proc
<1>7. CASE UNCHANGED shmVars
  BY ZenonT(60), <1>7 DEF shmVars
<1> QED
  BY ZenonT(60), <1>1, <1>2, <1>3, <1>4, <1>5, <1>6, <1>7, ShmFrame

\* The memory of the messages: a copy grows, a freed message loses its buffers.
LEMMA MemoryWritten ==
  ASSUME ScriptInv, NEW p \in Proc, Step(p), NEW m \in Msg
  PROVE  extra'[m] = extra[m] \/ Written(p, m)
<1>t. ShmTypeOK
  BY ZenonT(60) DEF ScriptInv, TypeOK
<1>1. CASE StartJob(p) \/ StartMulti(p) \/ StoreResponse(p) \/ StoreJobResponseError(p)
  <2>1. PICK n \in free_messages : extra' = [extra EXCEPT ![n] = {}]
    BY ZenonT(60), <1>1
    DEF StartJob, StartMulti, StoreResponse, StoreJobResponseError, acquire_shared_message
  <2> QED
    BY ZenonT(60), <1>t, <2>1 DEF ShmTypeOK, Written
<1>2. CASE CopyGrows(p)
  <2>1. /\ pc[p] \in {"common", "request", "response"}
        /\ \E b : extra' = [extra EXCEPT ![Filling(p)] = @ \cup {b}]
    BY ZenonT(60), <1>2 DEF CopyGrows, request_extra_memory_for_resource
  <2>2. m # Filling(p) => extra'[m] = extra[m]
    BY ZenonT(60), <1>t, <2>1 DEF ShmTypeOK
  <2> QED
    BY ZenonT(60), <2>1, <2>2 DEF Written, Filling, At
<1>3. ASSUME NEW x, release_shared_message(p, x) PROVE extra'[m] = extra[m] \/ Written(p, m)
  BY ZenonT(60), <1>3, ReturnWrites DEF release_shared_message
<1>4. CASE CopyTooBig(p) \/ MultiDone(p) \/ SendJobReplyFails(p) \/ ForciblyRelease(p)
  BY ZenonT(60), <1>3, <1>4
  DEF CopyTooBig, MultiDone, SendJobReplyFails, ForciblyRelease, forcibly_release_next
<1>5. CASE FreeScript(p)
  BY ZenonT(60), <1>3, <1>5 DEF FreeScript, shmVars
<1>6. CASE SendJobFails(p)
  BY ZenonT(60), <1>6, ReturnWrites DEF SendJobFails, unbind_and_release
<1>7. CASE ReadJobResult(p)
  BY ZenonT(60), <1>7, ReturnWrites DEF ReadJobResult, attach_then_release
<1>8. CASE BindCommon(p) \/ JobSent(p) \/ TakeJob(p) \/ AttachCommon(p) \/ ReplySent(p)
  BY ZenonT(60), <1>8
  DEF BindCommon, JobSent, TakeJob, ReadsJob, AttachCommon, ReplySent, bind_common_job,
      detach_shared_message_from_this_proc, attach_shared_message_to_this_proc
<1>9. CASE UNCHANGED shmVars
  BY ZenonT(60), <1>9 DEF shmVars
<1> QED
  BY ZenonT(60), <1>1, <1>2, <1>4, <1>5, <1>6, <1>7, <1>8, <1>9, ShmFrame

\* A message that leaves the pool has no piece.
LEMMA TakenIsUnbound ==
  ASSUME ScriptInv, NEW p \in Proc, Step(p), NEW m \in free_messages \ free_messages'
  PROVE  common_job'[m] = NoMsg
<1>t. ShmTypeOK /\ m \in Msg
  BY ZenonT(60) DEF ScriptInv, TypeOK, ShmTypeOK
<1>1. CASE StartJob(p) \/ StartMulti(p) \/ StoreResponse(p) \/ StoreJobResponseError(p)
  <2>1. PICK n \in free_messages : /\ common_job' = [common_job EXCEPT ![n] = NoMsg]
                                   /\ free_messages' = free_messages \ {n}
    BY ZenonT(60), <1>1
    DEF StartJob, StartMulti, StoreResponse, StoreJobResponseError, acquire_shared_message
  <2> QED
    BY ZenonT(60), <1>t, <2>1 DEF ShmTypeOK
<1>2. CASE free_messages \subseteq free_messages'
  BY ZenonT(60), <1>2
<1>3. CASE CopyGrows(p) \/ CopyTooBig(p) \/ MultiDone(p) \/ SendJobReplyFails(p)
           \/ ForciblyRelease(p)
  BY ZenonT(60), <1>2, <1>3
  DEF CopyGrows, CopyTooBig, MultiDone, SendJobReplyFails, ForciblyRelease,
      request_extra_memory_for_resource, release_shared_message, forcibly_release_next
<1>4. CASE FreeScript(p)
  BY ZenonT(60), <1>2, <1>4 DEF FreeScript, release_shared_message, shmVars
<1>5. CASE SendJobFails(p) \/ ReadJobResult(p)
  BY ZenonT(60), <1>2, <1>5
  DEF SendJobFails, ReadJobResult, unbind_and_release, attach_then_release
<1>6. CASE BindCommon(p) \/ JobSent(p) \/ TakeJob(p) \/ AttachCommon(p) \/ ReplySent(p)
  BY ZenonT(60), <1>2, <1>6
  DEF BindCommon, JobSent, TakeJob, ReadsJob, AttachCommon, ReplySent, bind_common_job,
      detach_shared_message_from_this_proc, attach_shared_message_to_this_proc
<1>7. CASE UNCHANGED shmVars
  BY ZenonT(60), <1>2, <1>7 DEF shmVars
<1> QED
  BY ZenonT(60), <1>1, <1>3, <1>4, <1>5, <1>6, <1>7, ShmFrame

\* No job is bound in a step, unless by the process that has the piece.
LEMMA BoundKept ==
  ASSUME ScriptInv, NEW p \in Proc, Step(p), NEW c \in Msg, JobsBoundTo(c) = {}
  PROVE  JobsBoundTo(c)' = {} \/ (com[p] = c /\ pc[p] = "bind")
<1> SUFFICES ASSUME NEW j \in JobsBoundTo(c)' PROVE com[p] = c /\ pc[p] = "bind"
  OBVIOUS
<1>1. j \in Msg /\ j \notin free_messages' /\ common_job'[j] = c /\ c # NoMsg
  BY ZenonT(60), ShmAssumption DEF JobsBoundTo
<1>2. j \notin free_messages
  BY ZenonT(60), <1>1, TakenIsUnbound
<1>3. common_job[j] # c
  BY ZenonT(60), <1>1, <1>2 DEF JobsBoundTo
<1> QED
  BY ZenonT(60), <1>1, <1>3, PieceWritten

\* Where a process starts to fill a common piece.
LEMMA CommonStarts ==
  ASSUME ScriptInv, NEW p \in Proc, Step(p), pc'[p] = "common"
  PROVE  \/ pc[p] = "common" /\ com'[p] = com[p]
         \/ com'[p] \in free_messages
<1>t. CtlTypeOK
  BY ZenonT(60) DEF ScriptInv, TypeOK
<1>1. CASE StartMulti(p)
  BY ZenonT(60), <1>1, <1>t DEF StartMulti, acquire_shared_message, CtlTypeOK
<1>2. ASSUME NEW x, pc' = [pc EXCEPT ![p] = x], x # "common" PROVE FALSE
  BY ZenonT(60), <1>2, <1>t DEF CtlTypeOK
<1>3. CASE UNCHANGED <<pc, com>>
  BY ZenonT(60), <1>3
<1>4. CASE \/ StartJob(p) \/ CopyTooBig(p) \/ CommonFilled(p) \/ BindCommon(p) \/ SendJob(p)
           \/ SendJobFails(p) \/ WarnQueueIsFull(p) \/ JobSent(p) \/ MultiDone(p)
           \/ \E nr \in BOOLEAN : RequestFilled(p, nr)
  BY ZenonT(60), <1>2, <1>4
  DEF StartJob, CopyTooBig, CommonFilled, BindCommon, SendJob, SendJobFails, WarnQueueIsFull,
      JobSent, MultiDone, RequestFilled, Goto, AfterJob, AfterTooBig
<1>5. CASE CopyGrows(p) \/ ProcessJobAnswer(p) \/ ProcessJobTimeout(p) \/ JobPipeEvent(p)
           \/ IgnoreJob(p) \/ ForciblyRelease(p) \/ Sigterm(p)
  BY ZenonT(60), <1>3, <1>5
  DEF CopyGrows, ProcessJobAnswer, ProcessJobTimeout, JobPipeEvent, IgnoreJob, ForciblyRelease,
      Sigterm, ctlVars
<1>6. CASE ReadJobResult(p)
  BY ZenonT(60), <1>2, <1>3, <1>6 DEF ReadJobResult, Stop, Goto
<1>7. CASE \/ TakeJob(p) \/ AttachCommon(p) \/ StartJobScript(p) \/ JobExpired(p)
           \/ StoreResponse(p) \/ ResponseFilled(p) \/ StoreJobResponseError(p)
           \/ ErrorResponseLost(p) \/ SendJobReply(p) \/ SendJobReplyFails(p) \/ ReplySent(p)
  BY ZenonT(60), <1>2, <1>7
  DEF TakeJob, ReadsJob, AttachCommon, StartJobScript, JobExpired, StoreResponse, ResponseFilled,
      StoreJobResponseError, ErrorResponseLost, SendJobReply, SendJobReplyFails, ReplySent, Goto,
      AfterReply
<1>8. CASE \/ StartScript(p) \/ StopScript(p) \/ FreeScript(p) \/ FinishQuery(p) \/ StartWorker(p)
           \/ Exit(p) \/ Kill(p) \/ RunWorker(p)
  BY ZenonT(60), <1>2, <1>8
  DEF StartScript, StopScript, FreeScript, FinishQuery, StartWorker, Exit, Kill, RunWorker, Die,
      Stop, Goto
<1> QED
  BY ZenonT(60), <1>1, <1>4, <1>5, <1>6, <1>7, <1>8 DEF Step, ClientStep, ServerStep, LifeStep
=============================================================================
