------------------------- MODULE JobWorkersTheorems -------------------------
(***************************************************************************)
(* Theorems about JobWorkers that rest on who owns which message.          *)
(* OwnershipInv is inductive as long as no process is killed inside a      *)
(* handover window; OwnersCounted and RunningJobIsSafe follow from it.     *)
(* With four more invariants (SlotsOK, ExtraOK, RepliesOK, FreshOK): no    *)
(* assertion of the job code fails, no extra buffer is lost or shared, no  *)
(* job is replied to twice, and nobody writes to a message that was sent.  *)
(***************************************************************************)
EXTENDS OwnershipProofs, JobWorkersProofs, FiniteSetTheorems

USE ZenonT(20), SMTT(60)

-----------------------------------------------------------------------------
(* Owners.                                                                  *)

\* Sets of messages are counted: Msg is finite.
LEMMA MsgCountingHolds == MsgCounting
<1> SUFFICES ASSUME NEW S \in SUBSET Msg
             PROVE  /\ Cardinality(S) \in Nat
                    /\ Cardinality(S) = 0 <=> S = {}
                    /\ \A m \in Msg \ S : Cardinality(S \cup {m}) = Cardinality(S) + 1
                    /\ S # Msg => Cardinality(S) < Cardinality(Msg)
  BY DEF MsgCounting
<1>1. IsFiniteSet(S) /\ IsFiniteSet(Msg)
  BY ShmAssumption, FS_Subset
<1>2. Cardinality(S) \in Nat
  BY <1>1, FS_CardinalityType
<1>3. Cardinality(S) = 0 <=> S = {}
  BY <1>1, FS_EmptySet
<1>4. \A m \in Msg \ S : Cardinality(S \cup {m}) = Cardinality(S) + 1
  BY <1>1, FS_AddElement
<1>5. S # Msg => Cardinality(S) < Cardinality(Msg)
  <2>1. Cardinality(S) <= Cardinality(Msg) /\ (Cardinality(Msg) = Cardinality(S) => Msg = S)
    BY <1>1, FS_Subset
  <2>2. Cardinality(Msg) \in Nat
    BY <1>1, FS_CardinalityType
  <2> QED
    BY SMTT(60), <1>2, <2>1, <2>2
<1> QED
  BY ZenonT(60), <1>2, <1>3, <1>4, <1>5

\* At first all messages are free and all tables and pipes are empty.
LEMMA OwnershipInit == Init => OwnershipInv
<1> SUFFICES ASSUME Init PROVE OwnershipInv
  OBVIOUS
<1>1. /\ \A p \in Proc, i \in Slot : attached[p][i] = NoMsg
      /\ \A m \in Msg : common_job[m] = NoMsg /\ owners_counter[m] = 0
      /\ free_messages = Msg
      /\ job_pipe = <<>> /\ \A p \in Proc : result_pipe[p] = <<>>
      /\ \A p \in Proc : pc[p] = "starting" /\ com[p] = NoMsg
  BY DEF Init, ShmInit
<1>2. \A p \in Proc : TableOf(p) = {} /\ Held(p) = {}
  BY <1>1 DEF TableOf, Held
<1>3. \A m : JobsBoundTo(m) = {} /\ ~Owned(m) /\ ~InPipe(m)
  BY SMTT(60), <1>1, <1>2 DEF JobsBoundTo, Owned, OwnsByTable, InPipe
<1>4. CountOK
  <2>1. \A m : Cardinality(JobsBoundTo(m)) = 0
    BY ZenonT(60), <1>3, MsgCountingHolds DEF MsgCounting
  <2> QED
    BY SMTT(60), <1>1, <1>3, <2>1 DEF CountOK
<1>5. HeldOK /\ BoundOK /\ TablesOK
  BY ZenonT(60), <1>1, <1>2 DEF HeldOK, BoundOK, TablesOK, OwnsByTable
<1>6. PipesOK
  BY SMTT(60), <1>1 DEF PipesOK, ResultQueued
<1>7. \A p \in Proc : LocalOK(p)
  BY <1>1, <1>2 DEF LocalOK, PiecesOK, ComOK, MsgOK, JobOK, TakenOK, At, ScriptPoint, MsgPoint
<1> QED
  BY ZenonT(60), <1>4, <1>5, <1>6, <1>7 DEF OwnershipInv

\* Every step keeps the owners of messages as the invariant says.
LEMMA OwnershipStep ==
  ASSUME ~KillInWindow, ScriptInv, ScriptInv', OwnershipInv, [Next]_vars
  PROVE  OwnershipInv'
<1>1. ASSUME NEW p \in Proc, Step(p) PROVE OwnershipInv'
  <2>1. StepFrom(p)
    BY ZenonT(60), <1>1, MsgCountingHolds, OthersKept DEF StepFrom, ScriptInv
  <2> QED
    BY <1>1, <2>1, QuietActionsKeep, StayActions, AcquireActions, CopyTooBigKeeps, MultiDoneKeeps,
       SendJobReplyFailsKeeps, FreeScriptKeeps, ForciblyReleaseKeeps, BindCommonKeeps, SendKeeps,
       SendJobFailsKeeps, SettleKeeps, ReadJobResultKeeps, TakeJobKeeps, AttachCommonKeeps,
       DeathKeeps
    DEF Step, ClientStep, ServerStep, LifeStep
<1>2. ASSUME UNCHANGED vars PROVE OwnershipInv'
  <2>1. UNCHANGED <<free_messages, owners_counter, common_job, attached, job_pipe, result_pipe, pc,
                    msg, com, running_job>>
    BY <1>2 DEF vars, shmVars, pipeVars, ctlVars, jobVars
  <2> QED
    BY ZenonT(60), <2>1, Stay DEF ScriptInv, TypeOK
<1> QED
  BY <1>1, <1>2 DEF Next, Step

\* Hence the invariant holds in every state.
LEMMA OwnershipHolds ==
  ASSUME ~KillInWindow
  PROVE  Spec => [](ScriptInv /\ OwnershipInv)
<1>1. Init => ScriptInv /\ OwnershipInv
  BY ZenonT(60), ScriptInvInit, OwnershipInit
<1>2. ScriptInv /\ OwnershipInv /\ [Next]_vars => (ScriptInv /\ OwnershipInv)'
  BY ZenonT(60), ScriptInvStep, OwnershipStep
<1> QED
  BY <1>1, <1>2, PTL DEF Spec

\* As long as no process dies inside a handover window, the owners counter of
\* every message is the number of its owners, and the free messages are those
\* without owners: for any number of workers, messages and slots
\* (release_shared_message, send_job_request_message, store_response,
\* forcibly_release_all_attached_messages).
THEOREM OwnersAreCounted ==
  ASSUME ~KillInWindow
  PROVE  Spec => []OwnersCounted
<1>1. ASSUME ScriptInv, OwnershipInv PROVE OwnersCounted
  <2> SUFFICES ASSUME NEW m \in Msg
               PROVE  /\ owners_counter[m] = OwnersOf(m)
                      /\ m \in free_messages <=> owners_counter[m] = 0
    BY DEF OwnersCounted
  <2>1. /\ owners_counter[m] = Cardinality(JobsBoundTo(m))
                                 + (IF Owned(m) \/ InPipe(m) THEN 1 ELSE 0)
        /\ m \in free_messages <=> owners_counter[m] = 0
        /\ Cardinality(JobsBoundTo(m)) \in Nat
    BY ZenonT(60), <1>1, MsgCountingHolds, BoundCount DEF OwnershipInv, CountOK
  <2>2. PICK O : O = {p \in Proc : OwnsByTable(p, m)}
    OBVIOUS
  <2>3. CASE Owned(m)
    <3>1. PICK p \in Proc : OwnsByTable(p, m)
      BY <2>3 DEF Owned
    <3>2. O = {p} /\ ~InPipe(m)
      BY ZenonT(60), <1>1, <2>2, <3>1 DEF OwnershipInv, HeldOK, OwnsByTable
    <3>3. Cardinality(O) = 1
      BY ZenonT(60), <3>2, FS_Singleton
    <3> QED
      BY SMTT(60), <2>1, <2>2, <2>3, <3>2, <3>3 DEF OwnersOf
  <2>4. CASE ~Owned(m)
    <3>1. O = {}
      BY <2>2, <2>4 DEF Owned
    <3>2. Cardinality(O) = 0
      BY ZenonT(60), <3>1, FS_EmptySet
    <3> QED
      BY SMTT(60), <2>1, <2>2, <2>4, <3>2 DEF OwnersOf
  <2> QED
    BY ZenonT(60), <2>3, <2>4
<1> QED
  BY <1>1, OwnershipHolds, PTL

\* As long as no process dies inside a handover window, a job that a worker runs
\* and its common piece are in use until that worker releases them, and no other
\* worker runs that job (JobWorkerServer::job_parse_execute).
THEOREM RunningJobsAreSafe ==
  ASSUME ~KillInWindow
  PROVE  Spec => []RunningJobIsSafe
<1>1. ASSUME ScriptInv, OwnershipInv PROVE RunningJobIsSafe
  <2>1. ShmTypeOK /\ SharedInv /\ \A p \in Proc : LocalOK(p)
    BY <1>1 DEF ScriptInv, TypeOK, OwnershipInv, SharedInv
  <2>2. ASSUME NEW p \in Proc, UsesJob(p)
        PROVE  /\ pc[p] # "parse" /\ running_job[p] # NoMsg
               /\ running_job[p] \in Held(p) /\ running_job[p] # msg[p]
               /\ JobsBoundTo(running_job[p]) = {}
    BY ZenonT(60), <2>1, <2>2 DEF UsesJob, LocalOK, JobOK, ScriptPoint, MsgPoint
  <2>3. ASSUME NEW p \in Proc, UsesJob(p), common_job[running_job[p]] # NoMsg
        PROVE  common_job[running_job[p]] \in Held(p)
    BY ZenonT(60), <2>1, <2>2, <2>3 DEF LocalOK, PiecesOK, At
  <2>4. \A p \in Proc : \A m \in Held(p) : m \in TableOf(p) \ free_messages /\ ~InPipe(m)
    BY <2>1 DEF SharedInv, HeldOK, Held
  <2>5. \A p \in Proc : \A q \in Proc \ {p} : UsesJob(p) /\ UsesJob(q) =>
          running_job[q] # running_job[p]
    BY ZenonT(60), <2>1, <2>2, MsgCountingHolds, HeldUnbound
  <2> QED
    BY ZenonT(60), <2>2, <2>3, <2>4, <2>5 DEF RunningJobIsSafe
<1> QED
  BY <1>1, OwnershipHolds, PTL

-----------------------------------------------------------------------------
(* What is in the hands of a process.                                       *)

\* What a process works on is in its hands.
LEMMA InHand ==
  ASSUME ScriptInv, OwnershipInv, NEW p \in Proc
  PROVE  /\ pc[p] \in {"common", "multi"} => com[p] \in Held(p) /\ common_job[com[p]] = NoMsg
         /\ pc[p] \in {"request", "response", "reply"} =>
              msg[p] \in Held(p) /\ common_job[msg[p]] = NoMsg
         /\ pc[p] \in {"bind", "write"} => msg[p] \in Held(p)
         /\ \A m \in Held(p) : m \in Msg \ free_messages /\ m \in TableOf(p) /\ ~InPipe(m)
<1>1. PointOK /\ HeldOK /\ LocalOK(p) /\ ShmTypeOK
  BY ZenonT(60) DEF ScriptInv, OwnershipInv, TypeOK
<1>2. pc[p] \in {"common", "multi"} => com[p] \in Held(p) /\ common_job[com[p]] = NoMsg
  BY ZenonT(60), <1>1 DEF PointOK, LocalOK, ComOK
<1>3. pc[p] \in {"request", "response", "reply"} =>
        msg[p] \in Held(p) /\ common_job[msg[p]] = NoMsg
  BY ZenonT(60), <1>1 DEF LocalOK, MsgOK, At
<1>4. pc[p] \in {"bind", "write"} => msg[p] \in Held(p)
  BY ZenonT(60), <1>1 DEF LocalOK, MsgOK
<1>5. \A m \in Held(p) : m \in Msg \ free_messages /\ m \in TableOf(p) /\ ~InPipe(m)
  <2>1. Held(p) \subseteq Msg /\ Held(p) \subseteq TableOf(p)
    BY ZenonT(60), <1>1, HeldType DEF Held
  <2> QED
    BY ZenonT(60), <1>1, <2>1 DEF HeldOK
<1> QED
  BY ZenonT(60), <1>2, <1>3, <1>4, <1>5

-----------------------------------------------------------------------------
(* Extra buffers.                                                           *)

\* Every step keeps the free buffers and the chains a partition.
LEMMA ExtraStep ==
  ASSUME ScriptInv, OwnershipInv, ExtraOK, NEW p \in Proc, Step(p)
  PROVE  ExtraOK'
<1>t. ShmTypeOK /\ PipeTypeOK /\ CtlTypeOK /\ ServerTypeOK /\ PointOK
  BY ZenonT(60) DEF ScriptInv, TypeOK
<1>s. ASSUME UNCHANGED <<free_messages, free_extra, extra>> PROVE ExtraOK'
  BY ZenonT(60), <1>s DEF ExtraOK
<1>1. CASE StartJob(p) \/ StartMulti(p) \/ StoreResponse(p) \/ StoreJobResponseError(p)
  BY ZenonT(60), <1>1, <1>t, AcquireExtra
  DEF StartJob, StartMulti, StoreResponse, StoreJobResponseError
<1>2. CASE CopyGrows(p)
  <2>1. Filling(p) \in Msg \ free_messages
    BY ZenonT(60), <1>2, InHand DEF CopyGrows, Filling, At
  <2> QED
    BY ZenonT(60), <1>2, <1>t, <2>1, GrowKeeps DEF CopyGrows
<1>3. CASE CopyTooBig(p)
  <2>1. Filling(p) \in Msg
    BY ZenonT(60), <1>3, InHand DEF CopyTooBig, Filling, At
  <2> QED
    BY ZenonT(60), <1>3, <1>t, <2>1, ReleaseExtra DEF CopyTooBig
<1>4. CASE MultiDone(p) \/ SendJobReplyFails(p)
  <2>1. (At(p, "multi") => com[p] \in Msg) /\ (At(p, "reply") => msg[p] \in Msg)
    BY ZenonT(60), InHand DEF At
  <2> QED
    BY ZenonT(60), <1>4, <1>t, <2>1, ReleaseExtra DEF MultiDone, SendJobReplyFails
<1>5. CASE SendJobFails(p)
  <2>1. msg[p] \in Msg
    BY ZenonT(60), <1>5, InHand DEF SendJobFails, At
  <2>2. PICK F : /\ F = {x \in {msg[p]} : owners_counter[x] = 1}
                 /\ free_messages' = free_messages \cup F
                 /\ ReturnExtra(F)
    BY ZenonT(60), <1>5 DEF SendJobFails, unbind_and_release
  <2>3. F \in SUBSET Msg
    BY ZenonT(60), <2>1, <2>2
  <2> QED
    BY ZenonT(60), <1>t, <2>2, <2>3, ReturnExtraKeeps
<1>6. CASE ReadJobResult(p)
  <2>1. Head(result_pipe[p]) \in Msg
    BY SMTT(60), <1>6, <1>t DEF ReadJobResult, PipeTypeOK
  <2>2. PICK F : /\ F = {x \in {Head(result_pipe[p])} : owners_counter[x] = 1}
                 /\ free_messages' = free_messages \cup F
                 /\ ReturnExtra(F)
    BY ZenonT(60), <1>6 DEF ReadJobResult, attach_then_release
  <2>3. F \in SUBSET Msg
    BY ZenonT(60), <2>1, <2>2
  <2> QED
    BY ZenonT(60), <1>t, <2>2, <2>3, ReturnExtraKeeps
<1>7. CASE FreeScript(p)
  <2>1. current_job[p] # NoMsg => current_job[p] \in Msg
    BY ZenonT(60), <1>t DEF ServerTypeOK
  <2> QED
    BY ZenonT(60), <1>7, <1>s, <1>t, <2>1, ReleaseExtra DEF FreeScript, shmVars
<1>8. CASE ForciblyRelease(p)
  <2>1. PICK i \in Slot : NextForced(p, i) /\ release_shared_message(p, attached[p][i])
    BY ZenonT(60), <1>8 DEF ForciblyRelease, forcibly_release_next
  <2>2. attached[p][i] \in Msg
    BY SMTT(60), <1>t, <2>1 DEF NextForced, ShmTypeOK
  <2> QED
    BY ZenonT(60), <1>t, <2>1, <2>2, ReleaseExtra
<1>9. CASE BindCommon(p) \/ JobSent(p) \/ TakeJob(p) \/ AttachCommon(p) \/ ReplySent(p)
  BY ZenonT(60), <1>9, <1>s
  DEF BindCommon, JobSent, TakeJob, ReadsJob, AttachCommon, ReplySent, bind_common_job,
      detach_shared_message_from_this_proc, attach_shared_message_to_this_proc
<1>10. CASE UNCHANGED shmVars
  BY ZenonT(60), <1>10, <1>s DEF shmVars
<1> QED
  BY ZenonT(60), <1>1, <1>2, <1>3, <1>4, <1>5, <1>6, <1>7, <1>8, <1>9, <1>10, ShmFrame

-----------------------------------------------------------------------------
(* Replies.                                                                 *)

\* The steps that neither create nor answer a job.
LEMMA QuietReplies ==
  ASSUME ScriptInv, OwnershipInv, NEW p \in Proc, Step(p),
         ~(\E nr \in BOOLEAN : RequestFilled(p, nr)), ~SendJobReply(p)
  PROVE  /\ \A m \in Msg : Unanswered(m)' => Unanswered(m)
         /\ UNCHANGED <<metadata, replied, end_slot_id>>
<1>t. TypeOK /\ PipeTypeOK /\ CtlTypeOK /\ ServerTypeOK /\ PointOK /\ NoMsg \notin Msg
  BY ZenonT(60), ShmAssumption DEF ScriptInv, TypeOK
<1>o. Others(p) /\ \A q \in Proc \ {p} : reply_was_sent'[q] = reply_was_sent[q]
  BY ZenonT(60), <1>t, OthersKept, ReplyFrame
<1>k. pc[p] \in {"parse", "ready"} \cup ScriptPoint /\ ~reply_was_sent[p] =>
        Unanswered(running_job[p])
  BY ZenonT(60) DEF Unanswered
<1>w. pc[p] \in {"bind", "write"} => Unanswered(msg[p])
  BY ZenonT(60) DEF Unanswered
<1>1. UNCHANGED <<metadata, replied, end_slot_id>>
  <2>1. CASE ClientStep(p)
    BY ZenonT(60), <2>1
    DEF ClientStep, StartJob, StartMulti, CopyGrows, CopyTooBig, CommonFilled, BindCommon, SendJob,
        SendJobFails, WarnQueueIsFull, JobSent, MultiDone, ReadJobResult, ProcessJobAnswer,
        ProcessJobTimeout, pipeVars, idVars
  <2>2. CASE ServerStep(p)
    BY ZenonT(60), <2>2
    DEF ServerStep, JobPipeEvent, IgnoreJob, TakeJob, ReadsJob, AttachCommon, StartJobScript, JobExpired,
        StoreResponse, ResponseFilled, StoreJobResponseError, ErrorResponseLost,
        SendJobReplyFails, ReplySent, pipeVars, idVars
  <2>3. CASE LifeStep(p)
    BY ZenonT(60), <2>3
    DEF LifeStep, StartScript, StopScript, FreeScript, ForciblyRelease, FinishQuery, StartWorker,
        Sigterm, Exit, Kill, RunWorker, Die, pipeVars, idVars
  <2> QED
    BY ZenonT(60), <2>1, <2>2, <2>3 DEF Step
<1>2. \A m \in Msg : JobQueued(m)' => Unanswered(m)
  <2>1. CASE SendJob(p)
    <3>1. job_pipe' = Append(job_pipe, msg[p]) /\ pc[p] = "write" /\ msg[p] \in Msg
      BY ZenonT(60), <2>1, InHand DEF SendJob, At
    <3>2. \A m \in Msg : JobQueued(m)' => JobQueued(m) \/ m = msg[p]
      <4>1. /\ Len(job_pipe) \in Nat /\ Len(job_pipe') = Len(job_pipe) + 1
            /\ \A i \in 1..Len(job_pipe) : job_pipe'[i] = job_pipe[i]
            /\ job_pipe'[Len(job_pipe) + 1] = msg[p]
        BY SMTT(60), <1>t, <3>1 DEF PipeTypeOK
      <4> QED
        BY SMTT(60), <4>1 DEF JobQueued
    <3> QED
      BY ZenonT(60), <1>w, <3>1, <3>2 DEF Unanswered
  <2>2. CASE TakeJob(p)
    <3>1. job_pipe' = Tail(job_pipe) /\ job_pipe # <<>>
      BY ZenonT(60), <2>2 DEF TakeJob, ReadsJob
    <3>2. \A m \in Msg : JobQueued(m)' => JobQueued(m)
      BY SMTT(60), <1>t, <3>1 DEF JobQueued, PipeTypeOK
    <3> QED
      BY ZenonT(60), <3>2 DEF Unanswered
  <2>3. CASE Kill(p)
    <3>1. CASE job_pipe' = job_pipe
      BY ZenonT(60), <3>1 DEF Unanswered, JobQueued
    <3>2. CASE job_pipe' = Tail(job_pipe) /\ job_pipe # <<>>
      <4>1. \A m \in Msg : JobQueued(m)' => JobQueued(m)
        BY SMTT(60), <1>t, <3>2 DEF JobQueued, PipeTypeOK
      <4> QED
        BY ZenonT(60), <4>1 DEF Unanswered
    <3> QED
      BY ZenonT(60), <2>3, <3>1, <3>2, KillReads
  <2>4. CASE ~SendJob(p) /\ ~TakeJob(p) /\ ~Kill(p)
    <3>1. job_pipe' = job_pipe
      BY ZenonT(60), <2>4, PipeFrame DEF pipeVars, ReadJobResult
    <3> QED
      BY ZenonT(60), <3>1 DEF Unanswered, JobQueued
  <2> QED
    BY ZenonT(60), <2>1, <2>2, <2>3, <2>4
<1>3. pc'[p] \in {"bind", "write"} => pc[p] \in {"bind", "write"} /\ msg'[p] = msg[p]
  <2>1. CASE BindCommon(p)
    BY ZenonT(60), <2>1 DEF BindCommon, At, ctlVars
  <2>2. CASE ClientStep(p) /\ ~BindCommon(p)
    BY ZenonT(60), <2>2, <1>t
    DEF ClientStep, StartJob, StartMulti, CopyGrows, CopyTooBig, CommonFilled, SendJob,
        SendJobFails, WarnQueueIsFull, JobSent, MultiDone, ReadJobResult, ProcessJobAnswer,
        ProcessJobTimeout, CtlTypeOK, Goto, AfterTooBig, AfterJob, Stop, InEventLoop, At, ctlVars
  <2>3. CASE ServerStep(p)
    BY ZenonT(60), <2>3, <1>t
    DEF ServerStep, JobPipeEvent, IgnoreJob, TakeJob, ReadsJob, AttachCommon, StartJobScript, JobExpired,
        StoreResponse, ResponseFilled, StoreJobResponseError, ErrorResponseLost,
        SendJobReplyFails, ReplySent, CtlTypeOK, Goto, AfterReply, InEventLoop, At, ctlVars
  <2>4. CASE LifeStep(p)
    BY ZenonT(60), <2>4, <1>t
    DEF LifeStep, StartScript, StopScript, Stop, FreeScript, ForciblyRelease, FinishQuery,
        StartWorker, Sigterm, Exit, Kill, RunWorker, Die, CtlTypeOK, Goto, At, ctlVars
  <2> QED
    BY ZenonT(60), <2>1, <2>2, <2>3, <2>4 DEF Step
<1>4. pc'[p] \in {"parse", "ready"} \cup ScriptPoint /\ running_job'[p] \in Msg
        /\ ~reply_was_sent'[p] => Unanswered(running_job'[p])
  <2>1. CASE TakeJob(p)
    <3>1. Head(job_pipe) \in Msg /\ JobQueued(Head(job_pipe))
      BY SMTT(60), <2>1, <1>t DEF TakeJob, ReadsJob, PipeTypeOK, JobQueued
    <3>2. running_job'[p] = Head(job_pipe)
      BY ZenonT(60), <2>1, <1>t DEF TakeJob, ReadsJob, ServerTypeOK
    <3> QED
      BY ZenonT(60), <3>1, <3>2 DEF Unanswered
  <2>2. CASE Exit(p) \/ Kill(p) \/ FinishQuery(p)
    BY ZenonT(60), <2>2, <1>t DEF Exit, Kill, Die, FinishQuery, ServerTypeOK
  <2>3. CASE ~TakeJob(p) /\ ~Exit(p) /\ ~Kill(p) /\ ~FinishQuery(p)
    <3>1. UNCHANGED <<running_job, reply_was_sent>>
      <4>1. CASE ClientStep(p)
        BY ZenonT(60), <4>1
        DEF ClientStep, StartJob, StartMulti, CopyGrows, CopyTooBig, CommonFilled, RequestFilled,
            BindCommon, SendJob, SendJobFails, WarnQueueIsFull, JobSent, MultiDone, ReadJobResult,
            ProcessJobAnswer, ProcessJobTimeout, jobVars
      <4>2. CASE ServerStep(p)
        BY ZenonT(60), <2>3, <4>2
        DEF ServerStep, JobPipeEvent, IgnoreJob, AttachCommon, StartJobScript, JobExpired,
            StoreResponse, ResponseFilled, StoreJobResponseError, ErrorResponseLost,
            SendJobReplyFails, ReplySent, jobVars
      <4>3. CASE LifeStep(p)
        BY ZenonT(60), <2>3, <4>3
        DEF LifeStep, StartScript, StopScript, FreeScript, ForciblyRelease, StartWorker, Sigterm,
            RunWorker, jobVars
      <4> QED
        BY ZenonT(60), <4>1, <4>2, <4>3 DEF Step
    <3>2. pc'[p] \in {"parse", "ready"} \cup ScriptPoint =>
            pc[p] \in {"idle", "parse", "ready"} \cup ScriptPoint
      <4>1. CASE ClientStep(p)
        <5>1. pc[p] \in {"idle"} \cup ScriptPoint
          BY ZenonT(60), <4>1
          DEF ClientStep, StartJob, StartMulti, CopyGrows, CopyTooBig, CommonFilled, RequestFilled,
              BindCommon, SendJob, SendJobFails, WarnQueueIsFull, JobSent, MultiDone, ReadJobResult,
              ProcessJobAnswer, ProcessJobTimeout, InEventLoop, At, ScriptPoint, MsgPoint
        <5> QED
          BY ZenonT(60), <5>1
      <4>2. CASE ServerStep(p)
        <5>1. pc[p] \in {"idle", "parse", "ready"} \cup ScriptPoint
          BY ZenonT(60), <4>2
          DEF ServerStep, JobPipeEvent, IgnoreJob, TakeJob, ReadsJob, AttachCommon, StartJobScript,
              JobExpired, StoreResponse, ResponseFilled, StoreJobResponseError, ErrorResponseLost,
              SendJobReply, SendJobReplyFails, ReplySent, InEventLoop, At, ScriptPoint, MsgPoint
        <5> QED
          BY ZenonT(60), <5>1
      <4>3. CASE StartScript(p) \/ StopScript(p) \/ FreeScript(p)
        BY ZenonT(60), <4>3
        DEF StartScript, StopScript, FreeScript, Interruptible, At, ScriptPoint, MsgPoint
      <4>4. CASE StartWorker(p) \/ RunWorker(p) \/ ForciblyRelease(p) \/ Sigterm(p)
        BY ZenonT(60), <4>4, <1>t
        DEF StartWorker, RunWorker, ForciblyRelease, Sigterm, CtlTypeOK, Goto, At, ScriptPoint,
            MsgPoint
      <4> QED
        BY ZenonT(60), <2>3, <4>1, <4>2, <4>3, <4>4 DEF Step, LifeStep
    <3>3. pc[p] = "idle" => running_job[p] = NoMsg
      BY ZenonT(60), <1>t DEF PointOK
    <3> QED
      BY ZenonT(60), <1>k, <1>t, <3>1, <3>2, <3>3
  <2> QED
    BY ZenonT(60), <2>1, <2>2, <2>3
<1> QED
  BY ZenonT(60), <1>1, <1>2, <1>3, <1>4, <1>o, UnansweredKept

\* A job is answered by the one worker that runs it.
LEMMA AnswerReplies ==
  ASSUME ScriptInv, OwnershipInv, RepliesOK, NEW p \in Proc, SendJobReply(p), Others(p),
         \A q \in Proc \ {p} : reply_was_sent'[q] = reply_was_sent[q]
  PROVE  /\ RepliesOK'
         /\ JobOf(running_job[p]) \notin replied
         /\ metadata'[msg[p]].job_id = metadata[running_job[p]].job_id
<1> DEFINE job == running_job[p]
           r == msg[p]
<1>t. /\ ShmTypeOK /\ SharedInv /\ MsgCounting /\ \A q \in Proc : LocalOK(q)
      /\ metadata \in [Msg -> [job_id : Nat, fd : Proc, no_reply : BOOLEAN]]
      /\ reply_was_sent \in [Proc -> BOOLEAN]
      /\ pc \in [Proc -> Point]
      /\ running_job[p] \in Msg \cup {NoMsg}
  BY ZenonT(60), MsgCountingHolds
  DEF ScriptInv, TypeOK, PipeTypeOK, CtlTypeOK, ServerTypeOK, OwnershipInv, SharedInv
<1>1. /\ pc[p] = "reply" /\ pc'[p] = "replied"
      /\ UNCHANGED <<job_pipe, msg, running_job, end_slot_id>>
      /\ job # NoMsg /\ ~reply_was_sent[p] /\ reply_was_sent'[p]
      /\ metadata' = [metadata EXCEPT ![r] = [job_id |-> metadata[job].job_id, fd |-> @.fd,
                                              no_reply |-> @.no_reply]]
      /\ replied' = replied \cup {JobOf(job)}
  BY ZenonT(60), <1>t
  DEF SendJobReply, reply_is_expected, Goto, At, ctlVars, idVars, JobOf
<1>2. /\ job \in Held(p) /\ r \in Held(p) /\ job # r
      /\ JobsBoundTo(job) = {} /\ JobsBoundTo(r) = {}
  BY ZenonT(60), <1>1, <1>t DEF LocalOK, MsgOK, JobOK, ScriptPoint, MsgPoint
<1>3. /\ job \in Msg /\ r \in Msg /\ ~InPipe(job) /\ ~InPipe(r)
      /\ \A q \in Proc \ {p} : job \notin Held(q) /\ r \notin Held(q)
  BY ZenonT(60), <1>2, <1>t, HeldUnbound DEF SharedInv, HeldOK
<1> HIDE DEF job, r
<1>4. \A q \in Proc \ {p} :
        /\ pc[q] \in {"bind", "write"} => msg[q] \in Held(q)
        /\ pc[q] \in {"parse", "ready"} \cup ScriptPoint /\ running_job[q] # NoMsg =>
             running_job[q] \in Held(q)
  BY ZenonT(60), <1>t DEF LocalOK, MsgOK, JobOK
<1>5. Unanswered(job)
  BY ZenonT(60), <1>1 DEF Unanswered, ScriptPoint, MsgPoint, job
<1>6. ASSUME NEW m \in Msg, Unanswered(m)' PROVE Unanswered(m) /\ m # job /\ m # r
  <2>1. CASE JobQueued(m)'
    <3>1. JobQueued(m)
      BY ZenonT(60), <1>1, <2>1 DEF JobQueued
    <3> QED
      BY ZenonT(60), <1>3, <3>1 DEF Unanswered, InPipe, JobQueued
  <2>2. ASSUME NEW q \in Proc, msg'[q] = m, pc'[q] \in {"bind", "write"}
        PROVE  Unanswered(m) /\ m # job /\ m # r
    BY ZenonT(60), <1>1, <1>3, <1>4, <2>2 DEF Others, Unanswered
  <2>3. ASSUME NEW q \in Proc, running_job'[q] = m, ~reply_was_sent'[q],
               pc'[q] \in {"parse", "ready"} \cup ScriptPoint
        PROVE  Unanswered(m) /\ m # job /\ m # r
    <3>1. q # p /\ running_job[q] = m /\ ~reply_was_sent[q]
          /\ pc[q] \in {"parse", "ready"} \cup ScriptPoint
      BY ZenonT(60), <1>1, <2>3 DEF Others
    <3>2. running_job[q] # NoMsg
      BY ZenonT(60), <3>1, ShmAssumption
    <3> QED
      BY ZenonT(60), <1>3, <1>4, <3>1, <3>2 DEF Unanswered
  <2> QED
    BY ZenonT(60), <1>6, <2>1, <2>2, <2>3 DEF Unanswered
<1>7. \A m \in Msg \ {r} : metadata'[m] = metadata[m]
  BY <1>1, <1>t
<1>8. metadata'[r].job_id = metadata[job].job_id
  BY <1>1, <1>3, <1>t
<1>9. \A m \in Msg : Unanswered(m)' => JobOf(m)' = JobOf(m) /\ JobOf(m) # JobOf(job)
  BY ZenonT(60), <1>3, <1>5, <1>6, <1>7 DEF RepliesOK, JobOf
<1>10. \A m \in Msg : Unanswered(m)' => /\ JobOf(m)' \notin replied'
                                        /\ metadata'[m].job_id < end_slot_id'[metadata'[m].fd]
  BY ZenonT(60), <1>1, <1>6, <1>7, <1>9 DEF RepliesOK
<1>11. \A m, n \in Msg : Unanswered(m)' /\ Unanswered(n)' /\ JobOf(m)' = JobOf(n)' => m = n
  BY ZenonT(60), <1>6, <1>9 DEF RepliesOK
<1>12. \A x \in replied' : x[2] < end_slot_id'[x[1]]
  <2>1. metadata[job].job_id < end_slot_id[metadata[job].fd]
    BY ZenonT(60), <1>3, <1>5 DEF RepliesOK
  <2> QED
    BY SMTT(60), <1>1, <2>1 DEF RepliesOK, JobOf
<1>13. JobOf(job) \notin replied
  BY ZenonT(60), <1>3, <1>5 DEF RepliesOK
<1> QED
  BY ZenonT(60), <1>8, <1>10, <1>11, <1>12, <1>13 DEF RepliesOK, job, r

\* Every step keeps unanswered jobs distinct and without a reply.
LEMMA RepliesStep ==
  ASSUME ScriptInv, OwnershipInv, RepliesOK, NEW p \in Proc, Step(p)
  PROVE  RepliesOK'
<1>o. Others(p) /\ \A q \in Proc \ {p} : reply_was_sent'[q] = reply_was_sent[q]
  BY ZenonT(60), OthersKept, ReplyFrame DEF ScriptInv
<1>1. CASE \E nr \in BOOLEAN : RequestFilled(p, nr)
  BY ZenonT(60), <1>1, <1>o, CreateReplies
<1>2. CASE SendJobReply(p)
  BY ZenonT(60), <1>2, <1>o, AnswerReplies
<1>3. CASE ~(\E nr \in BOOLEAN : RequestFilled(p, nr)) /\ ~SendJobReply(p)
  <2>1. /\ \A m \in Msg : Unanswered(m)' => Unanswered(m)
        /\ UNCHANGED <<metadata, replied, end_slot_id>>
    BY ZenonT(60), <1>3, QuietReplies
  <2>2. \A m \in Msg : JobOf(m)' = JobOf(m)
    BY ZenonT(60), <2>1 DEF JobOf
  <2> QED
    BY ZenonT(60), <2>1, <2>2 DEF RepliesOK
<1> QED
  BY ZenonT(60), <1>1, <1>2, <1>3

\* A response is written for a job that had none.
LEMMA ReplyIsFirst ==
  ASSUME ScriptInv, OwnershipInv, RepliesOK, NEW p \in Proc, Step(p), NEW q \in Proc,
         Len(result_pipe'[q]) > Len(result_pipe[q])
  PROVE  <<q, metadata'[result_pipe'[q][Len(result_pipe'[q])]].job_id>> \notin replied
<1>t. PipeTypeOK /\ ServerTypeOK /\ CtlTypeOK /\ PointOK
  BY ZenonT(60) DEF ScriptInv, TypeOK
<1>1. CASE SendJobReply(p)
  <2>1. /\ JobOf(running_job[p]) \notin replied
        /\ metadata'[msg[p]].job_id = metadata[running_job[p]].job_id
    <3>1. Others(p) /\ \A v \in Proc \ {p} : reply_was_sent'[v] = reply_was_sent[v]
      BY ZenonT(60), OthersKept, ReplyFrame DEF ScriptInv
    <3> QED
      BY ZenonT(60), <1>1, <3>1, AnswerReplies
  <2>2. /\ result_pipe' = [result_pipe EXCEPT ![metadata[running_job[p]].fd] = Append(@, msg[p])]
        /\ msg[p] \in Msg
    BY ZenonT(60), <1>1, InHand DEF SendJobReply, At
  <2>3. result_pipe[q] \in Seq(Msg)
    BY ZenonT(60), <1>t DEF PipeTypeOK
  <2>4. \/ result_pipe'[q] = result_pipe[q] /\ q # metadata[running_job[p]].fd
        \/ result_pipe'[q] = Append(result_pipe[q], msg[p]) /\ q = metadata[running_job[p]].fd
    BY ZenonT(60), <1>t, <2>2 DEF PipeTypeOK
  <2>5. result_pipe'[q] # result_pipe[q]
    BY SMTT(60), <2>3
  <2>6. q = metadata[running_job[p]].fd /\ result_pipe'[q][Len(result_pipe'[q])] = msg[p]
    <3>1. q = metadata[running_job[p]].fd /\ result_pipe'[q] = Append(result_pipe[q], msg[p])
      BY ZenonT(60), <2>4, <2>5
    <3>2. \A s \in Seq(Msg) : \A m \in Msg : Append(s, m)[Len(Append(s, m))] = m
      BY SMTT(60)
    <3> QED
      BY ZenonT(60), <2>2, <2>3, <3>1, <3>2
  <2> QED
    BY ZenonT(60), <2>1, <2>6 DEF JobOf
<1>2. CASE ReadJobResult(p) \/ Kill(p)
  <2>1. \/ result_pipe' = result_pipe
        \/ result_pipe' = [result_pipe EXCEPT ![p] = Tail(@)] /\ result_pipe[p] # <<>>
    BY ZenonT(60), <1>2, KillReads DEF ReadJobResult
  <2>2. result_pipe[p] \in Seq(Msg) /\ result_pipe[q] \in Seq(Msg)
    BY ZenonT(60), <1>t DEF PipeTypeOK
  <2>3. CASE result_pipe' = result_pipe
    BY SMTT(60), <2>2, <2>3
  <2>4. CASE result_pipe' = [result_pipe EXCEPT ![p] = Tail(@)] /\ result_pipe[p] # <<>>
    <3>1. result_pipe'[q] = IF q = p THEN Tail(result_pipe[p]) ELSE result_pipe[q]
      BY ZenonT(60), <1>t, <2>4 DEF PipeTypeOK
    <3> QED
      BY SMTT(60), <2>2, <2>4, <3>1
  <2> QED
    BY ZenonT(60), <2>1, <2>3, <2>4
<1>3. CASE ~SendJobReply(p) /\ ~ReadJobResult(p) /\ ~Kill(p)
  <2>1. result_pipe' = result_pipe
    BY ZenonT(60), <1>3, PipeFrame DEF RequestFilled, SendJob, TakeJob, ReadsJob, pipeVars
  <2>2. result_pipe[q] \in Seq(Msg)
    BY ZenonT(60), <1>t DEF PipeTypeOK
  <2> QED
    BY SMTT(60), <2>1, <2>2
<1> QED
  BY ZenonT(60), <1>1, <1>2, <1>3

-----------------------------------------------------------------------------
(* Slots.                                                                   *)

\* A running job keeps its common piece.
LEMMA CommonKept ==
  ASSUME ScriptInv, OwnershipInv, NEW p \in Proc, Step(p), NEW q \in Proc,
         pc[q] \in {"parse", "ready"} \cup ScriptPoint, running_job[q] # NoMsg
  PROVE  common_job'[running_job[q]] = common_job[running_job[q]]
<1> DEFINE job == running_job[q]
<1>t. ShmTypeOK /\ SharedInv /\ MsgCounting /\ \A v \in Proc : LocalOK(v)
  BY ZenonT(60), MsgCountingHolds DEF ScriptInv, TypeOK, OwnershipInv, SharedInv
<1>1. job \in Held(q) /\ job # msg[q] /\ JobsBoundTo(job) = {}
  BY ZenonT(60), <1>t DEF LocalOK, JobOK
<1>2. job \in Msg /\ job \notin free_messages /\ \A v \in Proc \ {q} : job \notin Held(v)
  BY ZenonT(60), <1>1, <1>t, HeldUnbound DEF SharedInv, HeldOK
<1>3. pc[p] \in {"bind", "write"} => msg[p] # job
  BY ZenonT(60), <1>1, <1>2, InHand
<1> HIDE DEF job
<1>4. CASE StartJob(p) \/ StartMulti(p) \/ StoreResponse(p) \/ StoreJobResponseError(p)
  <2>1. PICK m \in free_messages : common_job' = [common_job EXCEPT ![m] = NoMsg]
    BY ZenonT(60), <1>4
    DEF StartJob, StartMulti, StoreResponse, StoreJobResponseError, acquire_shared_message
  <2> QED
    BY ZenonT(60), <1>2, <1>t, <2>1 DEF ShmTypeOK, job
<1>5. CASE BindCommon(p) \/ SendJobFails(p)
  <2>1. PICK c : common_job' = [common_job EXCEPT ![msg[p]] = c]
    BY ZenonT(60), <1>5 DEF BindCommon, SendJobFails, bind_common_job, unbind_and_release
  <2>2. msg[p] # job
    BY ZenonT(60), <1>3, <1>5 DEF BindCommon, SendJobFails, At
  <2> QED
    BY ZenonT(60), <1>2, <1>t, <2>1, <2>2 DEF ShmTypeOK, job
<1>6. CASE CopyGrows(p) \/ CopyTooBig(p) \/ JobSent(p) \/ MultiDone(p) \/ ReadJobResult(p)
  BY ZenonT(60), <1>6
  DEF CopyGrows, CopyTooBig, JobSent, MultiDone, ReadJobResult, request_extra_memory_for_resource,
      release_shared_message, detach_shared_message_from_this_proc, attach_then_release
<1>7. CASE TakeJob(p) \/ AttachCommon(p) \/ SendJobReplyFails(p) \/ ReplySent(p)
  BY ZenonT(60), <1>7
  DEF TakeJob, ReadsJob, AttachCommon, SendJobReplyFails, ReplySent, attach_shared_message_to_this_proc,
      release_shared_message, detach_shared_message_from_this_proc
<1>8. CASE FreeScript(p) \/ ForciblyRelease(p)
  BY ZenonT(60), <1>8
  DEF FreeScript, ForciblyRelease, forcibly_release_next, release_shared_message, shmVars
<1>9. CASE UNCHANGED shmVars
  BY ZenonT(60), <1>9 DEF shmVars
<1> QED
  BY ZenonT(60), <1>4, <1>5, <1>6, <1>7, <1>8, <1>9, ShmFrame

\* The other processes keep what they have.
LEMMA RoomOther ==
  ASSUME ScriptInv, OwnershipInv, SlotsOK, NEW p \in Proc, Step(p), NEW q \in Proc \ {p}
  PROVE  RoomOK(q)'
<1>1. /\ attached'[q] = attached[q] /\ pc'[q] = pc[q] /\ msg'[q] = msg[q] /\ com'[q] = com[q]
      /\ running_job'[q] = running_job[q] /\ stopped'[q] = stopped[q]
  BY ZenonT(60), OthersKept, StoppedStep DEF ScriptInv, Others
<1>2. RoomOK(q)
  BY DEF SlotsOK
<1>3. TableOf(q)' = TableOf(q)
  BY ZenonT(60), <1>1 DEF TableOf
<1>4. pc[q] \in {"ready"} \cup ScriptPoint => JobPieces(q)' = JobPieces(q)
  BY ZenonT(60), <1>1, CommonKept DEF JobPieces
<1>5. CASE pc[q] \in {"ready"} \cup ScriptPoint
  BY SMTT(60), <1>1, <1>2, <1>3, <1>4, <1>5 DEF RoomOK, At
<1>6. CASE pc[q] \notin {"ready"} \cup ScriptPoint
  BY ZenonT(60), <1>1, <1>2, <1>6 DEF RoomOK, At, ScriptPoint, MsgPoint
<1> QED
  BY ZenonT(60), <1>5, <1>6

\* After a step in which p's script goes on, its table holds no more than its
\* job and what it works on.
LEMMA RoomMove ==
  ASSUME ScriptInv, OwnershipInv, SlotsOK, NEW p \in Proc, Step(p),
         pc[p] \in {"ready"} \cup (ScriptPoint \ {"error", "free"}),
         running_job'[p] = running_job[p], pc'[p] # "error",
         \A x \in TableOf(p)' :
           x \in {com'[p], msg'[p]} \/ (x \in TableOf(p) /\ x \notin {com[p], msg[p]}),
         pc'[p] \in {"sent", "replied"} => msg'[p] \in TableOf(p)',
         pc'[p] = "warn" => msg'[p] \notin TableOf(p)',
         stopped'[p] = stopped[p]
  PROVE  RoomOK(p)'
<1>1. RoomOK(p)
  BY DEF SlotsOK
<1>2. JobPieces(p)' = JobPieces(p)
  BY ZenonT(60), CommonKept DEF JobPieces
<1>3. stopped'[p] => pc'[p] \in {"error", "reply", "replied", "free", "finish"}
  BY ZenonT(60), StoppedStep DEF ScriptInv
<1>4. ~stopped'[p] => TableOf(p)' \subseteq JobPieces(p)' \cup {com'[p], msg'[p]}
  <2> SUFFICES ASSUME ~stopped'[p], NEW x \in TableOf(p)'
               PROVE  x \in JobPieces(p) \cup {com'[p], msg'[p]}
    BY ZenonT(60), <1>2
  <2>1. TableOf(p) \subseteq JobPieces(p) \cup {com[p], msg[p]}
    BY ZenonT(60), <1>1 DEF RoomOK
  <2> QED
    BY ZenonT(60), <2>1
<1> QED
  BY ZenonT(60), <1>3, <1>4 DEF RoomOK, At

\* Every step leaves in the table of its process what its next point allows.
LEMMA RoomStep ==
  ASSUME ScriptInv, OwnershipInv, SlotsOK, NEW p \in Proc, Step(p)
  PROVE  RoomOK(p)'
<1>t. /\ ShmTypeOK /\ TablesOK /\ PointOK
      /\ pc \in [Proc -> Point]
      /\ msg \in [Proc -> Msg \cup {NoMsg}] /\ com \in [Proc -> Msg \cup {NoMsg}]
      /\ running_job \in [Proc -> Msg \cup {NoMsg}]
      /\ stopped \in [Proc -> BOOLEAN]
  BY ZenonT(60) DEF ScriptInv, TypeOK, CtlTypeOK, ServerTypeOK, OwnershipInv
<1>n. NoMsg \notin TableOf(p) /\ NoMsg \notin TableOf(p)' /\ NoMsg \notin Msg
  BY ZenonT(60), ShmAssumption DEF TableOf
<1>s. /\ stopped'[p] => pc'[p] \in {"error", "reply", "replied", "free", "finish"}
      /\ pc'[p] = "error" => stopped'[p]
  BY ZenonT(60), StoppedStep DEF ScriptInv
<1>m. pc[p] \notin MsgPoint => msg[p] = NoMsg
  BY ZenonT(60), <1>t DEF PointOK
<1>c. pc[p] \notin {"common", "multi", "request", "bind", "write", "sent", "warn"} =>
        com[p] = NoMsg
  BY ZenonT(60), <1>t DEF PointOK
<1>1. CASE StartJob(p) \/ StoreResponse(p)
  <2>1. PICK m \in Msg : acquire_shared_message(p, m) /\ msg' = [msg EXCEPT ![p] = m]
    BY ZenonT(60), <1>1 DEF StartJob, StoreResponse
  <2>2. /\ pc[p] \in {"script", "multi"} /\ pc'[p] \in {"request", "response"}
        /\ com'[p] = com[p] /\ stopped'[p] = stopped[p] /\ running_job'[p] = running_job[p]
    BY ZenonT(60), <1>1, <1>t DEF StartJob, StoreResponse, At, Goto, jobVars
  <2>3. TableOf(p)' \subseteq TableOf(p) \cup {m}
    BY ZenonT(60), <1>t, <2>1, ReplaceRoom DEF acquire_shared_message, attach
  <2>4. msg'[p] = m /\ msg[p] = NoMsg
    BY ZenonT(60), <1>m, <1>t, <2>1, <2>2 DEF MsgPoint
  <2> QED
    BY ZenonT(60), <1>n, <2>2, <2>3, <2>4, RoomMove DEF ScriptPoint, MsgPoint
<1>2. CASE StartMulti(p)
  <2>1. PICK m \in Msg : acquire_shared_message(p, m) /\ com' = [com EXCEPT ![p] = m]
    BY ZenonT(60), <1>2 DEF StartMulti
  <2>2. /\ pc[p] = "script" /\ pc'[p] = "common"
        /\ msg'[p] = msg[p] /\ stopped'[p] = stopped[p] /\ running_job'[p] = running_job[p]
    BY ZenonT(60), <1>2, <1>t DEF StartMulti, At, Goto, jobVars
  <2>3. TableOf(p)' \subseteq TableOf(p) \cup {m}
    BY ZenonT(60), <1>t, <2>1, ReplaceRoom DEF acquire_shared_message, attach
  <2>4. com'[p] = m /\ com[p] = NoMsg /\ msg[p] = NoMsg
    BY ZenonT(60), <1>c, <1>m, <1>t, <2>1, <2>2 DEF MsgPoint
  <2> QED
    BY ZenonT(60), <1>n, <2>2, <2>3, <2>4, RoomMove DEF ScriptPoint, MsgPoint
<1>3. CASE CopyTooBig(p)
  <2>1. /\ pc[p] \in {"common", "request", "response"}
        /\ pc'[p] \in {"script", "multi"} /\ stopped'[p] = stopped[p]
        /\ running_job'[p] = running_job[p] /\ msg'[p] = NoMsg
        /\ com'[p] = IF pc[p] = "common" THEN NoMsg ELSE com[p]
        /\ release_shared_message(p, Filling(p))
    BY ZenonT(60), <1>3, <1>t DEF CopyTooBig, AfterTooBig, AfterJob, At, Goto, jobVars
  <2>2. Filling(p) = (IF pc[p] = "common" THEN com[p] ELSE msg[p]) /\ Filling(p) \in Msg
    BY ZenonT(60), <2>1, InHand DEF Filling, At
  <2>3. TableOf(p)' = TableOf(p) \ Dropped(Filling(p)) /\ Filling(p) \in Dropped(Filling(p))
    BY ZenonT(60), <1>t, <2>1, <2>2, ReleaseTable DEF Dropped
  <2>4. pc[p] = "common" => msg[p] = NoMsg
    BY ZenonT(60), <1>m DEF MsgPoint
  <2> QED
    BY ZenonT(60), <1>n, <2>1, <2>2, <2>3, <2>4, RoomMove DEF ScriptPoint, MsgPoint
<1>4. CASE MultiDone(p)
  <2>1. /\ pc[p] = "multi" /\ pc'[p] = "script" /\ stopped'[p] = stopped[p]
        /\ running_job'[p] = running_job[p] /\ msg'[p] = msg[p] /\ com'[p] = NoMsg
        /\ release_shared_message(p, com[p])
    BY ZenonT(60), <1>4, <1>t DEF MultiDone, At, Goto, jobVars
  <2>2. com[p] \in Msg
    BY ZenonT(60), <2>1, InHand
  <2>3. TableOf(p)' = TableOf(p) \ Dropped(com[p]) /\ com[p] \in Dropped(com[p])
    BY ZenonT(60), <1>t, <2>1, <2>2, ReleaseTable DEF Dropped
  <2> QED
    BY ZenonT(60), <1>n, <2>1, <2>3, RoomMove DEF ScriptPoint, MsgPoint
<1>5. CASE SendJobReplyFails(p)
  <2>1. /\ pc[p] = "reply" /\ pc'[p] \in {"script", "free"} /\ stopped'[p] = stopped[p]
        /\ running_job'[p] = running_job[p] /\ msg'[p] = NoMsg /\ com'[p] = com[p]
        /\ release_shared_message(p, msg[p])
    BY ZenonT(60), <1>5, <1>t DEF SendJobReplyFails, AfterReply, At, Goto, jobVars
  <2>2. msg[p] \in Msg
    BY ZenonT(60), <2>1, InHand
  <2>3. TableOf(p)' = TableOf(p) \ Dropped(msg[p]) /\ msg[p] \in Dropped(msg[p])
    BY ZenonT(60), <1>t, <2>1, <2>2, ReleaseTable DEF Dropped
  <2> QED
    BY ZenonT(60), <1>n, <2>1, <2>3, RoomMove DEF ScriptPoint, MsgPoint

<1>6. CASE JobSent(p) \/ ReplySent(p)
  <2>1. /\ pc[p] \in {"sent", "replied"} /\ pc'[p] \in {"script", "multi", "free"}
        /\ stopped'[p] = stopped[p] /\ running_job'[p] = running_job[p]
        /\ msg'[p] = NoMsg /\ com'[p] = com[p]
        /\ detach(p, msg[p])
    BY ZenonT(60), <1>6, <1>t
    DEF JobSent, ReplySent, detach_shared_message_from_this_proc, AfterJob, AfterReply, At, Goto,
        jobVars
  <2>2. msg[p] \in Msg
    BY ZenonT(60), <1>t, <2>1 DEF PointOK, MsgPoint
  <2>3. TableOf(p)' = TableOf(p) \ {msg[p]}
    BY ZenonT(60), <1>t, <2>1, <2>2, DetachTable
  <2> QED
    BY ZenonT(60), <1>n, <2>1, <2>3, RoomMove DEF ScriptPoint, MsgPoint
<1>7. CASE SendJobFails(p)
  <2>1. /\ pc[p] = "write" /\ pc'[p] = "warn" /\ stopped'[p] = stopped[p]
        /\ running_job'[p] = running_job[p] /\ msg'[p] = msg[p] /\ com'[p] = com[p]
        /\ detach(p, msg[p])
    BY ZenonT(60), <1>7, <1>t DEF SendJobFails, unbind_and_release, At, Goto, ctlVars, jobVars
  <2>2. msg[p] \in Msg
    BY ZenonT(60), <2>1, InHand
  <2>3. TableOf(p)' = TableOf(p) \ {msg[p]}
    BY ZenonT(60), <1>t, <2>1, <2>2, DetachTable
  <2> QED
    BY ZenonT(60), <2>1, <2>3, RoomMove DEF ScriptPoint, MsgPoint
<1>8. CASE WarnQueueIsFull(p)
  <2>1. /\ pc[p] = "warn" /\ pc'[p] \in {"script", "multi"} /\ stopped'[p] = stopped[p]
        /\ running_job'[p] = running_job[p] /\ msg'[p] = NoMsg /\ com'[p] = com[p]
        /\ UNCHANGED attached
    BY ZenonT(60), <1>8, <1>t DEF WarnQueueIsFull, AfterJob, At, Goto, shmVars, jobVars
  <2>2. TableOf(p)' = TableOf(p) /\ msg[p] \notin TableOf(p)
    <3>1. TableOf(p)' = TableOf(p)
      BY ZenonT(60), <2>1 DEF TableOf
    <3> QED
      BY ZenonT(60), <2>1, <3>1 DEF SlotsOK, RoomOK, At
  <2> QED
    BY ZenonT(60), <1>n, <2>1, <2>2, RoomMove DEF ScriptPoint, MsgPoint
<1>9. CASE SendJob(p) \/ SendJobReply(p)
  <2>1. /\ pc[p] \in {"write", "reply"} /\ pc'[p] \in {"sent", "replied"}
        /\ stopped'[p] = stopped[p] /\ running_job'[p] = running_job[p]
        /\ msg'[p] = msg[p] /\ com'[p] = com[p] /\ UNCHANGED attached
    BY ZenonT(60), <1>9, <1>t DEF SendJob, SendJobReply, At, Goto, shmVars, ctlVars, jobVars
  <2>2. TableOf(p)' = TableOf(p) /\ msg[p] \in TableOf(p)
    <3>1. TableOf(p)' = TableOf(p)
      BY ZenonT(60), <2>1 DEF TableOf
    <3> QED
      BY ZenonT(60), <2>1, <3>1, InHand
  <2> QED
    BY ZenonT(60), <2>1, <2>2, RoomMove DEF ScriptPoint, MsgPoint
<1>10. CASE \/ CopyGrows(p) \/ CommonFilled(p) \/ (\E nr \in BOOLEAN : RequestFilled(p, nr))
            \/ BindCommon(p) \/ ResponseFilled(p) \/ StartJobScript(p)
  <2>1. /\ pc[p] \in {"common", "request", "bind", "response", "ready"}
        /\ pc'[p] \in {"common", "request", "response", "multi", "bind", "write", "reply", "script"}
        /\ stopped'[p] = stopped[p] /\ running_job'[p] = running_job[p]
        /\ msg'[p] = msg[p] /\ com'[p] = com[p] /\ UNCHANGED attached
    BY ZenonT(60), <1>10, <1>t
    DEF CopyGrows, CommonFilled, RequestFilled, BindCommon, ResponseFilled, StartJobScript,
        request_extra_memory_for_resource, bind_common_job, At, Goto, shmVars, ctlVars, jobVars
  <2>2. TableOf(p)' = TableOf(p)
    BY ZenonT(60), <2>1 DEF TableOf
  <2> QED
    BY ZenonT(60), <2>1, <2>2, RoomMove DEF ScriptPoint, MsgPoint
<1>11. CASE ProcessJobAnswer(p) \/ ProcessJobTimeout(p) \/ JobPipeEvent(p) \/ IgnoreJob(p)
  <2>1. UNCHANGED <<attached, pc, msg, com, stopped, running_job>>
    BY ZenonT(60), <1>11
    DEF ProcessJobAnswer, ProcessJobTimeout, JobPipeEvent, IgnoreJob, shmVars, ctlVars, jobVars
  <2>2. pc[p] \in {"idle", "script"}
    BY ZenonT(60), <1>11
    DEF ProcessJobAnswer, ProcessJobTimeout, JobPipeEvent, IgnoreJob, InEventLoop, At
  <2>3. CASE pc[p] = "script"
    <3>1. TableOf(p)' = TableOf(p)
      BY ZenonT(60), <2>1 DEF TableOf
    <3> QED
      BY ZenonT(60), <2>1, <2>3, <3>1, RoomMove DEF ScriptPoint
  <2>4. CASE pc[p] = "idle"
    BY ZenonT(60), <1>s, <2>1, <2>4 DEF RoomOK, At, ScriptPoint, MsgPoint
  <2> QED
    BY ZenonT(60), <2>2, <2>3, <2>4
<1>h. ASSUME pc[p] \in ScriptPoint \ {"error", "free"}, ~stopped[p], stopped'[p],
             pc'[p] \in {"error", "free"}, UNCHANGED <<attached, running_job>>
      PROVE  RoomOK(p)'
  <2>1. TableOf(p)' \subseteq JobPieces(p) \cup {com[p], msg[p]}
    <3>1. TableOf(p)' = TableOf(p)
      BY ZenonT(60), <1>h DEF TableOf
    <3> QED
      BY ZenonT(60), <1>h, <3>1 DEF SlotsOK, RoomOK
  <2>2. JobPieces(p)' = JobPieces(p)
    BY ZenonT(60), <1>h, CommonKept DEF JobPieces
  <2>3. com[p] \in Msg \cup {NoMsg} /\ msg[p] \in Msg \cup {NoMsg}
    BY ZenonT(60), <1>t
  <2>4. \E x, y \in Msg \cup {NoMsg} : TableOf(p)' \subseteq JobPieces(p)' \cup {x, y}
    BY ZenonT(60), <2>1, <2>2, <2>3
  <2> QED
    BY ZenonT(60), <1>h, <2>4 DEF RoomOK, At
<1>12. CASE StopScript(p)
  <2>1. /\ pc[p] \in Interruptible /\ pc'[p] \in {"error", "free"} /\ stopped'[p]
        /\ UNCHANGED <<attached, running_job>>
    BY ZenonT(60), <1>12, <1>t DEF StopScript, Stop, Goto, shmVars, jobVars
  <2>2. pc[p] \in ScriptPoint \ {"error", "free"} /\ ~stopped[p]
    BY ZenonT(60), <2>1 DEF Interruptible, ScriptPoint, MsgPoint, SlotsOK, RoomOK
  <2> QED
    BY ZenonT(60), <1>h, <2>1, <2>2
<1>13. CASE ReadJobResult(p)
  <2>1. /\ pc[p] \in {"idle", "script"} /\ UNCHANGED <<attached, running_job, msg, com>>
        /\ UNCHANGED <<pc, stopped>> \/ Stop(p)
    BY ZenonT(60), <1>13 DEF ReadJobResult, InEventLoop, attach_then_release, jobVars
  <2>2. TableOf(p)' = TableOf(p)
    BY ZenonT(60), <2>1 DEF TableOf
  <2>3. CASE pc[p] = "idle"
    <3>1. pc'[p] \in {"idle", "free"}
      BY ZenonT(60), <1>t, <2>1, <2>3 DEF Stop, reply_is_expected, Goto, PointOK
    <3> QED
      BY ZenonT(60), <1>s, <3>1 DEF RoomOK, At, ScriptPoint, MsgPoint
  <2>4. CASE pc[p] = "script" /\ UNCHANGED <<pc, stopped>>
    BY ZenonT(60), <2>1, <2>2, <2>4, RoomMove DEF ScriptPoint
  <2>5. CASE pc[p] = "script" /\ Stop(p)
    <3>1. stopped'[p] /\ pc'[p] \in {"error", "free"} /\ ~stopped[p]
      BY ZenonT(60), <1>t, <2>5 DEF Stop, Goto, SlotsOK, RoomOK
    <3> QED
      BY ZenonT(60), <1>h, <2>1, <2>5, <3>1 DEF ScriptPoint
  <2> QED
    BY ZenonT(60), <2>1, <2>3, <2>4, <2>5
<1>14. CASE TakeJob(p)
  <2>1. /\ pc'[p] \in {"ready", "parse"} /\ running_job'[p] = Head(job_pipe)
        /\ attach(p, Head(job_pipe)) /\ pc[p] = "idle"
    BY ZenonT(60), <1>14, <1>t DEF TakeJob, ReadsJob, attach_shared_message_to_this_proc, At, Goto
  <2>2. Head(job_pipe) \in Msg
    BY SMTT(60), <1>14 DEF TakeJob, ReadsJob, ScriptInv, TypeOK, PipeTypeOK
  <2>3. TableOf(p) = {}
    BY ZenonT(60), <2>1 DEF OwnershipInv, LocalOK, TakenOK, TableOf, At
  <2>4. TableOf(p)' \subseteq {Head(job_pipe)}
    BY ZenonT(60), <1>t, <2>1, <2>3, ReplaceRoom DEF attach
  <2>5. Head(job_pipe) \in JobPieces(p)'
    BY ZenonT(60), <1>n, <2>1, <2>2 DEF JobPieces
  <2> QED
    BY ZenonT(60), <1>s, <2>1, <2>4, <2>5 DEF RoomOK, At
<1>15. CASE AttachCommon(p)
  <2>1. /\ pc[p] = "parse" /\ pc'[p] = "ready" /\ running_job'[p] = running_job[p]
        /\ attach(p, common_job[running_job[p]]) /\ UNCHANGED <<running_job, common_job>>
    BY ZenonT(60), <1>15, <1>t
    DEF AttachCommon, attach_shared_message_to_this_proc, At, Goto, jobVars
  <2>2. TableOf(p) \subseteq {running_job[p]} /\ running_job[p] # NoMsg
    BY ZenonT(60), <2>1 DEF OwnershipInv, LocalOK, TakenOK, TableOf, At
  <2>3. TableOf(p)' \subseteq TableOf(p) \cup {common_job[running_job[p]]}
    BY ZenonT(60), <1>t, <2>1, ReplaceRoom DEF attach
  <2>4. JobPieces(p)' = {running_job[p], common_job[running_job[p]]}
    BY ZenonT(60), <2>1, <2>2 DEF JobPieces
  <2>5. TableOf(p)' \subseteq JobPieces(p)'
    BY ZenonT(60), <2>2, <2>3, <2>4
  <2> QED
    BY SMTT(60), <1>s, <2>1, <2>5 DEF RoomOK, At
<1>16. CASE StartScript(p)
  <2>1. pc[p] = "idle" /\ pc'[p] = "script" /\ UNCHANGED attached
    BY ZenonT(60), <1>16, <1>t DEF StartScript, At, Goto, shmVars
  <2>2. TableOf(p)' = {}
    <3>1. \A i \in Slot : attached'[p][i] = NoMsg
      BY ZenonT(60), <2>1 DEF OwnershipInv, LocalOK, TakenOK, At
    <3> QED
      BY ZenonT(60), <3>1 DEF TableOf
  <2> QED
    BY ZenonT(60), <1>s, <2>1, <2>2 DEF RoomOK, At
<1>17. CASE StoreJobResponseError(p)
  <2>1. pc'[p] = "reply" /\ stopped'[p]
    BY ZenonT(60), <1>17, <1>t DEF StoreJobResponseError, At, Goto, SlotsOK, RoomOK
  <2> QED
    BY ZenonT(60), <2>1 DEF RoomOK, At
<1>18. CASE \/ JobExpired(p) \/ ErrorResponseLost(p) \/ FreeScript(p) \/ ForciblyRelease(p)
            \/ FinishQuery(p) \/ StartWorker(p) \/ RunWorker(p) \/ Exit(p) \/ Kill(p)
  <2>1. pc'[p] \in {"finish", "free", "starting", "idle", "dead"}
    <3>1. CASE \/ JobExpired(p) \/ ErrorResponseLost(p) \/ FreeScript(p) \/ ForciblyRelease(p)
               \/ FinishQuery(p) \/ StartWorker(p) \/ RunWorker(p)
      BY ZenonT(60), <1>t, <3>1
      DEF JobExpired, ErrorResponseLost, FreeScript, ForciblyRelease, FinishQuery, StartWorker,
          RunWorker, Goto
    <3>2. CASE Exit(p) \/ Kill(p)
      BY ZenonT(60), <1>t, <3>2 DEF Exit, Kill, Die, Goto
    <3> QED
      BY ZenonT(60), <1>18, <3>1, <3>2
  <2> QED
    BY ZenonT(60), <1>s, <2>1 DEF RoomOK, At, ScriptPoint, MsgPoint
<1>19. CASE Sigterm(p)
  <2>1. UNCHANGED <<attached, common_job, pc, msg, com, stopped, running_job>>
    BY ZenonT(60), <1>19 DEF Sigterm, shmVars, ctlVars, jobVars
  <2>2. TableOf(p)' = TableOf(p) /\ JobPieces(p)' = JobPieces(p)
    BY ZenonT(60), <2>1 DEF TableOf, JobPieces
  <2>3. RoomOK(p)
    BY DEF SlotsOK
  <2> QED
    BY SMTT(60), <2>1, <2>2, <2>3 DEF RoomOK, At
<1> QED
  BY ZenonT(60), <1>1, <1>2, <1>3, <1>4, <1>5, <1>6, <1>7, <1>8, <1>9, <1>10, <1>11, <1>12, <1>13,
     <1>14, <1>15, <1>16, <1>17, <1>18, <1>19 DEF Step, ClientStep, ServerStep, LifeStep

-----------------------------------------------------------------------------
(* The invariant and the theorems.                                          *)

JobInv == ScriptInv /\ OwnershipInv /\ SlotsOK /\ ExtraOK /\ RepliesOK

\* The initial state has the whole invariant.
LEMMA JobInvInit == Init => JobInv
<1> SUFFICES ASSUME Init PROVE JobInv
  OBVIOUS
<1>1. ScriptInv /\ OwnershipInv
  BY ZenonT(60), ScriptInvInit, OwnershipInit
<1>2. SlotsOK
  BY ZenonT(60) DEF Init, SlotsOK, RoomOK, At, ScriptPoint, MsgPoint
<1>3. ExtraOK
  BY ZenonT(60) DEF Init, ShmInit, ExtraOK
<1>4. RepliesOK
  <2>1. job_pipe = <<>> /\ replied = {} /\ \A p \in Proc : pc[p] = "starting"
    BY ZenonT(60) DEF Init
  <2>2. \A m \in Msg : ~JobQueued(m)
    BY SMTT(60), <2>1 DEF JobQueued
  <2>3. \A m \in Msg : ~Unanswered(m)
    BY ZenonT(60), <2>1, <2>2 DEF Unanswered, ScriptPoint, MsgPoint
  <2> QED
    BY ZenonT(60), <2>1, <2>3 DEF RepliesOK
<1> QED
  BY ZenonT(60), <1>1, <1>2, <1>3, <1>4 DEF JobInv

\* Every step keeps it.
LEMMA JobInvStep ==
  ASSUME ~KillInWindow, JobInv, [Next]_vars
  PROVE  JobInv'
<1>1. ScriptInv' /\ OwnershipInv'
  BY ZenonT(60), ScriptInvStep, OwnershipStep DEF JobInv
<1>2. ASSUME NEW p \in Proc, Step(p) PROVE SlotsOK' /\ ExtraOK' /\ RepliesOK'
  <2>1. SlotsOK'
    BY ZenonT(60), <1>2, RoomStep, RoomOther DEF JobInv, SlotsOK
  <2> QED
    BY ZenonT(60), <1>2, <2>1, ExtraStep, RepliesStep DEF JobInv
<1>3. ASSUME UNCHANGED vars PROVE SlotsOK' /\ ExtraOK' /\ RepliesOK'
  <2>1. UNCHANGED <<free_messages, free_extra, common_job, extra, attached, job_pipe, metadata,
                    replied, pc, msg, com, stopped, end_slot_id, running_job, reply_was_sent>>
    BY ZenonT(60), <1>3 DEF vars, shmVars, pipeVars, ctlVars, idVars, jobVars
  <2>2. ExtraOK'
    BY ZenonT(60), <2>1 DEF JobInv, ExtraOK
  <2>3. \A m : (Unanswered(m)' <=> Unanswered(m)) /\ JobOf(m)' = JobOf(m)
    BY ZenonT(60), <2>1 DEF Unanswered, JobQueued, JobOf
  <2>4. RepliesOK'
    BY ZenonT(60), <2>1, <2>3 DEF JobInv, RepliesOK
  <2>5. \A p : TableOf(p)' = TableOf(p) /\ JobPieces(p)' = JobPieces(p)
    BY ZenonT(60), <2>1 DEF TableOf, JobPieces
  <2>6. SlotsOK'
    BY SMTT(60), <2>1, <2>5 DEF JobInv, SlotsOK, RoomOK, At
  <2> QED
    BY ZenonT(60), <2>2, <2>4, <2>6
<1> QED
  BY ZenonT(60), <1>1, <1>2, <1>3 DEF Next, Step, JobInv

\* Hence it holds in every state.
LEMMA JobInvHolds ==
  ASSUME ~KillInWindow
  PROVE  Spec => []JobInv
<1>1. JobInv /\ [Next]_vars => JobInv'
  BY ZenonT(60), JobInvStep
<1> QED
  BY <1>1, JobInvInit, PTL DEF Spec

\* As long as no process dies inside a handover window, an extra buffer is free
\* or chained to exactly one message that is in use: none is lost or given out
\* twice (request_extra_memory_for_resource, release_shared_message).
THEOREM NoBufferIsLost ==
  ASSUME ~KillInWindow
  PROVE  Spec => []ExtraBuffersAccounted
<1>1. ASSUME JobInv PROVE ExtraBuffersAccounted
  <2> SUFFICES ASSUME NEW b \in Buffer, NEW U, U = {m \in Msg : b \in extra[m]}
               PROVE  IF b \in free_extra THEN U = {}
                      ELSE Cardinality(U) = 1 /\ U \cap free_messages = {}
    BY ZenonT(60) DEF ExtraBuffersAccounted
  <2>1. ExtraOK
    BY <1>1 DEF JobInv
  <2>2. CASE b \in free_extra
    BY ZenonT(60), <2>1, <2>2 DEF ExtraOK
  <2>3. CASE b \notin free_extra
    <3>1. PICK m \in Msg : b \in extra[m]
      BY ZenonT(60), <2>1, <2>3 DEF ExtraOK
    <3>2. U = {m}
      BY <2>1, <3>1 DEF ExtraOK
    <3>3. Cardinality(U) = 1
      BY ZenonT(60), <3>2, FS_Singleton
    <3>4. m \notin free_messages
      BY ZenonT(60), <2>1, <3>1 DEF ExtraOK
    <3> QED
      BY ZenonT(60), <2>3, <3>2, <3>3, <3>4
  <2> QED
    BY ZenonT(60), <2>2, <2>3
<1> QED
  BY <1>1, JobInvHolds, PTL

\* As long as no process dies inside a handover window, no job is replied to
\* twice: when a response is written, none was written for that job before
\* (JobWorkerServer::send_job_reply, reply_was_sent).
THEOREM JobsAreRepliedOnce ==
  ASSUME ~KillInWindow
  PROVE  Spec => AtMostOneReply
<1> DEFINE First == \A p \in Proc :
       Len(result_pipe'[p]) > Len(result_pipe[p]) =>
         LET r == result_pipe'[p][Len(result_pipe'[p])]
         IN <<p, metadata'[r].job_id>> \notin replied
<1>1. ASSUME JobInv, Next PROVE First
  BY ZenonT(60), <1>1, ReplyIsFirst DEF JobInv, Next, Step
<1>2. JobInv /\ [Next]_vars => [First]_vars
  BY ZenonT(60), <1>1
<1> QED
  BY <1>2, JobInvHolds, PTL DEF Spec, AtMostOneReply

\* A table of five slots that holds at most four messages has a free one.
LEMMA FreeSlot ==
  ASSUME ShmTypeOK, TablesOK, SlotCount >= 5, NEW p \in Proc, NEW a, NEW b, NEW c, NEW d,
         TableOf(p) \subseteq {a, b, c, d}
  PROVE  HasFreeSlot(p)
<1>1. 1 \in Slot /\ 2 \in Slot /\ 3 \in Slot /\ 4 \in Slot /\ 5 \in Slot
  BY SMTT(60), ShmAssumption DEF Slot
<1> SUFFICES ASSUME \A i \in Slot : attached[p][i] # NoMsg PROVE FALSE
  BY ZenonT(60) DEF HasFreeSlot
<1>2. \A i \in Slot : attached[p][i] \in {a, b, c, d}
  BY ZenonT(60) DEF TableOf
<1>3. \A i, k \in Slot : attached[p][i] = attached[p][k] => i = k
  BY ZenonT(60) DEF TablesOK
<1> QED
  BY SMTT(60), <1>1, <1>2, <1>3

\* Where a message is attached next, five slots are enough.
LEMMA RoomForNext ==
  ASSUME ScriptInv, OwnershipInv, SlotsOK, SlotCount >= 5, NEW p \in Proc,
         pc[p] \in {"idle", "parse", "script", "multi", "error"}
  PROVE  HasFreeSlot(p)
<1>t. ShmTypeOK /\ TablesOK /\ LocalOK(p) /\ RoomOK(p)
  BY ZenonT(60) DEF ScriptInv, TypeOK, OwnershipInv, SlotsOK
<1>1. 1 \in Slot /\ 2 \in Slot /\ 2 # 1
  BY SMTT(60), ShmAssumption DEF Slot
<1>2. CASE pc[p] \in {"idle", "parse"}
  BY ZenonT(60), <1>1, <1>2, <1>t DEF LocalOK, TakenOK, HasFreeSlot, At
<1>3. CASE pc[p] \in {"script", "multi", "error"}
  <2>1. PICK x, y : TableOf(p) \subseteq JobPieces(p) \cup {x, y}
    <3>1. CASE pc[p] = "error"
      BY ZenonT(60), <1>t, <3>1 DEF RoomOK, At
    <3>2. CASE pc[p] \in {"script", "multi"}
      <4>1. TableOf(p) \subseteq JobPieces(p) \cup {com[p], msg[p]}
        BY ZenonT(60), <1>t, <3>2 DEF RoomOK, ScriptPoint
      <4> QED
        BY ZenonT(60), <4>1
    <3> QED
      BY ZenonT(60), <1>3, <3>1, <3>2
  <2>2. JobPieces(p) \subseteq {running_job[p], common_job[running_job[p]]}
    BY ZenonT(60) DEF JobPieces
  <2>3. TableOf(p) \subseteq {running_job[p], common_job[running_job[p]], x, y}
    BY ZenonT(60), <2>1, <2>2
  <2> QED
    BY ZenonT(60), <1>t, <2>3, FreeSlot
<1> QED
  BY ZenonT(60), <1>2, <1>3

\* What a process holds and what is in a pipe is counted.
LEMMA InUse ==
  ASSUME ScriptInv, OwnershipInv
  PROVE  /\ \A m \in Msg : m \notin free_messages => owners_counter[m] # 0
         /\ \A m \in Msg : InPipe(m) => m \notin free_messages
<1>1. MsgCounting /\ ShmTypeOK /\ CountOK
  BY ZenonT(60), MsgCountingHolds DEF ScriptInv, TypeOK, OwnershipInv
<1>2. \A m \in Msg : m \notin free_messages => owners_counter[m] # 0
  BY ZenonT(60), <1>1 DEF CountOK
<1>3. \A m \in Msg : InPipe(m) => m \notin free_messages
  BY ZenonT(60), <1>1, CountUse
<1> QED
  BY ZenonT(60), <1>2, <1>3

\* A process that lets a message go has its common piece too.
LEMMA DropsItsOwn ==
  ASSUME ScriptInv, OwnershipInv, NEW p \in Proc, NEW m \in Held(p),
         pc[p] \notin {"parse", "write"} \/ common_job[m] = NoMsg
  PROVE  Dropped(m) \subseteq TableOf(p)
<1>1. common_job[m] # NoMsg => common_job[m] \in Held(p)
  BY ZenonT(60) DEF OwnershipInv, LocalOK, PiecesOK, At
<1>2. Held(p) \subseteq TableOf(p)
  BY ZenonT(60) DEF Held
<1> QED
  BY ZenonT(60), <1>1, <1>2 DEF Dropped

\* As long as no process dies inside a handover window, and tables have five
\* slots or more (the code has eight), no assertion of the job code fails, for
\* any number of workers, messages, buffers and jobs (WorkerProcessMeta::replace,
\* attach_shared_message_to_this_proc, forcibly_release_all_attached_messages,
\* unbind_common_job, on_net_event, init_job_server_interface_lib,
\* store_job_response_error).
THEOREM NoAssertionFails ==
  ASSUME ~KillInWindow, SlotCount >= 5
  PROVE  Spec => []AssertionsHold
<1>1. ASSUME JobInv, NEW p \in Proc
      PROVE  /\ pc[p] \in {"idle", "parse", "script", "multi", "error"} => HasFreeSlot(p)
             /\ \A i \in 1..Len(job_pipe) : owners_counter[job_pipe[i]] # 0
             /\ \A i \in 1..Len(result_pipe[p]) : owners_counter[result_pipe[p][i]] # 0
             /\ At(p, "parse") => owners_counter[common_job[running_job[p]]] # 0
  <2>t. ScriptInv /\ OwnershipInv /\ SlotsOK /\ PipeTypeOK /\ ShmTypeOK /\ PointOK
    BY ZenonT(60), <1>1 DEF JobInv, ScriptInv, TypeOK
  <2>1. pc[p] \in {"idle", "parse", "script", "multi", "error"} => HasFreeSlot(p)
    BY ZenonT(60), <2>t, RoomForNext
  <2>2. \A i \in 1..Len(job_pipe) : owners_counter[job_pipe[i]] # 0
    <3>1. \A i \in 1..Len(job_pipe) : job_pipe[i] \in Msg
      BY SMTT(60), <2>t DEF PipeTypeOK
    <3>2. \A i \in 1..Len(job_pipe) : InPipe(job_pipe[i])
      BY ZenonT(60) DEF InPipe
    <3> QED
      BY ZenonT(60), <2>t, <3>1, <3>2, InUse
  <2>3. \A i \in 1..Len(result_pipe[p]) : owners_counter[result_pipe[p][i]] # 0
    <3>1. \A i \in 1..Len(result_pipe[p]) : result_pipe[p][i] \in Msg
      BY SMTT(60), <2>t DEF PipeTypeOK
    <3>2. \A i \in 1..Len(result_pipe[p]) : InPipe(result_pipe[p][i])
      BY ZenonT(60) DEF InPipe
    <3> QED
      BY ZenonT(60), <2>t, <3>1, <3>2, InUse
  <2>4. ASSUME pc[p] = "parse" PROVE owners_counter[common_job[running_job[p]]] # 0
    <3>1. /\ running_job[p] \in Held(p) /\ common_job[running_job[p]] # NoMsg
      BY ZenonT(60), <2>4, <2>t DEF OwnershipInv, LocalOK, JobOK, TakenOK, At
    <3>2. running_job[p] \in Msg \ free_messages
      BY ZenonT(60), <2>t, <3>1, InHand
    <3>3. /\ common_job[running_job[p]] \in Msg
          /\ running_job[p] \in JobsBoundTo(common_job[running_job[p]])
      BY ZenonT(60), <2>t, <3>1, <3>2 DEF ShmTypeOK, JobsBoundTo
    <3>4. common_job[running_job[p]] \notin free_messages
      BY ZenonT(60), <2>t, <3>3, MsgCountingHolds, CountUse DEF OwnershipInv
    <3> QED
      BY ZenonT(60), <2>t, <3>3, <3>4, InUse
  <2> QED
    BY ZenonT(60), <2>1, <2>2, <2>3, <2>4 DEF At
<1>2. ASSUME JobInv, NEW p \in Proc
      PROVE  /\ pc[p] \in {"sent", "replied"} => msg[p] \in TableOf(p)
             /\ pc[p] \in {"common", "request", "response"} =>
                  Dropped(Filling(p)) \subseteq TableOf(p)
             /\ At(p, "reply") => Dropped(msg[p]) \subseteq TableOf(p)
             /\ At(p, "multi") => Dropped(com[p]) \subseteq TableOf(p)
             /\ At(p, "free") /\ current_job[p] # NoMsg =>
                  Dropped(current_job[p]) \subseteq TableOf(p)
             /\ At(p, "write") => msg[p] \in TableOf(p)
  <2>t. ScriptInv /\ OwnershipInv /\ SlotsOK /\ PointOK
    BY ZenonT(60), <1>2 DEF JobInv, ScriptInv
  <2>1. pc[p] \in {"sent", "replied"} => msg[p] \in TableOf(p)
    BY ZenonT(60), <2>t DEF SlotsOK, RoomOK
  <2>2. pc[p] \in {"common", "request", "response"} => Dropped(Filling(p)) \subseteq TableOf(p)
    BY ZenonT(60), <2>t, InHand, DropsItsOwn DEF Filling, At
  <2>3. pc[p] = "reply" => Dropped(msg[p]) \subseteq TableOf(p)
    BY ZenonT(60), <2>t, InHand, DropsItsOwn
  <2>4. pc[p] = "multi" => Dropped(com[p]) \subseteq TableOf(p)
    BY ZenonT(60), <2>t, InHand, DropsItsOwn
  <2>5. ASSUME pc[p] = "free", current_job[p] # NoMsg
        PROVE  Dropped(current_job[p]) \subseteq TableOf(p)
    <3>1. current_job[p] = running_job[p]
      BY ZenonT(60), <2>5, <2>t DEF PointOK, ScriptPoint
    <3>2. running_job[p] \in Held(p)
      BY ZenonT(60), <2>5, <2>t, <3>1 DEF OwnershipInv, LocalOK, JobOK, ScriptPoint
    <3> QED
      BY ZenonT(60), <2>5, <2>t, <3>1, <3>2, DropsItsOwn
  <2>6. pc[p] = "write" => msg[p] \in TableOf(p)
    BY ZenonT(60), <2>t, InHand
  <2> QED
    BY ZenonT(60), <2>1, <2>2, <2>3, <2>4, <2>5, <2>6 DEF At
<1>3. ASSUME JobInv, NEW p \in Proc, pc[p] = "write", common_job[msg[p]] # NoMsg
      PROVE  owners_counter[common_job[msg[p]]] > 1
  <2>t. ScriptInv /\ OwnershipInv /\ ShmTypeOK /\ MsgCounting /\ LocalOK(p)
    BY ZenonT(60), <1>3, MsgCountingHolds DEF JobInv, ScriptInv, TypeOK, OwnershipInv
  <2>1. common_job[msg[p]] = com[p] /\ com[p] # NoMsg /\ com[p] \in Held(p) /\ msg[p] \in Held(p)
    BY ZenonT(60), <1>3, <2>t DEF LocalOK, MsgOK, ComOK, At
  <2>2. com[p] \in Msg /\ msg[p] \in Msg \ free_messages
    BY ZenonT(60), <2>1, <2>t, InHand
  <2>3. JobsBoundTo(com[p]) # {} /\ Owned(com[p])
    BY ZenonT(60), <2>1, <2>2 DEF JobsBoundTo, Owned, OwnsByTable
  <2>4. /\ owners_counter[com[p]] = Cardinality(JobsBoundTo(com[p])) + 1
        /\ Cardinality(JobsBoundTo(com[p])) \in Nat
        /\ Cardinality(JobsBoundTo(com[p])) # 0
    BY ZenonT(60), <2>2, <2>3, <2>t, BoundCount DEF OwnershipInv, CountOK
  <2> QED
    BY SMTT(60), <2>1, <2>4
<1>4. ASSUME JobInv, NEW p \in Proc, pc[p] \in {"starting", "finish"}, NEW i \in Slot,
             NextForced(p, i)
      PROVE  /\ owners_counter[attached[p][i]] # 0
             /\ Dropped(attached[p][i]) \subseteq TableOf(p)
  <2>t. ScriptInv /\ OwnershipInv
    BY ZenonT(60), <1>4 DEF JobInv
  <2>1. attached[p][i] \in Held(p)
    BY ZenonT(60), <1>4 DEF NextForced, Held, TableOf, HandedOver
  <2>2. attached[p][i] \in Msg \ free_messages
    BY ZenonT(60), <2>1, <2>t, InHand
  <2> QED
    BY ZenonT(60), <1>4, <2>1, <2>2, <2>t, InUse, DropsItsOwn
<1>5. ASSUME JobInv, NEW p \in Proc, pc[p] = "idle", NEW i \in 1..Len(result_pipe[p])
      PROVE  ~IsFromCurrentScript(p, metadata[result_pipe[p][i]].job_id)
  <2>1. begin_slot_id[p] = end_slot_id[p] /\ end_slot_id[p] \in Nat
    BY ZenonT(60), <1>5
    DEF JobInv, ScriptInv, IdsOK, TypeOK, IdTypeOK, ScriptPoint, MsgPoint
  <2>2. metadata[result_pipe[p][i]].job_id \in Nat
    <3>1. result_pipe[p][i] \in Msg
      BY SMTT(60), <1>5 DEF JobInv, ScriptInv, TypeOK, PipeTypeOK
    <3> QED
      BY ZenonT(60), <1>5, <3>1 DEF JobInv, ScriptInv, TypeOK, PipeTypeOK
  <2> QED
    BY SMTT(60), <2>1, <2>2 DEF IsFromCurrentScript
<1>6. ASSUME JobInv, NEW p \in Proc
      PROVE  /\ At(p, "ready") => current_job[p] = NoMsg
             /\ At(p, "error") => running_job[p] # NoMsg
  BY ZenonT(60), <1>6 DEF JobInv, ScriptInv, PointOK, At, ScriptPoint, MsgPoint
<1>7. ASSUME JobInv PROVE AssertionsHold
  BY ZenonT(60), <1>1, <1>2, <1>3, <1>4, <1>5, <1>6, <1>7 DEF AssertionsHold, At
<1> QED
  BY <1>7, JobInvHolds, PTL

-----------------------------------------------------------------------------
(* What a reader sees of a message.                                         *)

\* A message that was sent is in use, and is in a pipe or in the hands of the job
\* worker that runs it and of nobody else.
LEMMA SentInUse ==
  ASSUME ScriptInv, OwnershipInv, NEW m \in Msg, Sent(m)
  PROVE  /\ m \notin free_messages
         /\ InPipe(m) \/ \E q \in Proc : /\ running_job[q] = m /\ m # msg[q] /\ m # com[q]
                                         /\ \A p \in Proc \ {q} : m \notin Held(p)
<1>1. CASE InPipe(m)
  BY ZenonT(60), <1>1, InUse
<1>2. CASE ~InPipe(m)
  <2>1. PICK q \in Proc : running_job[q] = m /\ (At(q, "parse") \/ UsesJob(q))
    BY ZenonT(60), <1>2 DEF Sent
  <2>2. m # NoMsg
    BY ShmAssumption
  <2>3. /\ pc[q] \in {"parse", "ready"} \cup ScriptPoint
        /\ LocalOK(q) /\ SharedInv /\ ShmTypeOK
    BY ZenonT(60), <2>1
    DEF UsesJob, At, ScriptPoint, MsgPoint, OwnershipInv, SharedInv, ScriptInv, TypeOK
  <2>4. m \in Held(q) /\ m # msg[q] /\ m # com[q] /\ JobsBoundTo(m) = {}
    BY ZenonT(60), <2>1, <2>2, <2>3 DEF LocalOK, JobOK
  <2>5. m \notin free_messages
    BY ZenonT(60), <2>4, InHand
  <2>6. \A p \in Proc \ {q} : m \notin Held(p)
    BY ZenonT(60), <2>3, <2>4, MsgCountingHolds, HeldUnbound
  <2> QED
    BY ZenonT(60), <2>1, <2>4, <2>5, <2>6
<1> QED
  BY <1>1, <1>2

\* A message that was sent, or is bound to such a job, is not free.
LEMMA SharedInUse ==
  ASSUME ScriptInv, OwnershipInv, NEW m \in Msg, Shared(m)
  PROVE  /\ m \notin free_messages
         /\ Sent(m) \/ JobsBoundTo(m) # {}
<1>1. CASE Sent(m)
  BY ZenonT(60), <1>1, SentInUse
<1>2. CASE ~Sent(m)
  <2>1. PICK j \in Msg : Sent(j) /\ common_job[j] = m
    BY ZenonT(60), <1>2 DEF Shared
  <2>2. j \in JobsBoundTo(m)
    BY ZenonT(60), <2>1, SentInUse DEF JobsBoundTo
  <2>3. ShmTypeOK /\ CountOK
    BY ZenonT(60) DEF ScriptInv, TypeOK, OwnershipInv
  <2> QED
    BY ZenonT(60), <2>2, <2>3, MsgCountingHolds, CountUse
<1> QED
  BY <1>1, <1>2

\* What a process writes to is not shared.
LEMMA SharedNotWritten ==
  ASSUME ScriptInv, OwnershipInv, FreshOK, NEW p \in Proc, NEW m \in Msg, Shared(m),
         Written(p, m), m \notin free_messages'
  PROVE  FALSE
<1>1. m \notin free_messages /\ (Sent(m) \/ JobsBoundTo(m) # {})
  BY ZenonT(60), SharedInUse
<1>2. ASSUME m \in Held(p), m \in {msg[p], com[p]}, JobsBoundTo(m) = {} PROVE FALSE
  <2>1. Sent(m)
    BY <1>1, <1>2
  <2>2. ~InPipe(m)
    BY ZenonT(60), <1>2, InHand
  <2>3. PICK q \in Proc : /\ running_job[q] = m /\ m # msg[q] /\ m # com[q]
                          /\ \A r \in Proc \ {q} : m \notin Held(r)
    BY ZenonT(60), <2>1, <2>2, SentInUse
  <2>4. q = p
    BY ZenonT(60), <1>2, <2>3
  <2> QED
    BY ZenonT(60), <1>2, <2>3, <2>4
<1>3. CASE m = msg[p] /\ pc[p] \in {"request", "bind", "write", "response", "reply"}
  <2>1. m \in Held(p) /\ JobsBoundTo(m) = {}
    BY ZenonT(60), <1>3 DEF OwnershipInv, LocalOK, MsgOK
  <2> QED
    BY ZenonT(60), <1>2, <1>3, <2>1
<1>4. CASE m = com[p] /\ pc[p] = "common"
  <2>1. m \in Held(p) /\ JobsBoundTo(m) = {}
    BY ZenonT(60), <1>4, InHand DEF FreshOK, At
  <2> QED
    BY ZenonT(60), <1>2, <1>4, <2>1
<1> QED
  BY ZenonT(60), <1>1, <1>3, <1>4 DEF Written

\* Every step leaves a piece that start_multi is filling without jobs.
LEMMA FreshStep ==
  ASSUME ScriptInv, OwnershipInv, FreshOK, NEW p \in Proc, Step(p)
  PROVE  FreshOK'
<1> SUFFICES ASSUME NEW q \in Proc, pc'[q] = "common", NEW c, c = com'[q]
             PROVE  JobsBoundTo(c)' = {}
  BY ZenonT(60) DEF FreshOK, At, JobsBoundTo
<1>t. ShmTypeOK /\ CountOK /\ HeldOK /\ LocalOK(p)
  BY ZenonT(60) DEF ScriptInv, TypeOK, OwnershipInv
<1>o. Others(p)
  BY ZenonT(60), OthersKept DEF ScriptInv
<1>1. \/ pc[q] = "common" /\ c = com[q]
      \/ c \in free_messages
  <2>1. CASE q = p
    BY ZenonT(60), <2>1, CommonStarts
  <2>2. CASE q # p
    BY ZenonT(60), <1>o, <2>2 DEF Others
  <2> QED
    BY ZenonT(60), <2>1, <2>2
<1>2. CASE pc[q] = "common" /\ c = com[q]
  <2>1. c \in Held(q) /\ c \in Msg
    BY ZenonT(60), <1>2, InHand
  <2>2. JobsBoundTo(c) = {}
    BY ZenonT(60), <1>2 DEF FreshOK, At
  <2>3. ~(com[p] = c /\ pc[p] = "bind")
    <3> SUFFICES ASSUME com[p] = c, pc[p] = "bind" PROVE FALSE
      OBVIOUS
    <3>1. com[p] \in Held(p)
      BY ZenonT(60), <1>t, <2>1, ShmAssumption DEF LocalOK, ComOK
    <3>2. p = q
      BY ZenonT(60), <1>2, <1>t, <2>1, <3>1 DEF HeldOK, OwnsByTable
    <3> QED
      BY ZenonT(60), <1>2, <3>2
  <2> QED
    BY ZenonT(60), <2>1, <2>2, <2>3, BoundKept
<1>3. CASE c \in free_messages
  <2>1. c \in Msg /\ JobsBoundTo(c) = {}
    BY ZenonT(60), <1>3, <1>t, MsgCountingHolds, CountUse DEF ShmTypeOK
  <2>2. ~(com[p] = c /\ pc[p] = "bind")
    <3>1. com[p] = c => com[p] \in Held(p)
      BY ZenonT(60), <1>t, <2>1, ShmAssumption DEF LocalOK, ComOK
    <3> QED
      BY ZenonT(60), <1>3, <1>t, <3>1 DEF HeldOK
  <2> QED
    BY ZenonT(60), <2>1, <2>2, BoundKept
<1> QED
  BY ZenonT(60), <1>1, <1>2, <1>3

\* Hence no job is bound to a piece before it is filled, in every state.
LEMMA FreshHolds ==
  ASSUME ~KillInWindow
  PROVE  Spec => [](ScriptInv /\ OwnershipInv /\ FreshOK)
<1>1. Init => FreshOK
  BY ZenonT(60) DEF Init, FreshOK, At
<1>2. ASSUME ScriptInv, OwnershipInv, FreshOK, [Next]_vars PROVE FreshOK'
  <2>1. CASE UNCHANGED vars
    <3>1. UNCHANGED <<free_messages, common_job, pc, com>>
      BY ZenonT(60), <2>1 DEF vars, shmVars, ctlVars
    <3> QED
      BY ZenonT(60), <1>2, <3>1 DEF FreshOK, At, JobsBoundTo
  <2> QED
    BY ZenonT(60), <1>2, <2>1, FreshStep DEF Next, Step
<1> QED
  BY <1>1, <1>2, OwnershipHolds, PTL DEF Spec

\* As long as no process dies inside a handover window, nobody writes to a message
\* that was sent, nor to the common piece of a sent job, before its reader gives it
\* up: for any number of workers, messages and jobs (send_job_request_message,
\* send_job_reply, job_parse_execute).
THEOREM SentIsFrozen ==
  ASSUME ~KillInWindow
  PROVE  Spec => SentMessagesAreFrozen
<1> DEFINE Frozen == \A m \in Msg : Shared(m) /\ Shared(m)' =>
                       UNCHANGED <<metadata[m], common_job[m], extra[m]>>
<1> DEFINE SharedOK == \A m \in Msg : Shared(m) => m \notin free_messages
<1>0. ScriptInv /\ OwnershipInv => SharedOK
  BY ZenonT(60), SharedInUse
<1>1. ASSUME ScriptInv, OwnershipInv, FreshOK, SharedOK', [Next]_vars
      PROVE  [Frozen]_vars
  <2>1. ASSUME NEW p \in Proc, Step(p), NEW m \in Msg, Shared(m), Shared(m)'
        PROVE  metadata'[m] = metadata[m] /\ common_job'[m] = common_job[m] /\ extra'[m] = extra[m]
    <3>1. m \notin free_messages'
      BY ZenonT(60), <1>1, <2>1
    <3>2. ~Written(p, m)
      BY ZenonT(60), <1>1, <2>1, <3>1, SharedNotWritten
    <3> QED
      BY ZenonT(60), <1>1, <2>1, <3>2, MetadataWritten, PieceWritten, MemoryWritten
  <2>2. ASSUME NEW p \in Proc, Step(p) PROVE Frozen
    BY ZenonT(60), <2>1, <2>2
  <2> HIDE DEF Frozen
  <2> QED
    BY ZenonT(60), <1>1, <2>2 DEF Next, Step
<1>2. ScriptInv /\ OwnershipInv /\ FreshOK /\ SharedOK' /\ [Next]_vars => [Frozen]_vars
  BY ZenonT(60), <1>1
<1> HIDE DEF SharedOK
<1> QED
  BY <1>0, <1>2, FreshHolds, PTL DEF Spec, SentMessagesAreFrozen
=============================================================================
