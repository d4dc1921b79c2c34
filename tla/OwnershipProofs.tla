--------------------------- MODULE OwnershipProofs --------------------------
(***************************************************************************)
(* OwnershipInv through every action of JobWorkers.                        *)
(***************************************************************************)
EXTENDS JobWorkersInv, OwnershipLemmas

USE ZenonT(20), SMTT(60)

-----------------------------------------------------------------------------
(* The actions that leave the pipes alone.                                  *)

\* The steps that move locals and leave shared memory and pipes alone.
LEMMA QuietActions ==
  ASSUME NEW p \in Proc, StepFrom(p), UNCHANGED <<shmVars, job_pipe, result_pipe>>,
         \/ CommonFilled(p) \/ WarnQueueIsFull(p) \/ StartJobScript(p) \/ JobExpired(p)
         \/ ResponseFilled(p) \/ ErrorResponseLost(p) \/ StartScript(p) \/ StopScript(p)
         \/ FreeScript(p) \/ FinishQuery(p) \/ StartWorker(p) \/ RunWorker(p)
         \/ (\E nr \in BOOLEAN : RequestFilled(p, nr))
  PROVE  QuietMove(p)
<1> USE DEF QuietMove, ScriptPoint, MsgPoint, Goto, At, ctlVars, jobVars, shmVars
<1>t. CtlTypeOK /\ ServerTypeOK /\ PointOK /\ ShmTypeOK
  BY Start
<1>1. CASE CommonFilled(p) \/ ResponseFilled(p) \/ ErrorResponseLost(p)
  BY <1>t, <1>1 DEF CommonFilled, ResponseFilled, ErrorResponseLost, CtlTypeOK
<1>2. CASE StartJobScript(p) \/ JobExpired(p)
  BY <1>t, <1>2 DEF StartJobScript, JobExpired, CtlTypeOK
<1>3. CASE WarnQueueIsFull(p)
  BY <1>t, <1>3 DEF WarnQueueIsFull, AfterJob, CtlTypeOK
<1>4. CASE StartScript(p)
  BY <1>t, <1>4 DEF StartScript, CtlTypeOK, PointOK
<1>5. CASE StopScript(p)
  BY <1>t, <1>5 DEF StopScript, Stop, Interruptible, CtlTypeOK
<1>6. CASE FreeScript(p) \/ RunWorker(p)
  BY <1>t, <1>6 DEF FreeScript, RunWorker, CtlTypeOK
<1>7. CASE FinishQuery(p) \/ StartWorker(p)
  <2>1. \A i \in Slot : attached[p][i] = NoMsg
    BY <1>7 DEF FinishQuery, StartWorker, TableOf
  <2> QED
    BY <1>t, <1>7, <2>1 DEF FinishQuery, StartWorker, CtlTypeOK
<1>8. ASSUME NEW nr \in BOOLEAN, RequestFilled(p, nr) PROVE QuietMove(p)
  BY <1>t, <1>8 DEF RequestFilled, CtlTypeOK
<1> QED
  BY ZenonT(60), <1>1, <1>2, <1>3, <1>4, <1>5, <1>6, <1>7, <1>8

\* A process that dies outside the handover windows leaves its table as it is.
LEMMA DieQuietly ==
  ASSUME NEW p \in Proc, StepFrom(p), Die(p), pc[p] \notin HandoverWindow,
         UNCHANGED <<job_pipe, result_pipe>>
  PROVE  QuietMove(p)
<1>1. CtlTypeOK /\ ServerTypeOK
  BY Start
<1> QED
  BY <1>1 DEF Die, HandoverWindow, QuietMove, Goto, shmVars, pipeVars, CtlTypeOK, ServerTypeOK,
              ScriptPoint, MsgPoint

\* The steps that move locals keep the owners of messages.
LEMMA QuietActionsKeep ==
  ASSUME NEW p \in Proc, StepFrom(p),
         \/ CommonFilled(p) \/ WarnQueueIsFull(p) \/ StartJobScript(p) \/ JobExpired(p)
         \/ ResponseFilled(p) \/ ErrorResponseLost(p) \/ StartScript(p) \/ StopScript(p)
         \/ FinishQuery(p) \/ StartWorker(p) \/ RunWorker(p)
         \/ (\E nr \in BOOLEAN : RequestFilled(p, nr))
  PROVE  OwnershipInv'
<1>1. UNCHANGED <<shmVars, job_pipe, result_pipe>>
  BY DEF CommonFilled, WarnQueueIsFull, StartJobScript, JobExpired, ResponseFilled,
         ErrorResponseLost, StartScript, StopScript, FinishQuery, StartWorker, RunWorker,
         RequestFilled, pipeVars
<1> QED
  BY <1>1, QuietActions, QuietMoveKeeps

\* So does a death: the table of the dead process still names what it held.
LEMMA DeathKeeps ==
  ASSUME ~KillInWindow, NEW p \in Proc, StepFrom(p), Exit(p) \/ Kill(p)
  PROVE  OwnershipInv'
<1>1. Die(p) /\ pc[p] \notin HandoverWindow /\ UNCHANGED <<job_pipe, result_pipe>>
  BY DEF Exit, Kill, HandoverWindow, At
<1> QED
  BY <1>1, DieQuietly, QuietMoveKeeps

\* So do the steps that neither move nor change what the invariant speaks of.
LEMMA StayActions ==
  ASSUME NEW p \in Proc, StepFrom(p),
         \/ CopyGrows(p) \/ ProcessJobAnswer(p) \/ ProcessJobTimeout(p) \/ JobPipeEvent(p)
         \/ IgnoreJob(p) \/ Sigterm(p)
  PROVE  OwnershipInv'
<1>1. UNCHANGED <<free_messages, owners_counter, common_job, attached, job_pipe, result_pipe, pc,
                  msg, com, running_job>>
  BY DEF CopyGrows, ProcessJobAnswer, ProcessJobTimeout, JobPipeEvent, IgnoreJob, Sigterm, shmVars,
         pipeVars, ctlVars, jobVars, request_extra_memory_for_resource
<1> QED
  BY <1>1, Start, Stay DEF StepFrom

\* The steps that take a message from the pool.
LEMMA AcquireActions ==
  ASSUME NEW p \in Proc, StepFrom(p),
         StartJob(p) \/ StartMulti(p) \/ StoreResponse(p) \/ StoreJobResponseError(p)
  PROVE  OwnershipInv'
<1> USE DEF At, Goto
<1>1. PICK m \in Msg :
        /\ acquire_shared_message(p, m)
        /\ \/ com' = [com EXCEPT ![p] = m] /\ msg' = msg /\ pc[p] = "script"
              /\ pc' = [pc EXCEPT ![p] = "common"]
           \/ com' = com /\ msg' = [msg EXCEPT ![p] = m] /\ pc[p] \in {"script", "multi", "error"}
              /\ \E x \in {"request", "response", "reply"} : pc' = [pc EXCEPT ![p] = x]
  <2>1. CASE StartMulti(p)
    BY <2>1 DEF StartMulti
  <2>2. CASE StartJob(p)
    BY <2>2 DEF StartJob
  <2>3. CASE StoreResponse(p) \/ StoreJobResponseError(p)
    BY <2>3 DEF StoreResponse, StoreJobResponseError
  <2> QED
    BY <2>1, <2>2, <2>3
<1>2. UNCHANGED <<job_pipe, result_pipe, running_job>>
  BY DEF StartJob, StartMulti, StoreResponse, StoreJobResponseError, pipeVars, jobVars
<1>3. /\ pc[p] \in {"script", "multi", "error"}
      /\ \/ com'[p] = m /\ com[p] = NoMsg /\ pc'[p] = "common" /\ msg'[p] = NoMsg
         \/ com'[p] = com[p] /\ pc'[p] \in {"request", "response", "reply"} /\ msg'[p] = m
  BY <1>1, Start DEF CtlTypeOK, PointOK, MsgPoint
<1>4. PipesSame /\ Settled(p)
  BY <1>2, <1>3 DEF PipesSame, Settled
<1>5. /\ SharedInv'
      /\ \A q \in Proc \ {p} : LocalOK(q)'
      /\ Held(p)' = Held(p) \cup {m}
      /\ m \notin Held(p)
      /\ common_job'[m] = NoMsg
      /\ \A x \in Msg \ {m} : common_job'[x] = common_job[x]
      /\ \A x \in Msg : JobsBoundTo(x)' = JobsBoundTo(x)
      /\ JobsBoundTo(m)' = {}
      /\ \A j \in Held(p) : common_job[j] # m
      /\ \A x, y \in Msg : Before(p, x, y) => Before(p, x, y)'
  BY <1>1, <1>3, <1>4, Start, AcquireStep
<1>6. pc[p] \in ScriptPoint /\ pc[p] \notin {"write", "parse"}
  BY <1>3 DEF ScriptPoint
<1>7. LocalOK(p)'
  BY ZenonT(60), <1>2, <1>3, <1>5, <1>6, Start, AcquireLocal
<1> QED
  BY <1>5, <1>7, Conclude

\* So does the end of a copy that outgrows the buffers.
LEMMA CopyTooBigKeeps ==
  ASSUME NEW p \in Proc, StepFrom(p), CopyTooBig(p)
  PROVE  OwnershipInv'
<1> USE DEF At, Goto
<1>1. /\ pc[p] \in {"common", "request", "response"}
      /\ release_shared_message(p, Filling(p))
      /\ msg' = [msg EXCEPT ![p] = NoMsg]
      /\ com' = IF pc[p] = "common" THEN [com EXCEPT ![p] = NoMsg] ELSE com
      /\ pc' = [pc EXCEPT ![p] = AfterTooBig(p)]
      /\ UNCHANGED <<job_pipe, result_pipe, running_job>>
  BY DEF CopyTooBig, pipeVars, jobVars
<1>2. CtlTypeOK /\ PointOK /\ LocalOK(p) /\ ShmTypeOK /\ SharedInv
  BY Start
<1>3. CASE pc[p] = "common"
  <2>1. com[p] # NoMsg /\ com[p] \in Msg /\ com[p] \in Held(p)
    BY <1>2, <1>3 DEF CtlTypeOK, PointOK, LocalOK, ComOK
  <2>2. OwnsByTable(p, com[p])
    BY <2>1 DEF OwnsByTable
  <2>3. running_job[p] # NoMsg => running_job[p] # com[p]
    BY <1>2, <1>3 DEF LocalOK, JobOK, ScriptPoint
  <2>4. ReleaseMove(p, com[p])
    BY ZenonT(60), <1>1, <1>2, <1>3, <2>1, <2>2, <2>3
    DEF ReleaseMove, Filling, AfterTooBig, CtlTypeOK, ScriptPoint
  <2> QED
    BY <2>1, <2>4, ReleaseMoveKeeps
<1>4. CASE pc[p] \in {"request", "response"}
  <2>1. /\ msg[p] \in Held(p) /\ JobsBoundTo(msg[p]) = {} /\ msg[p] # com[p]
        /\ running_job[p] # NoMsg => running_job[p] # msg[p]
    BY <1>2, <1>4 DEF LocalOK, MsgOK, JobOK, ScriptPoint, MsgPoint
  <2>2. OwnsByTable(p, msg[p]) /\ msg[p] \in Msg
    BY <1>2, <2>1, Start, HeldUnbound
  <2>3. /\ pc'[p] \in {"script", "multi"} /\ com'[p] = com[p] /\ msg'[p] = NoMsg
        /\ Filling(p) = msg[p] /\ running_job'[p] = running_job[p]
    BY <1>1, <1>2, <1>4 DEF Filling, AfterTooBig, AfterJob, CtlTypeOK
  <2>4. release_shared_message(p, msg[p])
    BY <1>1, <1>4 DEF Filling
  <2>5. pc[p] \in ScriptPoint
    BY <1>4 DEF ScriptPoint, MsgPoint
  <2>6. ReleaseMove(p, msg[p])
    BY ZenonT(60), <1>1, <1>4, <2>1, <2>2, <2>3, <2>4, <2>5 DEF ReleaseMove
  <2> QED
    BY <2>2, <2>6, ReleaseMoveKeeps
<1> QED
  BY <1>1, <1>3, <1>4

\* So does the end of start_multi, which gives up the common piece.
LEMMA MultiDoneKeeps ==
  ASSUME NEW p \in Proc, StepFrom(p), MultiDone(p)
  PROVE  OwnershipInv'
<1>1. /\ pc[p] = "multi"
      /\ release_shared_message(p, com[p])
      /\ com' = [com EXCEPT ![p] = NoMsg]
      /\ pc' = [pc EXCEPT ![p] = "script"]
      /\ UNCHANGED <<job_pipe, result_pipe, running_job, msg>>
  BY DEF MultiDone, pipeVars, jobVars, At, Goto
<1>2. CtlTypeOK /\ PointOK /\ LocalOK(p)
  BY Start
<1>3. com[p] # NoMsg /\ com[p] \in Msg /\ com[p] \in Held(p)
  BY <1>1, <1>2 DEF CtlTypeOK, PointOK, LocalOK, ComOK
<1>4. OwnsByTable(p, com[p])
  BY <1>3 DEF OwnsByTable
<1>5. running_job[p] # NoMsg => running_job[p] # com[p]
  BY <1>1, <1>2 DEF LocalOK, JobOK, ScriptPoint
<1>6. ReleaseMove(p, com[p])
  BY ZenonT(60), <1>1, <1>2, <1>3, <1>4, <1>5 DEF ReleaseMove, CtlTypeOK, ScriptPoint
<1> QED
  BY <1>3, <1>6, ReleaseMoveKeeps

\* So does a response that the pipe does not take.
LEMMA SendJobReplyFailsKeeps ==
  ASSUME NEW p \in Proc, StepFrom(p), SendJobReplyFails(p)
  PROVE  OwnershipInv'
<1>1. /\ pc[p] = "reply"
      /\ release_shared_message(p, msg[p])
      /\ msg' = [msg EXCEPT ![p] = NoMsg]
      /\ pc' = [pc EXCEPT ![p] = AfterReply(p)]
      /\ UNCHANGED <<job_pipe, result_pipe, running_job, com>>
  BY DEF SendJobReplyFails, pipeVars, jobVars, At, Goto
<1>2. CtlTypeOK /\ PointOK /\ LocalOK(p) /\ ShmTypeOK /\ SharedInv
  BY Start
<1>3. /\ msg[p] \in Held(p) /\ JobsBoundTo(msg[p]) = {} /\ msg[p] # com[p]
      /\ running_job[p] # NoMsg => running_job[p] # msg[p]
  BY ZenonT(60), <1>1, <1>2 DEF LocalOK, MsgOK, JobOK, ScriptPoint, MsgPoint
<1>4. OwnsByTable(p, msg[p]) /\ msg[p] \in Msg
  BY <1>2, <1>3, Start, HeldUnbound
<1>5. pc'[p] \in {"free", "script"} /\ msg'[p] = NoMsg
  BY <1>1, <1>2 DEF AfterReply, CtlTypeOK
<1>6. pc[p] \in ScriptPoint
  BY <1>1 DEF ScriptPoint, MsgPoint
<1>7. ReleaseMove(p, msg[p])
  BY <1>1, <1>3, <1>4, <1>5, <1>6 DEF ReleaseMove
<1> QED
  BY <1>4, <1>7, ReleaseMoveKeeps

\* So does the end of a script, which releases the job that it worked on.
LEMMA FreeScriptKeeps ==
  ASSUME NEW p \in Proc, StepFrom(p), FreeScript(p)
  PROVE  OwnershipInv'
<1>1. /\ pc[p] = "free"
      /\ pc' = [pc EXCEPT ![p] = "finish"]
      /\ UNCHANGED <<job_pipe, result_pipe, running_job, com, msg>>
  BY DEF FreeScript, pipeVars, ctlVars, At, Goto
<1>2. CtlTypeOK /\ PointOK /\ LocalOK(p) /\ ShmTypeOK /\ SharedInv
  BY Start
<1>3. CASE UNCHANGED shmVars
  BY ZenonT(60), <1>1, <1>3, QuietActions, QuietMoveKeeps
<1>4. CASE current_job[p] # NoMsg /\ release_shared_message(p, current_job[p])
  <2>1. current_job[p] = running_job[p] /\ running_job[p] # NoMsg /\ com[p] = NoMsg
    BY <1>1, <1>2, <1>4 DEF PointOK, ScriptPoint
  <2>2. running_job[p] \in Held(p) /\ JobsBoundTo(running_job[p]) = {}
    BY <1>1, <1>2, <2>1 DEF LocalOK, JobOK, ScriptPoint
  <2>3. OwnsByTable(p, running_job[p]) /\ running_job[p] \in Msg
    BY <1>2, <2>2, Start, HeldUnbound
  <2>4. ReleaseMove(p, running_job[p])
    BY <1>1, <1>2, <1>4, <2>1, <2>3 DEF ReleaseMove, CtlTypeOK, ScriptPoint, MsgPoint
  <2> QED
    BY <2>3, <2>4, ReleaseMoveKeeps
<1> QED
  BY <1>3, <1>4 DEF FreeScript

\* The first message of the table is p's own: the piece of a job comes after it.
LEMMA ForciblyReleaseKeeps ==
  ASSUME NEW p \in Proc, StepFrom(p), ForciblyRelease(p)
  PROVE  OwnershipInv'
<1>1. /\ pc[p] \in {"starting", "finish"}
      /\ UNCHANGED <<job_pipe, result_pipe, running_job, com, msg, pc>>
  BY DEF ForciblyRelease, pipeVars, ctlVars, jobVars
<1>2. CtlTypeOK /\ PointOK /\ LocalOK(p) /\ ShmTypeOK /\ SharedInv
  BY Start
<1>3. PICK i \in Slot : NextForced(p, i) /\ release_shared_message(p, attached[p][i])
  BY DEF ForciblyRelease, forcibly_release_next
<1>4. PICK m : m = attached[p][i]
  OBVIOUS
<1>5. /\ m \in Msg /\ m # NoMsg
      /\ \A k \in Slot : k < i => attached[p][k] = NoMsg
      /\ \A k \in Slot : attached[p][k] = m => k = i
  BY SMTT(60), <1>2, <1>3, <1>4 DEF NextForced, ShmTypeOK, SharedInv, TablesOK
<1>6. m \in Held(p)
  BY <1>1, <1>4, <1>5 DEF Held, TableOf, HandedOver
<1>7. \A j \in Held(p) : common_job[j] # m
  <2> SUFFICES ASSUME NEW j \in Held(p), common_job[j] = m PROVE FALSE
    OBVIOUS
  <2>1. Before(p, j, m)
    BY <1>1, <1>2, <1>5 DEF LocalOK, PiecesOK, At
  <2>2. PICK k \in Slot : k < i /\ attached[p][k] = j
    BY <1>5, <2>1 DEF Before
  <2>3. j # NoMsg
    BY <1>2, HeldType, ShmAssumption
  <2> QED
    BY <1>5, <2>2, <2>3
<1>8. OwnsByTable(p, m)
  BY <1>6, <1>7 DEF OwnsByTable
<1>9. com[p] = NoMsg
  BY <1>1, <1>2 DEF PointOK
<1>10. ReleaseMove(p, m)
  BY <1>1, <1>3, <1>4, <1>5, <1>8, <1>9 DEF ReleaseMove, ScriptPoint, MsgPoint
<1> QED
  BY <1>5, <1>10, ReleaseMoveKeeps

\* So does the binding of a job to the common piece.
LEMMA BindCommonKeeps ==
  ASSUME NEW p \in Proc, StepFrom(p), BindCommon(p)
  PROVE  OwnershipInv'
<1>1. /\ pc[p] = "bind" /\ pc'[p] = "write"
      /\ bind_common_job(msg[p], com[p])
      /\ UNCHANGED <<job_pipe, result_pipe, running_job, com, msg>>
  BY Start DEF BindCommon, pipeVars, ctlVars, jobVars, At, Goto, CtlTypeOK
<1>2. PointOK /\ LocalOK(p) /\ ShmTypeOK /\ Held(p) \subseteq Msg /\ NoMsg \notin Msg
  BY Start, HeldType, ShmAssumption
<1>3. PICK m, c : m = msg[p] /\ c = com[p]
  OBVIOUS
<1>4. /\ m \in Held(p) /\ c \in Held(p) /\ m # c
      /\ common_job[m] = NoMsg /\ common_job[c] = NoMsg /\ JobsBoundTo(m) = {}
  BY <1>1, <1>2, <1>3 DEF PointOK, LocalOK, MsgOK, ComOK, At
<1>5. PipesSame /\ Settled(p)
  BY <1>1 DEF PipesSame, Settled
<1>6. /\ SharedInv'
      /\ \A q \in Proc \ {p} : LocalOK(q)'
      /\ Held(p)' = Held(p)
      /\ common_job'[m] = c
      /\ \A x \in Msg \ {m} : common_job'[x] = common_job[x]
      /\ \A x \in Msg \ {c} : JobsBoundTo(x)' = JobsBoundTo(x)
      /\ attached' = attached
  BY ZenonT(60), <1>1, <1>3, <1>4, <1>5, Start, BindStep
<1>7. PiecesOK(p)'
  <2>1. \A j \in Held(p) : common_job[j] # NoMsg =>
          /\ com[p] # common_job[j]
          /\ common_job[j] \in Held(p)
          /\ Before(p, j, common_job[j])
    BY <1>1, <1>2 DEF LocalOK, PiecesOK, At
  <2>2. \A x, y : Before(p, x, y)' <=> Before(p, x, y)
    BY <1>6 DEF Before
  <2>3. ASSUME NEW j \in Held(p) \ {m}, common_job'[j] # NoMsg
        PROVE  /\ common_job'[j] = common_job[j]
               /\ com'[p] # common_job'[j]
               /\ common_job'[j] \in Held(p)'
               /\ Before(p, j, common_job[j])'
    BY ZenonT(60), <1>1, <1>2, <1>6, <2>1, <2>2, <2>3
  <2>4. pc'[p] = "write" /\ msg'[p] = m /\ com'[p] = common_job'[m]
    BY <1>1, <1>3, <1>6
  <2>5. \A j, k \in Held(p)' : common_job'[j] = common_job'[k] /\ common_job'[j] # NoMsg => j = k
    BY SMTT(60), <1>1, <1>2, <1>3, <1>6, <2>3, <2>4 DEF LocalOK, PiecesOK
  <2> QED
    BY <1>6, <2>3, <2>4, <2>5 DEF PiecesOK, At
<1>8. ComOK(p)'
  BY <1>1, <1>2, <1>3, <1>4, <1>6 DEF ComOK
<1>9. MsgOK(p)'
  <2>1. JobsBoundTo(m)' = {}
    BY <1>2, <1>4, <1>6
  <2> QED
    BY <1>1, <1>3, <1>4, <1>6, <2>1 DEF MsgOK, At
<1>10. JobOK(p)'
  <2>1. running_job[p] # NoMsg => /\ running_job[p] \in Held(p)
                                  /\ running_job[p] # c
                                  /\ running_job[p] # m
                                  /\ JobsBoundTo(running_job[p]) = {}
    BY <1>1, <1>2, <1>3 DEF LocalOK, JobOK, ScriptPoint, MsgPoint
  <2>2. running_job[p] # NoMsg => JobsBoundTo(running_job[p])' = {}
    BY <1>1, <1>2, <1>6, <2>1
  <2> QED
    BY <1>1, <1>3, <1>6, <2>1, <2>2 DEF JobOK
<1>11. TakenOK(p)'
  BY <1>1 DEF TakenOK, At
<1> QED
  BY ZenonT(60), <1>6, <1>7, <1>8, <1>9, <1>10, <1>11, Conclude DEF LocalOK

-----------------------------------------------------------------------------
(* The actions with which a message goes through a pipe, or fails to.       *)

\* So does the write of a job or of a response, which hands it over.
LEMMA SendKeeps ==
  ASSUME NEW p \in Proc, StepFrom(p), SendJob(p) \/ SendJobReply(p)
  PROVE  OwnershipInv'
<1>1. /\ pc[p] \in {"write", "reply"} /\ pc'[p] \in {"sent", "replied"}
      /\ UNCHANGED <<shmVars, com, msg, running_job>>
  BY Start DEF SendJob, SendJobReply, ctlVars, jobVars, At, Goto, CtlTypeOK
<1>2. LocalOK(p) /\ ShmTypeOK /\ PipeTypeOK /\ SharedInv
  BY Start
<1>3. PICK m : m = msg[p]
  OBVIOUS
<1>4. /\ m \in Held(p) /\ m # com[p] /\ JobsBoundTo(m) = {}
      /\ common_job[m] = IF pc[p] = "write" THEN com[p] ELSE NoMsg
  BY <1>1, <1>2, <1>3 DEF LocalOK, MsgOK, At
<1>5. m \in Msg /\ ~InPipe(m)
  BY <1>2, <1>4, HeldType DEF SharedInv, HeldOK
<1>6. PipesOK' /\ \A x \in Msg : InPipe(x)' <=> InPipe(x) \/ x = m
  <2>1. CASE SendJob(p)
    <3>1. job_pipe' = Append(job_pipe, m) /\ UNCHANGED result_pipe
      BY <1>3, <2>1 DEF SendJob
    <3> QED
      BY <1>1, <1>2, <1>5, <3>1, JobAppended DEF shmVars, SharedInv
  <2>2. CASE SendJobReply(p)
    <3>1. /\ pc[p] = "reply" /\ UNCHANGED job_pipe
          /\ result_pipe' = [result_pipe EXCEPT ![metadata[running_job[p]].fd] = Append(@, m)]
          /\ running_job[p] # NoMsg
      BY <1>3, <2>2 DEF SendJobReply, At, reply_is_expected
    <3>2. metadata[running_job[p]].fd \in Proc
      BY <1>2, <3>1, Start DEF PipeTypeOK, ServerTypeOK
    <3> QED
      BY ZenonT(60), <1>1, <1>2, <1>4, <1>5, <3>1, <3>2, ResultAppended DEF shmVars, SharedInv
  <2> QED
    BY <2>1, <2>2
<1>7. /\ SharedInv'
      /\ \A q \in Proc \ {p} : LocalOK(q)'
      /\ Held(p)' = Held(p) \ {m}
      /\ \A x : JobsBoundTo(x)' = JobsBoundTo(x)
  BY <1>1, <1>3, <1>4, <1>6, Start, HandOverStep DEF shmVars
<1>8. \A x, y : Before(p, x, y) => Before(p, x, y)'
  BY <1>1 DEF Before, shmVars
<1>9. LocalOK(p)'
  BY ZenonT(60), <1>1, <1>2, <1>3, <1>4, <1>7, <1>8, LoseLocal DEF shmVars
<1> QED
  BY <1>7, <1>9, Conclude

\* So does a job that the pipe does not take, which loses its piece.
LEMMA SendJobFailsKeeps ==
  ASSUME NEW p \in Proc, StepFrom(p), SendJobFails(p)
  PROVE  OwnershipInv'
<1>1. /\ pc[p] = "write" /\ pc'[p] = "warn"
      /\ unbind_and_release(p, msg[p])
      /\ UNCHANGED <<job_pipe, result_pipe, com, msg, running_job>>
  BY Start DEF SendJobFails, pipeVars, ctlVars, jobVars, At, Goto, CtlTypeOK
<1>2. LocalOK(p) /\ ShmTypeOK /\ SharedInv
  BY Start
<1>3. PICK m : m = msg[p]
  OBVIOUS
<1>4. /\ m \in Held(p) /\ m # com[p] /\ JobsBoundTo(m) = {} /\ common_job[m] = com[p]
      /\ com[p] # NoMsg => com[p] \in Held(p)
  BY <1>1, <1>2, <1>3 DEF LocalOK, MsgOK, ComOK, At
<1>5. PipesSame /\ Settled(p)
  BY <1>1 DEF PipesSame, Settled
<1>6. /\ SharedInv'
      /\ \A q \in Proc \ {p} : LocalOK(q)'
      /\ Held(p)' = Held(p) \ {m}
      /\ \A x \in Msg \ {m} : common_job'[x] = common_job[x]
      /\ \A x \in Msg : JobsBoundTo(x)' \subseteq JobsBoundTo(x)
      /\ \A x, y \in Msg \ {m} : Before(p, x, y) => Before(p, x, y)'
  BY ZenonT(60), <1>1, <1>3, <1>4, <1>5, Start, UnbindStep
<1>7. LocalOK(p)'
  BY ZenonT(60), <1>1, <1>2, <1>3, <1>4, <1>6, LoseLocal
<1> QED
  BY <1>6, <1>7, Conclude

\* So does the detach after a write, whatever has become of the message.
LEMMA SettleKeeps ==
  ASSUME NEW p \in Proc, StepFrom(p), JobSent(p) \/ ReplySent(p)
  PROVE  OwnershipInv'
<1>1. /\ pc[p] \in {"sent", "replied"} /\ pc'[p] \in {"script", "multi", "free"}
      /\ detach_shared_message_from_this_proc(p, msg[p])
      /\ UNCHANGED <<job_pipe, result_pipe, com, running_job>>
      /\ msg'[p] = NoMsg
  BY Start DEF JobSent, ReplySent, pipeVars, jobVars, At, Goto, CtlTypeOK, AfterJob, AfterReply
<1>2. LocalOK(p) /\ ShmTypeOK /\ Held(p) \subseteq Msg /\ NoMsg \notin Msg
  BY Start, HeldType, ShmAssumption
<1>3. PICK m : m = msg[p]
  OBVIOUS
<1>4. m \in Msg
  BY <1>1, <1>3, Start DEF CtlTypeOK, PointOK, MsgPoint
<1>5. PipesSame
  BY <1>1 DEF PipesSame
<1>6. /\ SharedInv'
      /\ \A q \in Proc \ {p} : LocalOK(q)'
      /\ Held(p)' = Held(p)
      /\ m \notin Held(p)
      /\ common_job' = common_job
      /\ \A x : JobsBoundTo(x)' = JobsBoundTo(x)
      /\ \A x, y \in Msg \ {m} : Before(p, x, y) => Before(p, x, y)'
  BY ZenonT(60), <1>1, <1>3, <1>4, <1>5, Start, SettleStep
<1>7. PiecesOK(p)'
  <2>1. \A j \in Held(p) : common_job[j] # NoMsg => common_job[j] \in Held(p)
    BY <1>1, <1>2 DEF LocalOK, PiecesOK, At
  <2>2. \A j \in Held(p)' : common_job'[j] # NoMsg =>
          /\ j \in Held(p)
          /\ common_job'[j] = common_job[j]
          /\ com'[p] = com[p]
          /\ common_job[j] \in Held(p)'
          /\ Before(p, j, common_job[j]) => Before(p, j, common_job[j])'
    BY <1>1, <1>2, <1>6, <2>1
  <2> QED
    BY ZenonT(60), <1>1, <1>2, <2>2, PiecesKept DEF LocalOK
<1>8. ComOK(p)'
  BY <1>1, <1>2, <1>6 DEF LocalOK, ComOK
<1>9. MsgOK(p)' /\ TakenOK(p)'
  BY <1>1 DEF MsgOK, TakenOK, At
<1>10. JobOK(p)'
  BY <1>1, <1>2, <1>6 DEF LocalOK, JobOK, ScriptPoint, MsgPoint
<1> QED
  BY ZenonT(60), <1>6, <1>7, <1>8, <1>9, <1>10, Conclude DEF LocalOK

\* So does the read of a response.
LEMMA ReadJobResultKeeps ==
  ASSUME NEW p \in Proc, StepFrom(p), ReadJobResult(p)
  PROVE  OwnershipInv'
<1>1. /\ pc[p] \in {"idle", "script"} /\ result_pipe[p] # <<>>
      /\ attach_then_release(p, Head(result_pipe[p]))
      /\ result_pipe' = [result_pipe EXCEPT ![p] = Tail(@)]
      /\ UNCHANGED <<job_pipe, com, msg, running_job>>
      /\ UNCHANGED pc \/ Stop(p)
  BY DEF ReadJobResult, InEventLoop, jobVars
<1>2. /\ pc'[p] \in {"idle", "script", "error", "free"}
      /\ pc'[p] = "idle" => pc[p] = "idle"
  BY <1>1, Start DEF Stop, Goto, CtlTypeOK
<1>3. /\ LocalOK(p) /\ pc[p] = "idle" => running_job[p] = NoMsg
      /\ Held(p) \subseteq Msg
  BY <1>1, Start, HeldType DEF PointOK
<1>4. Settled(p)
  BY <1>1, <1>2 DEF Settled
<1>5. /\ SharedInv'
      /\ \A q \in Proc \ {p} : LocalOK(q)'
      /\ Held(p)' = Held(p)
      /\ common_job' = common_job
      /\ attached' = attached
      /\ \A x \in Msg : JobsBoundTo(x)' = JobsBoundTo(x)
  BY <1>1, <1>4, Start, ReadStep
<1>6. LocalOK(p)'
  <2>1. \A m \in Held(p) : JobsBoundTo(m) = {} => JobsBoundTo(m)' = {}
    BY <1>3, <1>5
  <2>2. pc'[p] \in {"parse", "ready"} \cup ScriptPoint /\ running_job'[p] # NoMsg =>
          /\ pc[p] \in {"parse", "ready"} \cup ScriptPoint
          /\ running_job'[p] = running_job[p]
    BY <1>1, <1>3, Start DEF ScriptPoint, PointOK
  <2>3. LocalOK(p)
    BY Start
  <2> QED
    BY ZenonT(60), <1>1, <1>2, <1>5, <2>1, <2>2, <2>3, QuietLocal
<1> QED
  BY <1>5, <1>6, Conclude

\* So does the read of a job.
LEMMA TakeJobKeeps ==
  ASSUME NEW p \in Proc, StepFrom(p), TakeJob(p)
  PROVE  OwnershipInv'
<1>1. PICK m : m = Head(job_pipe)
  OBVIOUS
<1>2. /\ pc[p] = "idle" /\ job_pipe # <<>>
      /\ attach_shared_message_to_this_proc(p, m)
      /\ job_pipe' = Tail(job_pipe)
      /\ running_job' = [running_job EXCEPT ![p] = m]
      /\ pc' = [pc EXCEPT ![p] = IF common_job[m] = NoMsg THEN "ready" ELSE "parse"]
      /\ UNCHANGED <<result_pipe, com, msg>>
  BY <1>1 DEF TakeJob, ReadsJob, ctlVars, At, Goto
<1>3. /\ pc'[p] = IF common_job[m] = NoMsg THEN "ready" ELSE "parse"
      /\ running_job'[p] = m
      /\ com[p] = NoMsg /\ msg[p] = NoMsg
  BY <1>2, Start DEF CtlTypeOK, ServerTypeOK, PointOK, MsgPoint
<1>4. Settled(p) /\ \A i \in Slot : attached[p][i] = NoMsg
  BY SMTT(60), <1>2, <1>3, Start DEF Settled, LocalOK, TakenOK, At
<1>5. /\ SharedInv'
      /\ \A q \in Proc \ {p} : LocalOK(q)'
      /\ m \in Msg
      /\ Held(p)' = {m}
      /\ common_job' = common_job
      /\ \A i \in Slot : attached'[p][i] = IF i = 1 THEN m ELSE NoMsg
      /\ JobsBoundTo(m)' = {}
  BY ZenonT(60), <1>1, <1>2, <1>4, Start, TakeStep
<1>6. com'[p] = NoMsg /\ msg'[p] = NoMsg /\ m # NoMsg /\ 1 \in Slot
  BY SMTT(60), <1>2, <1>3, <1>5, ShmAssumption DEF Slot
<1>7. PiecesOK(p)' /\ ComOK(p)' /\ MsgOK(p)'
  BY <1>3, <1>5, <1>6 DEF PiecesOK, ComOK, MsgOK, At
<1>8. JobOK(p)'
  <2>1. JobsBoundTo(running_job[p])' = {}
    BY <1>3, <1>5
  <2> QED
    BY <1>3, <1>5, <1>6, <2>1 DEF JobOK
<1>9. TakenOK(p)'
  BY <1>3, <1>5, <1>6 DEF TakenOK, At
<1> QED
  BY ZenonT(60), <1>5, <1>7, <1>8, <1>9, Conclude DEF LocalOK

\* So does the attach of the common piece of a job that was read.
LEMMA AttachCommonKeeps ==
  ASSUME NEW p \in Proc, StepFrom(p), AttachCommon(p)
  PROVE  OwnershipInv'
<1>1. PICK j, c : j = running_job[p] /\ c = common_job[j]
  OBVIOUS
<1>2. /\ pc[p] = "parse" /\ pc'[p] = "ready"
      /\ attach_shared_message_to_this_proc(p, c)
      /\ UNCHANGED <<job_pipe, result_pipe, com, msg, running_job>>
  BY <1>1, Start DEF AttachCommon, pipeVars, ctlVars, jobVars, At, Goto, CtlTypeOK
<1>3. /\ com[p] = NoMsg /\ msg[p] = NoMsg
      /\ c # NoMsg /\ j # NoMsg /\ attached[p][1] = j
      /\ \A i \in Slot : i # 1 => attached[p][i] = NoMsg
  BY <1>1, <1>2, Start DEF PointOK, MsgPoint, LocalOK, TakenOK, At
<1>4. PipesSame /\ Settled(p)
  BY <1>2 DEF PipesSame, Settled
<1>5. Held(p) = {j} /\ j \in Held(p)
  <2>1. 1 \in Slot
    BY SMTT(60), ShmAssumption DEF Slot
  <2>2. TableOf(p) = {j}
    BY <1>3, <2>1 DEF TableOf
  <2> QED
    BY <1>4, <2>2, HeldSettled
<1>6. /\ SharedInv'
      /\ \A q \in Proc \ {p} : LocalOK(q)'
      /\ Held(p)' = {j, c}
      /\ common_job' = common_job
      /\ common_job[c] = NoMsg
      /\ JobsBoundTo(j)' = {}
      /\ Before(p, j, c)'
  BY <1>1, <1>2, <1>3, <1>4, <1>5, Start, AttachPieceStep
<1>7. PiecesOK(p)'
  BY <1>1, <1>2, <1>3, <1>6 DEF PiecesOK
<1>8. ComOK(p)' /\ MsgOK(p)' /\ TakenOK(p)'
  BY <1>2, <1>3 DEF ComOK, MsgOK, TakenOK, At
<1>9. JobOK(p)'
  <2>1. JobsBoundTo(running_job[p])' = {}
    BY <1>1, <1>2, <1>6
  <2> QED
    BY <1>1, <1>2, <1>3, <1>6, <2>1 DEF JobOK
<1> QED
  BY ZenonT(60), <1>6, <1>7, <1>8, <1>9, Conclude DEF LocalOK
=============================================================================
