--------------------------- MODULE LifecycleProofs ---------------------------
(***************************************************************************)
(* In local mode the incident keeps the promise of IncidentLifecycle, and  *)
(* its trail tells of every production run: what a request has checked     *)
(* stays true since no other handler runs before its own is over.          *)
(***************************************************************************)
EXTENDS WardenIncidentProofs

USE DEF EndPCs, WorkingPCs

-----------------------------------------------------------------------------
(* The invariant in local mode *)

\* The status is that of the task's place in its run until it is over, which
\* no await separates from the last write.
TaskShowsStatus ==
  /\ orch.pc \in {"created", "scheduled"} => incident.status = "INGESTED"
  /\ orch.pc \in (WorkingPCs \ {"created", "scheduled"}) \cup {"failing"} =>
       incident.status = "DIAGNOSING"
  /\ orch.pc \notin {"readback", "lost"}

\* No step id is ahead of the trail's length, and the next one by one only.
StepIdsFit == \A i \in 1..Len(steps) : steps[i].step_id <= Len(steps)

TaskIdsFit ==
  /\ orch.pc \in {"created", "scheduled", "call", "turn_end"} => orch.ids <= Len(steps)
  /\ orch.pc \in {"model", "tool", "result"} => orch.ids <= Len(steps) + 1

OneAtATime ==
  \A r, s \in Requests : r # s => req[r].pc \in RestingPCs \/ req[s].pc \in RestingPCs

\* The trail holds one entry with this number, a decision, and its execution
\* with the next number.
Decided(d) ==
  /\ d \in 1..Len(steps)
  /\ steps[d].kind = "USER_DECISION" /\ steps[d].step_id = d
  /\ \A j \in 1..Len(steps) : steps[j].step_id = d => j = d

Reported(d) ==
  /\ Decided(d)
  /\ d + 1 \in 1..Len(steps)
  /\ steps[d + 1].kind = "EXECUTION" /\ steps[d + 1].step_id = d + 1

HasRun(q) == q.pc \in {"log", "settle"} /\ q.kind = "execute"

\* What a request has seen and done, q being its state.
Acts(q) ==
  /\ q.pc \in AdmittedPCs => incident.status = "AWAITING_APPROVAL"
  /\ q.pc \in AdmittedPCs => (HasRun(q) <=> prodRuns # <<>>)
  /\ HasRun(q) => q.succeeded
  /\ q.pc = "decide" => q.step = Len(steps) + 1
  /\ q.pc \in {"run", "log"} => q.step = Len(steps) /\ Decided(Len(steps))
  /\ HasRun(q) /\ q.pc = "settle" => Reported(Len(steps) - 1)

RunIsOne ==
  /\ Len(prodRuns) <= 1
  /\ prodRuns # <<>> =>
       \/ incident.status = "RESOLVED" /\ \E d \in 1..Len(steps) : Reported(d)
       \/ \E r \in Requests : HasRun(req[r])

LocalInv ==
  /\ TaskShowsStatus /\ StepIdsFit /\ TaskIdsFit
  /\ OneAtATime /\ (\A r \in Requests : Acts(req[r])) /\ RunIsOne

\* The trail is a list: an entry is added whatever its number.
LEMMA LocalAppend ==
  ASSUME Mode = "local", steps \in Seq(Step), NEW id, NEW kind, NEW status,
         AppendStep(id, kind, status)
  PROVE  /\ Len(steps') = Len(steps) + 1
         /\ \A i \in 1..Len(steps) : steps'[i] = steps[i]
         /\ steps'[Len(steps) + 1].step_id = id
         /\ steps'[Len(steps) + 1].kind = kind
<1> DEFINE step == [step_id |-> id, kind |-> kind, status |-> status]
<1>1. steps' = Append(steps, step)
  BY DEF AppendStep
<1>2. step.step_id = id /\ step.kind = kind
  OBVIOUS
<1> HIDE DEF step
<1>3. /\ Len(steps') = Len(steps) + 1
      /\ \A i \in 1..Len(steps) : steps'[i] = steps[i]
      /\ steps'[Len(steps) + 1] = step
  BY <1>1, LenProperties
<1> QED
  BY <1>2, <1>3

-----------------------------------------------------------------------------
(* The task *)

\* The steps the task makes the incident take.
TaskStep ==
  \/ incident'.status = incident.status
  \/ incident.status = "INGESTED" /\ incident'.status = "DIAGNOSING"
  \/ /\ incident.status = "DIAGNOSING"
     /\ incident'.status \in {"AWAITING_APPROVAL", "REJECTED", "FAILED"}

\* An entry whose number is at most the new length.
LEMMA FittingEntry ==
  ASSUME Mode = "local", steps \in Seq(Step), StepIdsFit,
         NEW id \in Nat, id <= Len(steps) + 1, NEW kind, NEW status,
         AppendStep(id, kind, status)
  PROVE  Len(steps') = Len(steps) + 1 /\ StepIdsFit'
<1>1. /\ Len(steps) \in Nat
      /\ \A i \in 1..Len(steps) : steps[i].step_id \in Nat
  <2>1. ASSUME NEW i \in 1..Len(steps) PROVE steps[i] \in Step
    BY <2>1, ElementOfSeq
  <2> QED
    BY <2>1, LenProperties DEF Step
<1>2. /\ Len(steps') = Len(steps) + 1
      /\ \A i \in 1..Len(steps) : steps'[i] = steps[i]
      /\ steps'[Len(steps) + 1].step_id = id
  BY LocalAppend
<1>3. \A i \in 1..(Len(steps) + 1) : steps'[i].step_id <= Len(steps) + 1
  <2> SUFFICES ASSUME NEW i \in 1..(Len(steps) + 1)
               PROVE  steps'[i].step_id <= Len(steps) + 1
    OBVIOUS
  <2>1. CASE i = Len(steps) + 1
    BY <1>2, <2>1
  <2>2. CASE i \in 1..Len(steps)
    BY <1>1, <1>2, <2>2 DEF StepIdsFit
  <2> QED
    BY <1>1, <2>1, <2>2
<1> QED
  BY <1>2, <1>3 DEF StepIdsFit

\* The task's status is that of its place in the run, its numbers never run ahead
\* of the trail, and it takes the incident along the lifecycle only.
LEMMA TaskKeepsLocal ==
  ASSUME Mode = "local", StoreTypeOK, OrchestratorTypeOK,
         TaskShowsStatus, StepIdsFit, TaskIdsFit, Run
  PROVE  /\ TaskShowsStatus' /\ StepIdsFit' /\ TaskIdsFit'
         /\ TaskStep
         /\ incident.status \in {"INGESTED", "DIAGNOSING"}
<1>0. /\ steps \in Seq(Step) /\ Len(steps) \in Nat /\ orch.ids \in Nat
      /\ ~StoreFaults
  BY OrchestratorFields, LenProperties, ModeAssumption DEF StoreTypeOK
<1> USE DEF OrchestratorTypeOK
<1>1. ASSUME UNCHANGED steps PROVE StepIdsFit'
  BY <1>1 DEF StepIdsFit
<1>2. ASSUME NEW pc, NEW error, EndRun(pc, error) PROVE orch'.pc = pc
  BY <1>2 DEF EndRun, OrchestratorStart
<1>3. ASSUME NEW turn, StartTurn(turn)
      PROVE  orch'.pc = "model" /\ orch'.ids = orch.ids + 1
  BY <1>3 DEF StartTurn, OrchestratorStart
<1>4. ASSUME NEW pc, Goto(pc) PROVE orch'.pc = pc /\ orch'.ids = orch.ids
  BY <1>4 DEF Goto
<1>5. CASE RunInBackground
  BY <1>1, <1>4, <1>5 DEF RunInBackground, storeVars, TaskShowsStatus, TaskIdsFit,
                          TaskStep
<1>6. CASE StartRun
  <2>1. /\ orch.pc = "scheduled" /\ incident'.status = "DIAGNOSING"
        /\ orch'.pc = "model" /\ orch'.ids = orch.ids + 1 /\ UNCHANGED steps
    BY <1>3, <1>6 DEF StartRun, SetStatus, UpdateIncident
  <2> QED
    BY <1>0, <1>1, <2>1 DEF TaskShowsStatus, TaskIdsFit, TaskStep
<1>7. CASE ModelTurn
  <2>1. /\ orch.pc = "model" /\ UNCHANGED incident
        /\ \E status : AppendStep(orch.ids, "MODEL_TURN", status)
    BY <1>7 DEF ModelTurn, ModelRetry, ModelTimesOut, ModelFails, ModelConcludes,
                ModelCallsTools
  <2>2. Len(steps') = Len(steps) + 1 /\ StepIdsFit'
    BY <1>0, <2>1, FittingEntry DEF TaskIdsFit
  <2>3. \/ orch'.pc \in {"model", "call"} /\ orch'.ids = orch.ids
        \/ orch'.pc \in {"ensure", "failing"}
    <3>1. CASE ModelTimesOut \/ ModelFails
      BY <1>2, <3>1 DEF ModelTimesOut, ModelFails, FailWith
    <3>2. CASE ModelConcludes
      BY <1>4, <3>2 DEF ModelConcludes
    <3>3. CASE ModelRetry \/ ModelCallsTools
      BY <2>1, <3>3 DEF ModelRetry, ModelCallsTools
    <3> QED
      BY <1>7, <3>1, <3>2, <3>3 DEF ModelTurn
  <2> QED
    BY <1>0, <2>1, <2>2, <2>3 DEF TaskShowsStatus, TaskIdsFit, TaskStep
<1>8. CASE BeginCall
  <2>1. /\ orch.pc = "call" /\ orch'.pc = "tool" /\ orch'.ids = orch.ids + 2
        /\ UNCHANGED incident
    BY <1>8 DEF BeginCall
  <2>2. Len(steps') = Len(steps) + 1 /\ StepIdsFit'
    <3>1. orch.ids + 1 \in Nat /\ orch.ids + 1 <= Len(steps) + 1
      BY <1>0, <2>1 DEF TaskIdsFit
    <3> QED
      BY <1>0, <1>8, <3>1, FittingEntry DEF BeginCall
  <2> QED
    BY <1>0, <2>1, <2>2 DEF TaskShowsStatus, TaskIdsFit, TaskStep
<1>9. CASE ToolWritesNothing \/ GenerateAndTestPatch \/ VerifyGovernancePolicy
  <2>1. ASSUME NEW status, NEW verdict, ToolReturns(status, verdict)
        PROVE  orch'.pc = "result" /\ orch'.ids = orch.ids
    BY <2>1 DEF ToolReturns
  <2>2. /\ orch.pc = "tool" /\ orch'.pc = "result" /\ orch'.ids = orch.ids
        /\ UNCHANGED <<incident, steps>>
    BY <1>9, <2>1 DEF ToolWritesNothing, GenerateAndTestPatch,
                      VerifyGovernancePolicy, storeVars
  <2> QED
    BY <1>1, <2>2 DEF TaskShowsStatus, TaskIdsFit, TaskStep
<1>10. CASE EndCall
  <2> DEFINE blocked == orch.blocked \/ orch.result.verdict = "BLOCK"
             pc == IF orch.calls = 1 THEN "turn_end" ELSE "call"
             calls == orch.calls - 1
  <2>1. orch' = [orch EXCEPT !.pc = pc, !.calls = calls, !.blocked = blocked,
                             !.result = NoResult]
    BY <1>10, Zenon DEF EndCall
  <2>2. pc \in {"turn_end", "call"}
    OBVIOUS
  <2> HIDE DEF blocked, pc, calls
  <2>3. orch'.pc = pc /\ orch'.ids = orch.ids
    BY <2>1
  <2>4. orch.pc = "result" /\ UNCHANGED incident
    BY <1>10 DEF EndCall
  <2>5. Len(steps') = Len(steps) + 1 /\ StepIdsFit'
    BY <1>0, <1>10, <2>4, FittingEntry DEF EndCall, TaskIdsFit
  <2> QED
    BY <1>0, <2>2, <2>3, <2>4, <2>5 DEF TaskShowsStatus, TaskIdsFit, TaskStep
<1>11. CASE NextTurn
  <2>1. /\ orch.pc = "turn_end" /\ UNCHANGED steps
        /\ incident'.status = incident.status
    BY <1>11 DEF NextTurn, UpdateIncident
  <2>2. \/ orch'.pc = "model" /\ orch'.ids = orch.ids + 1
        \/ orch'.pc = "exhausted"
    BY <1>3, <1>4, <1>11 DEF NextTurn
  <2> QED
    BY <1>0, <1>1, <2>1, <2>2 DEF TaskShowsStatus, TaskIdsFit, TaskStep
<1>12. CASE EnsureGovernance \/ SkipGovernance
  BY <1>1, <1>4, <1>12
  DEF EnsureGovernance, SkipGovernance, storeVars, TaskShowsStatus, TaskIdsFit, TaskStep
<1>13. CASE StopBlocked \/ ExhaustBudget \/ Finish \/ Fail
  <2>1. /\ orch.pc \in {"turn_end", "exhausted", "validate", "failing"}
        /\ UNCHANGED steps
    BY <1>13 DEF StopBlocked, ExhaustBudget, Finish, Fail
  <2>2. orch'.pc = "done"
    BY <1>2, <1>13 DEF StopBlocked, ExhaustBudget, Finish, Fail, AfterFinalUpdate
  <2>3. incident'.status \in {"AWAITING_APPROVAL", "REJECTED", "FAILED"}
    BY <1>13 DEF StopBlocked, ExhaustBudget, Finish, Fail, UpdateIncident,
                 ValidatedFinishStatus
  <2> QED
    BY <1>1, <2>1, <2>2, <2>3 DEF TaskShowsStatus, TaskIdsFit, TaskStep
<1>14. CASE Interrupted
  <2>1. /\ orch.pc \in {"model", "tool", "ensure"} /\ orch'.pc = "failing"
        /\ UNCHANGED <<incident, steps>>
    BY <1>2, <1>14 DEF Interrupted, SuspendedPCs, FailWith, storeVars
  <2> QED
    BY <1>1, <2>1 DEF TaskShowsStatus, TaskIdsFit, TaskStep
<1>15. CASE ReadBack \/ FailIsSwallowed
  BY <1>0, <1>15 DEF ReadBack, FailIsSwallowed, TaskShowsStatus
<1> QED
  BY <1>5, <1>6, <1>7, <1>8, <1>9, <1>10, <1>11, <1>12, <1>13, <1>14, <1>15
  DEF Run, ToolCall, Conclude

\* While the task runs no request has got past the status check, so the rest
\* of the invariant is untouched.
LEMMA TaskStepsLocal ==
  ASSUME Mode = "local", IndInv, LocalInv, Run, UNCHANGED executorVars
  PROVE  LocalInv' /\ [Lifecycle!Next]_<<incident.status, Len(prodRuns)>>
<1>1. /\ TaskShowsStatus' /\ StepIdsFit' /\ TaskIdsFit'
      /\ TaskStep
      /\ incident.status \in {"INGESTED", "DIAGNOSING"}
  BY TaskKeepsLocal DEF IndInv, TypeOK, LocalInv
<1>2. UNCHANGED <<req, prodRuns>>
  BY DEF executorVars
<1>3. \A r \in Requests : req[r].pc \notin AdmittedPCs /\ ~HasRun(req[r])
  BY <1>1 DEF LocalInv, Acts, HasRun, AdmittedPCs, ApprovedPCs
<1>4. prodRuns = <<>>
  BY <1>1, <1>3 DEF LocalInv, RunIsOne
<1>5. \A r \in Requests : Acts(req[r])'
  BY <1>2, <1>3 DEF Acts, HasRun, AdmittedPCs, ApprovedPCs
<1>6. RunIsOne' /\ OneAtATime'
  BY <1>2, <1>4 DEF LocalInv, RunIsOne, OneAtATime
<1>7. [Lifecycle!Next]_<<incident.status, Len(prodRuns)>>
  BY <1>1, <1>2 DEF TaskStep, Lifecycle!Next, Lifecycle!Diagnose, Lifecycle!Conclude
<1> QED
  BY <1>1, <1>5, <1>6, <1>7 DEF LocalInv

-----------------------------------------------------------------------------
(* The requests *)

\* Nothing else is under way, so a handler's step concerns its request alone.
LEMMA HandlerIsAlone ==
  ASSUME Mode = "local", ExecutorTypeOK, LocalInv, NEW r \in Requests, MayRun(r),
         NEW q \in RequestState, req' = [req EXCEPT ![r] = q],
         Acts(q)', UNCHANGED orch, TaskShowsStatus', StepIdsFit', TaskIdsFit', RunIsOne'
  PROVE  LocalInv'
<1>1. req' \in [Requests -> RequestState] /\ req'[r] = q
      /\ \A s \in Requests \ {r} : req'[s] = req[s] /\ req[s].pc \in RestingPCs
  BY DEF ExecutorTypeOK, MayRun
<1>2. OneAtATime'
  BY <1>1 DEF OneAtATime
<1>3. ASSUME NEW s \in Requests \ {r} PROVE Acts(req[s])'
  BY <1>1, <1>3 DEF Acts, HasRun, RestingPCs, AdmittedPCs, ApprovedPCs
<1>4. \A s \in Requests : Acts(req[s])'
  BY <1>1, <1>3 DEF Acts, HasRun
<1> QED
  BY <1>2, <1>4 DEF LocalInv

\* Before the SQL the handler reads, numbers its decision, or answers.
LEMMA HandlerReads ==
  ASSUME Mode = "local", IndInv, LocalInv, NEW r \in Requests, MayRun(r),
         \/ Receive(r) \/ RequireAwaitingApproval(r) \/ PickLatestPatch(r)
         \/ LoadPatch(r) \/ CheckLatestAudit(r) \/ NextStepSequence(r),
         UNCHANGED orch,
         NEW q \in RequestState, req' = [req EXCEPT ![r] = q]
  PROVE  LocalInv'
<1>0. /\ req \in [Requests -> RequestState] /\ req[r] \in RequestState
      /\ Len(steps) \in Nat /\ Acts(req[r]) /\ ExecutorTypeOK
  BY LenProperties DEF IndInv, TypeOK, ExecutorTypeOK, StoreTypeOK, LocalInv
<1>1. q = req'[r] /\ \A s \in Requests \ {r} : req'[s] = req[s] /\ req[s].pc \in RestingPCs
  BY <1>0 DEF MayRun
<1>2. /\ UNCHANGED <<storeVars, prodRuns>>
      /\ req[r].pc \in {"idle", "check", "pick", "load", "audit", "number"}
  BY DEF Receive, ReceiveExecute, ReceiveReject, RequireAwaitingApproval,
         PickLatestPatch, LoadPatch, CheckLatestAudit, NextStepSequence
<1>3. UNCHANGED <<incident, steps, prodRuns>>
  BY <1>2 DEF storeVars
<1>4. ~HasRun(req[r])
  BY <1>2 DEF HasRun
<1>5. ASSUME incident.status = "AWAITING_APPROVAL" PROVE prodRuns = <<>>
  <2>1. \A s \in Requests : ~HasRun(req[s])
    BY <1>1, <1>4 DEF HasRun, RestingPCs
  <2> QED
    BY <1>5, <2>1 DEF LocalInv, RunIsOne
<1>6. ASSUME NEW pc, GoOn(r, pc) PROVE q.pc = pc
  BY <1>0, <1>1, <1>6 DEF GoOn, RequestState
<1>7. ASSUME NEW answer, Answer(r, answer) PROVE q.pc = "done"
  <2>1. q = [NotReceived EXCEPT !.pc = "done", !.answer = answer,
                                !.named = req[r].named]
    BY <1>0, <1>1, <1>7, Zenon DEF Answer, EndRequest
  <2> QED
    BY <2>1 DEF NotReceived
<1>8. \/ q.pc \in {"check", "done"}
      \/ /\ incident.status = "AWAITING_APPROVAL"
         /\ q.pc \in {"number", "load", "pick", "audit"}
      \/ /\ incident.status = "AWAITING_APPROVAL"
         /\ q.pc = "decide" /\ q.step = Len(steps) + 1
  <2>1. CASE ReceiveExecute(r)
    <3>1. PICK p : req' = [req EXCEPT ![r].pc = "check", ![r].kind = "execute",
                                      ![r].named = (p # NoPatchId), ![r].patch = p]
      BY <2>1, Zenon DEF ReceiveExecute
    <3> DEFINE named == p # NoPatchId
    <3>2. q = [req[r] EXCEPT !.pc = "check", !.kind = "execute",
                             !.named = named, !.patch = p]
      BY <1>0, <1>1, <3>1, Zenon
    <3> HIDE DEF named
    <3> QED
      BY <1>0, <3>2 DEF RequestState
  <2>2. CASE ReceiveReject(r)
    BY <1>0, <1>1, <2>2 DEF ReceiveReject, RequestState
  <2>3. CASE RequireAwaitingApproval(r)
    BY <1>6, <1>7, <2>3 DEF RequireAwaitingApproval
  <2>4. CASE PickLatestPatch(r)
    <3>1. incident.status = "AWAITING_APPROVAL"
      BY <1>0, <2>4 DEF PickLatestPatch, Acts, AdmittedPCs
    <3>2. CASE IsPatch(LatestPatch)
      BY <1>0, <1>1, <2>4, <3>1, <3>2 DEF PickLatestPatch, RequestState
    <3>3. CASE ~IsPatch(LatestPatch)
      BY <1>7, <2>4, <3>3 DEF PickLatestPatch
    <3> QED
      BY <3>2, <3>3
  <2>5. CASE LoadPatch(r) \/ CheckLatestAudit(r)
    <3>1. incident.status = "AWAITING_APPROVAL"
      BY <1>0, <2>5 DEF LoadPatch, CheckLatestAudit, Acts, AdmittedPCs
    <3> QED
      BY <1>6, <1>7, <2>5, <3>1 DEF LoadPatch, CheckLatestAudit
  <2>6. CASE NextStepSequence(r)
    <3>1. incident.status = "AWAITING_APPROVAL"
      BY <1>0, <2>6 DEF NextStepSequence, Acts, AdmittedPCs, ApprovedPCs
    <3>2. q = [req[r] EXCEPT !.pc = "decide", !.step = Len(steps) + 1]
      BY <1>0, <1>1, <2>6 DEF NextStepSequence
    <3> QED
      BY <1>0, <3>1, <3>2 DEF RequestState
  <2> QED
    BY <2>1, <2>2, <2>3, <2>4, <2>5, <2>6 DEF Receive
<1>9. ~HasRun(q) /\ q.pc \notin {"run", "log", "settle"}
  BY <1>8 DEF HasRun
<1>10. Acts(q)'
  BY <1>3, <1>5, <1>8, <1>9 DEF Acts, HasRun, AdmittedPCs, ApprovedPCs
<1>11. TaskShowsStatus' /\ StepIdsFit' /\ TaskIdsFit'
  BY <1>3 DEF LocalInv, TaskShowsStatus, StepIdsFit, TaskIdsFit
<1>12. RunIsOne'
  <2>1. \A s \in Requests : HasRun(req[s]) => HasRun(req[s])'
    BY <1>1, <1>4 DEF HasRun
  <2>2. \A d : Reported(d) => Reported(d)'
    BY <1>3 DEF Reported, Decided
  <2> QED
    BY <1>3, <2>1, <2>2 DEF LocalInv, RunIsOne
<1> QED
  BY <1>0, <1>10, <1>11, <1>12, HandlerIsAlone

\* Past its checks the handler logs the decision, runs the SQL once, and logs
\* that next to the decision.
LEMMA HandlerWrites ==
  ASSUME Mode = "local", IndInv, LocalInv, NEW r \in Requests, MayRun(r),
         LogDecision(r) \/ RunProductionSql(r) \/ LogExecution(r),
         UNCHANGED orch,
         NEW q \in RequestState, req' = [req EXCEPT ![r] = q]
  PROVE  /\ LocalInv' /\ UNCHANGED incident
         /\ incident.status = "AWAITING_APPROVAL"
         /\ \/ UNCHANGED prodRuns
            \/ Len(prodRuns) = 0 /\ Len(prodRuns') = 1
<1>0. /\ req \in [Requests -> RequestState] /\ req[r] \in RequestState
      /\ steps \in Seq(Step) /\ Len(steps) \in Nat
      /\ Acts(req[r]) /\ ExecutorTypeOK /\ orch.pc \in WorkingPCs \cup EndPCs
  BY LenProperties, OrchestratorFields
  DEF IndInv, TypeOK, ExecutorTypeOK, StoreTypeOK, LocalInv
<1>1. /\ q = req'[r]
      /\ req[r].pc \in {"run", "log"} => req[r].kind = "execute"
  BY <1>0 DEF IndInv, AdmittedAreGoverned
<1>2. incident.status = "AWAITING_APPROVAL" /\ UNCHANGED incident
      /\ orch.pc = "done"
  <2>1. req[r].pc \in AdmittedPCs /\ UNCHANGED incident
    BY DEF LogDecision, RunProductionSql, LogExecution, storeVars, AdmittedPCs,
           ApprovedPCs
  <2>2. incident.status = "AWAITING_APPROVAL"
    BY <1>0, <2>1 DEF Acts
  <2> QED
    BY <1>0, <2>1, <2>2 DEF LocalInv, TaskShowsStatus
<1>3. TaskShowsStatus' /\ TaskIdsFit'
  BY <1>2 DEF TaskShowsStatus, TaskIdsFit
<1>4. CASE LogDecision(r)
  <2>1. req[r].pc = "decide" /\ req[r].step = Len(steps) + 1 /\ prodRuns = <<>>
        /\ UNCHANGED prodRuns
    BY <1>0, <1>4 DEF LogDecision, Acts, HasRun, AdmittedPCs, ApprovedPCs
  <2>2. /\ q.step = req[r].step
        /\ q.pc = "run" \/ (q.pc = "settle" /\ q.kind # "execute")
    BY <1>0, <1>1, <1>4 DEF LogDecision, GoOn, RequestState
  <2>3. AppendStep(Len(steps) + 1, "USER_DECISION", "OK")
    BY <1>4, <2>1 DEF LogDecision
  <2>4. /\ Len(steps') = Len(steps) + 1 /\ StepIdsFit'
        /\ \A i \in 1..Len(steps) : steps'[i] = steps[i]
        /\ steps'[Len(steps) + 1].step_id = Len(steps) + 1
        /\ steps'[Len(steps) + 1].kind = "USER_DECISION"
    BY <1>0, <2>3, FittingEntry, LocalAppend DEF LocalInv
  <2>5. Decided(Len(steps))'
    <3>1. \A j \in 1..Len(steps) : steps'[j].step_id # Len(steps) + 1
      <4>1. ASSUME NEW j \in 1..Len(steps) PROVE steps[j].step_id \in Nat
        <5>1. steps[j] \in Step
          BY <1>0, <4>1, ElementOfSeq
        <5> QED
          BY <5>1 DEF Step
      <4>2. \A j \in 1..Len(steps) : steps[j].step_id <= Len(steps)
        BY DEF LocalInv, StepIdsFit
      <4>3. ASSUME NEW j \in 1..Len(steps) PROVE steps'[j].step_id # Len(steps) + 1
        <5>1. steps'[j].step_id = steps[j].step_id
          BY <2>4, <4>3
        <5> QED
          BY <1>0, <4>1, <4>2, <4>3, <5>1
      <4> QED
        BY <4>3
    <3> QED
      BY <1>0, <2>4, <3>1 DEF Decided
  <2>6. Acts(q)'
    BY <1>2, <2>1, <2>2, <2>4, <2>5 DEF Acts, HasRun
  <2>7. RunIsOne'
    BY <2>1 DEF RunIsOne
  <2> QED
    BY <1>0, <1>2, <1>3, <2>1, <2>4, <2>6, <2>7, HandlerIsAlone
<1>5. CASE RunProductionSql(r)
  <2>1. /\ req[r].pc = "run" /\ req[r].kind = "execute" /\ prodRuns = <<>>
        /\ req[r].step = Len(steps) /\ Decided(Len(steps)) /\ UNCHANGED steps
    BY <1>0, <1>1, <1>5
    DEF RunProductionSql, Acts, HasRun, AdmittedPCs, ApprovedPCs, storeVars
  <2>2. /\ prodRuns' = Append(prodRuns, req[r].patch)
        /\ req' = [req EXCEPT ![r].pc = "log", ![r].succeeded = TRUE]
    <3>1. PICK effect \in BOOLEAN, succeeded \in BOOLEAN :
            /\ succeeded => effect
            /\ Mode = "local" => succeeded
            /\ prodRuns' = IF effect THEN Append(prodRuns, req[r].patch) ELSE prodRuns
            /\ req' = [req EXCEPT ![r].pc = "log", ![r].succeeded = succeeded]
      BY <1>5, Zenon DEF RunProductionSql
    <3>2. effect = TRUE /\ succeeded = TRUE
      BY <3>1, Zenon
    <3> QED
      BY <3>1, <3>2, Zenon
  <2>3. q.pc = "log" /\ q.kind = "execute" /\ q.step = Len(steps) /\ q.succeeded
    <3>1. q = [req[r] EXCEPT !.pc = "log", !.succeeded = TRUE]
      BY <1>0, <1>1, <2>2, Zenon
    <3> QED
      BY <1>0, <2>1, <3>1 DEF RequestState
  <2>4. prodRuns' = <<req[r].patch>> /\ Len(prodRuns) = 0 /\ Len(prodRuns') = 1
        /\ prodRuns' # <<>>
    BY <2>1, <2>2
  <2>5. Acts(q)'
    BY <1>2, <2>1, <2>3, <2>4 DEF Acts, HasRun, Decided
  <2>6. RunIsOne'
    BY <1>1, <2>3, <2>4 DEF RunIsOne, HasRun
  <2>7. StepIdsFit'
    BY <2>1 DEF LocalInv, StepIdsFit
  <2> QED
    BY <1>0, <1>2, <1>3, <2>4, <2>5, <2>6, <2>7, HandlerIsAlone
<1>6. CASE LogExecution(r)
  <2>1. /\ req[r].pc = "log" /\ req[r].kind = "execute" /\ prodRuns # <<>>
        /\ req[r].succeeded /\ UNCHANGED prodRuns
        /\ req[r].step = Len(steps) /\ Decided(Len(steps))
    BY <1>0, <1>1, <1>6 DEF LogExecution, Acts, HasRun, AdmittedPCs, ApprovedPCs
  <2>2. q.pc = "settle" /\ q.kind = "execute" /\ q.succeeded
    BY <1>0, <1>1, <1>6, <2>1 DEF LogExecution, GoOn, RequestState
  <2>3. AppendStep(Len(steps) + 1, "EXECUTION", "OK")
    BY <1>6, <2>1 DEF LogExecution
  <2>4. /\ Len(steps') = Len(steps) + 1 /\ StepIdsFit'
        /\ \A i \in 1..Len(steps) : steps'[i] = steps[i]
        /\ steps'[Len(steps) + 1].step_id = Len(steps) + 1
        /\ steps'[Len(steps) + 1].kind = "EXECUTION"
    BY <1>0, <2>3, FittingEntry, LocalAppend DEF LocalInv
  <2>5. Reported(Len(steps) - 1)'
    <3>1. Len(steps') - 1 = Len(steps) /\ Len(steps) \in 1..Len(steps)
      BY <1>0, <2>1, <2>4 DEF Decided
    <3>2. /\ Len(steps) \in 1..Len(steps')
          /\ steps'[Len(steps)].kind = "USER_DECISION"
          /\ steps'[Len(steps)].step_id = Len(steps)
          /\ \A j \in 1..Len(steps') : steps'[j].step_id = Len(steps) => j = Len(steps)
      <4>1. Len(steps) \in 1..Len(steps') /\ steps'[Len(steps)] = steps[Len(steps)]
        BY <1>0, <2>4, <3>1
      <4>2. /\ steps[Len(steps)].kind = "USER_DECISION"
            /\ steps[Len(steps)].step_id = Len(steps)
            /\ \A j \in 1..Len(steps) : steps[j].step_id = Len(steps) => j = Len(steps)
        BY <2>1 DEF Decided
      <4>3. ASSUME NEW j \in 1..Len(steps'), steps'[j].step_id = Len(steps)
            PROVE  j = Len(steps)
        <5>1. CASE j = Len(steps) + 1
          BY <1>0, <2>4, <4>3, <5>1
        <5>2. CASE j \in 1..Len(steps)
          BY <2>4, <4>2, <4>3, <5>2
        <5> QED
          BY <1>0, <2>4, <4>3, <5>1, <5>2
      <4> QED
        BY <4>1, <4>2, <4>3
    <3>3. /\ (Len(steps') - 1) + 1 = Len(steps) + 1
          /\ Len(steps) + 1 \in 1..Len(steps')
      BY <1>0, <2>4
    <3> DEFINE d == Len(steps)
    <3>4. Len(steps') - 1 = d
      BY <3>1
    <3>5. /\ d \in 1..Len(steps') /\ d + 1 \in 1..Len(steps')
          /\ steps'[d].kind = "USER_DECISION" /\ steps'[d].step_id = d
          /\ \A j \in 1..Len(steps') : steps'[j].step_id = d => j = d
          /\ steps'[d + 1].kind = "EXECUTION" /\ steps'[d + 1].step_id = d + 1
      BY <2>4, <3>2, <3>3
    <3> HIDE DEF d
    <3> QED
      BY <3>4, <3>5 DEF Reported, Decided
  <2>6. Acts(q)'
    BY <1>2, <2>1, <2>2, <2>5 DEF Acts, HasRun
  <2>7. RunIsOne'
    BY <1>1, <2>1, <2>2 DEF LocalInv, RunIsOne, HasRun
  <2> QED
    BY <1>0, <1>2, <1>3, <2>1, <2>4, <2>6, <2>7, HandlerIsAlone
<1> QED
  BY <1>4, <1>5, <1>6

\* The handler's last write says what it did.
LEMMA HandlerSettles ==
  ASSUME Mode = "local", IndInv, LocalInv, NEW r \in Requests, MayRun(r),
         Settle(r), UNCHANGED orch,
         NEW q \in RequestState, req' = [req EXCEPT ![r] = q]
  PROVE  /\ LocalInv' /\ UNCHANGED prodRuns
         /\ incident.status = "AWAITING_APPROVAL"
         /\ \/ Len(prodRuns) = 0 /\ incident'.status = "REJECTED"
            \/ Len(prodRuns) = 1 /\ incident'.status = "RESOLVED"
<1>0. /\ req \in [Requests -> RequestState] /\ req[r] \in RequestState
      /\ Acts(req[r]) /\ ExecutorTypeOK /\ orch.pc \in WorkingPCs \cup EndPCs
      /\ prodRuns \in Seq(Nat \ {0}) /\ ~StoreFaults
  BY OrchestratorFields, ModeAssumption
  DEF IndInv, TypeOK, ExecutorTypeOK, LocalInv
<1>1. /\ req[r].pc = "settle" /\ UNCHANGED <<steps, prodRuns>>
      /\ incident.status = "AWAITING_APPROVAL" /\ orch.pc = "done"
  <2>1. req[r].pc = "settle" /\ UNCHANGED <<steps, prodRuns>>
    BY DEF Settle
  <2>2. incident.status = "AWAITING_APPROVAL"
    BY <1>0, <2>1 DEF Acts, AdmittedPCs, ApprovedPCs
  <2> QED
    BY <1>0, <2>1, <2>2 DEF LocalInv, TaskShowsStatus
<1>2. q.pc = "done"
  <2>1. PICK answer : Answer(r, answer)
    BY <1>0 DEF Settle
  <2>2. q = [NotReceived EXCEPT !.pc = "done", !.answer = answer,
                                !.named = req[r].named]
    BY <1>0, <2>1, Zenon DEF Answer, EndRequest
  <2> QED
    BY <2>2 DEF NotReceived
<1>3. ASSUME req[r].kind = "reject"
      PROVE  RunIsOne' /\ Len(prodRuns) = 0 /\ incident'.status = "REJECTED"
  <2>1. incident'.status = "REJECTED"
    BY <1>3 DEF Settle, SettledStatus, UpdateIncident
  <2>2. prodRuns = <<>> /\ Len(prodRuns) = 0
    BY <1>0, <1>1, <1>3 DEF Acts, HasRun, AdmittedPCs, ApprovedPCs
  <2>3. RunIsOne'
    BY <1>1, <2>2 DEF RunIsOne
  <2> QED
    BY <2>1, <2>2, <2>3
<1>4. ASSUME req[r].kind = "execute"
      PROVE  RunIsOne' /\ Len(prodRuns) = 1 /\ incident'.status = "RESOLVED"
  <2>1. HasRun(req[r]) /\ req[r].succeeded /\ prodRuns # <<>>
        /\ Reported(Len(steps) - 1)
    BY <1>0, <1>1, <1>4 DEF Acts, HasRun, AdmittedPCs, ApprovedPCs
  <2>2. incident'.status = "RESOLVED"
    BY <1>4, <2>1 DEF Settle, SettledStatus, UpdateIncident
  <2>3. Len(prodRuns) = 1
    <3> DEFINE n == Len(prodRuns)
    <3>1. n \in Nat /\ n # 0
      BY <1>0, <2>1, EmptySeq, LenProperties
    <3>2. n <= 1
      BY DEF LocalInv, RunIsOne
    <3> HIDE DEF n
    <3>3. n = 1
      BY <3>1, <3>2
    <3> QED
      BY <3>3 DEF n
  <2>4. RunIsOne'
    <3>1. Len(steps) - 1 \in 1..Len(steps) /\ Reported(Len(steps) - 1)'
      BY <1>1, <2>1 DEF Reported, Decided
    <3>2. \E d \in 1..Len(steps') : Reported(d)'
      BY <1>1, <3>1 DEF Reported, Decided
    <3> QED
      BY <1>1, <2>2, <2>3, <3>2 DEF RunIsOne
  <2> QED
    BY <2>2, <2>3, <2>4
<1>5. RunIsOne' /\ (\/ Len(prodRuns) = 0 /\ incident'.status = "REJECTED"
                    \/ Len(prodRuns) = 1 /\ incident'.status = "RESOLVED")
  BY <1>0, <1>3, <1>4 DEF RequestState
<1>6. Acts(q)'
  BY <1>2 DEF Acts, HasRun, AdmittedPCs, ApprovedPCs
<1>7. TaskShowsStatus' /\ StepIdsFit' /\ TaskIdsFit'
  BY <1>1 DEF LocalInv, TaskShowsStatus, StepIdsFit, TaskIdsFit
<1> QED
  BY <1>0, <1>1, <1>5, <1>6, <1>7, HandlerIsAlone

-----------------------------------------------------------------------------
(* The system *)

\* A request's step keeps the invariant and is a step of the lifecycle.
LEMMA RequestStepsLocal ==
  ASSUME Mode = "local", IndInv, LocalInv, NEW r \in Requests, MayRun(r),
         Serve(r) \/ Receive(r), UNCHANGED orch
  PROVE  LocalInv' /\ [Lifecycle!Next]_<<incident.status, Len(prodRuns)>>
<1>1. PICK q \in RequestState : req' = [req EXCEPT ![r] = q]
  BY RequestEffect
<1>2. CASE \/ Receive(r) \/ RequireAwaitingApproval(r) \/ PickLatestPatch(r)
           \/ LoadPatch(r) \/ CheckLatestAudit(r) \/ NextStepSequence(r)
  <2>1. LocalInv'
    BY <1>1, <1>2, HandlerReads
  <2>2. UNCHANGED <<storeVars, prodRuns>>
    BY <1>2 DEF Receive, ReceiveExecute, ReceiveReject, RequireAwaitingApproval,
                PickLatestPatch, LoadPatch, CheckLatestAudit, NextStepSequence
  <2>3. UNCHANGED <<incident.status, Len(prodRuns)>>
    BY <2>2 DEF storeVars
  <2> QED
    BY <2>1, <2>3
<1>3. CASE LogDecision(r) \/ RunProductionSql(r) \/ LogExecution(r)
  <2>1. /\ LocalInv' /\ UNCHANGED incident
        /\ incident.status = "AWAITING_APPROVAL"
        /\ \/ UNCHANGED prodRuns
           \/ Len(prodRuns) = 0 /\ Len(prodRuns') = 1
    BY <1>1, <1>3, HandlerWrites
  <2> QED
    BY <2>1 DEF Lifecycle!Next, Lifecycle!WriteProduction
<1>4. CASE Settle(r)
  <2>1. /\ LocalInv' /\ UNCHANGED prodRuns
        /\ incident.status = "AWAITING_APPROVAL"
        /\ \/ Len(prodRuns) = 0 /\ incident'.status = "REJECTED"
           \/ Len(prodRuns) = 1 /\ incident'.status = "RESOLVED"
    BY <1>1, <1>4, HandlerSettles
  <2> QED
    BY <2>1 DEF Lifecycle!Next, Lifecycle!Decline, Lifecycle!Report
<1>5. ~StoreRaises(r)
  BY ModeAssumption DEF StoreRaises
<1> QED
  BY <1>2, <1>3, <1>4, <1>5 DEF Serve

\* So does every step of the system: in local mode nothing crashes.
LEMMA NextLocal ==
  ASSUME Mode = "local", IndInv, LocalInv, [Next]_vars
  PROVE  LocalInv' /\ [Lifecycle!Next]_<<incident.status, Len(prodRuns)>>
<1>1. CASE Orchestrate
  BY <1>1, TaskStepsLocal DEF Orchestrate
<1>2. ASSUME NEW r \in Requests, Decide(r) \/ Request(r)
      PROVE  LocalInv' /\ [Lifecycle!Next]_<<incident.status, Len(prodRuns)>>
  BY <1>2, RequestStepsLocal DEF Decide, Request
<1>3. ~Crash
  BY ModeAssumption DEF Crash, TaskLost, RequestLost
<1>4. CASE UNCHANGED vars
  <2>1. UNCHANGED <<incident, steps, prodRuns, req, orch>>
    BY <1>4 DEF vars, storeVars, executorVars
  <2>2. TaskShowsStatus' /\ StepIdsFit' /\ TaskIdsFit' /\ OneAtATime'
    BY <2>1 DEF LocalInv, TaskShowsStatus, StepIdsFit, TaskIdsFit, OneAtATime
  <2>3. \A d : Reported(d)' <=> Reported(d)
    BY <2>1 DEF Reported, Decided
  <2>4. (\A r \in Requests : Acts(req[r])')
    BY <2>1 DEF LocalInv, Acts, HasRun, Reported, Decided
  <2>5. RunIsOne'
    BY <2>1, <2>3 DEF LocalInv, RunIsOne, HasRun
  <2>6. UNCHANGED <<incident.status, Len(prodRuns)>>
    BY <2>1
  <2> QED
    BY <2>2, <2>4, <2>5, <2>6 DEF LocalInv
<1> QED
  BY <1>1, <1>2, <1>3, <1>4 DEF Next, Settled

\* An incident that was just created satisfies both.
LEMMA InitLocal == Mode = "local" /\ Init => LocalInv /\ Lifecycle!Init
<1> SUFFICES ASSUME Mode = "local", Init PROVE LocalInv /\ Lifecycle!Init
  OBVIOUS
<1>1. /\ incident.status = "INGESTED" /\ steps = <<>> /\ prodRuns = <<>>
      /\ orch.pc = "created" /\ orch.ids = 0
      /\ req = [r \in Requests |-> NotReceived]
  BY DEF Init, StoreInit, OrchestratorInit, OrchestratorStart, ExecutorInit
<1>2. Len(steps) = 0 /\ Len(prodRuns) = 0
  BY <1>1
<1>3. \A r \in Requests : req[r].pc = "idle"
  BY <1>1 DEF NotReceived
<1>4. TaskShowsStatus /\ StepIdsFit /\ TaskIdsFit /\ OneAtATime
  BY <1>1, <1>2, <1>3
  DEF TaskShowsStatus, StepIdsFit, TaskIdsFit, OneAtATime, RestingPCs
<1>5. \A r \in Requests : Acts(req[r])
  BY <1>3 DEF Acts, HasRun, AdmittedPCs, ApprovedPCs
<1>6. RunIsOne
  BY <1>1, <1>2 DEF RunIsOne
<1> QED
  BY <1>1, <1>2, <1>4, <1>5, <1>6 DEF LocalInv, Lifecycle!Init

\* LocalInv holds in every state of the local mode.
LEMMA LocalInvHolds == Spec => [](Mode = "local" => LocalInv)
<1>1. Init => (Mode = "local" => LocalInv)
  BY InitLocal
<1>2. IndInv /\ (Mode = "local" => LocalInv) /\ [Next]_vars
        => (Mode = "local" => LocalInv)'
  BY NextLocal
<1> QED
  BY <1>1, <1>2, IndInvHolds, PTL DEF Spec

\* In local mode an incident is diagnosed once, asked about once, and written
\* to production for at most once, while its approval is being carried out;
\* a terminal status is final (run, execute_incident, reject_incident).
THEOREM LifecycleIsKept ==
  ASSUME Mode = "local"
  PROVE  Spec => KeepsLifecycle
<1>1. Init => LocalInv /\ Lifecycle!Init
  BY InitLocal
<1>2. IndInv /\ LocalInv /\ [Next]_vars
        => LocalInv' /\ [Lifecycle!Next]_<<incident.status, Len(prodRuns)>>
  BY NextLocal
<1> QED
  BY <1>1, <1>2, IndInvHolds, PTL DEF Spec, KeepsLifecycle, Lifecycle!Spec

\* The trail of a local incident shows the decision behind a production run,
\* under a number no other entry has, and next to it, once the incident is
\* resolved, its execution (append_step in execute_incident).
THEOREM TrailTellsRuns == Spec => []LocalTrailTellsRuns
<1>1. IndInv /\ (Mode = "local" => LocalInv) => LocalTrailTellsRuns
  <2> SUFFICES ASSUME IndInv, LocalInv, NEW i \in 1..Len(prodRuns)
               PROVE  \E d \in StepsOf("USER_DECISION") :
                        /\ \A j \in 1..Len(steps) :
                             steps[j].step_id = steps[d].step_id => j = d
                        /\ incident.status = "RESOLVED" =>
                             \E e \in StepsOf("EXECUTION") :
                               steps[e].step_id = steps[d].step_id + 1
    BY DEF LocalTrailTellsRuns
  <2>1. ASSUME NEW d, Decided(d)
        PROVE  /\ d \in StepsOf("USER_DECISION") /\ steps[d].step_id = d
               /\ \A j \in 1..Len(steps) :
                    steps[j].step_id = steps[d].step_id => j = d
    BY <2>1 DEF Decided, StepsOf
  <2>2. prodRuns # <<>>
    <3>1. i \in 1..Len(prodRuns)
      OBVIOUS
    <3> QED
      BY <3>1
  <2>3. CASE \E d \in 1..Len(steps) : Reported(d)
    <3>1. PICK d \in 1..Len(steps) : Reported(d)
      BY <2>3
    <3>2. Decided(d)
      BY <3>1 DEF Reported
    <3>3. d + 1 \in StepsOf("EXECUTION") /\ steps[d + 1].step_id = d + 1
      BY <3>1 DEF Reported, StepsOf
    <3> QED
      BY <2>1, <3>2, <3>3
  <2>4. CASE \E r \in Requests : HasRun(req[r])
    <3>1. PICK r \in Requests : HasRun(req[r])
      BY <2>4
    <3>2. Acts(req[r])
      BY DEF LocalInv
    <3>3. incident.status = "AWAITING_APPROVAL"
      BY <3>1, <3>2 DEF Acts, HasRun, AdmittedPCs, ApprovedPCs
    <3>4. \E d : Decided(d)
      BY <3>1, <3>2 DEF Acts, HasRun, Reported
    <3> QED
      BY <2>1, <3>3, <3>4
  <2> QED
    BY <2>2, <2>3, <2>4 DEF LocalInv, RunIsOne
<1> QED
  BY <1>1, IndInvHolds, LocalInvHolds, PTL
=============================================================================
