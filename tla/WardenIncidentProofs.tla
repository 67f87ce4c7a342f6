------------------------ MODULE WardenIncidentProofs ------------------------
(***************************************************************************)
(* IndInv is an inductive invariant of WardenIncident, for every set of    *)
(* requests, every bound of the loop and both modes; what it implies is    *)
(* the type invariant and the promises about approval and execution.       *)
(***************************************************************************)
EXTENDS WardenIncident, SequenceTheorems, TLAPS

USE DEF Answers, EndPCs, WorkingPCs, RestingPCs, ApprovedPCs, AdmittedPCs,
        NoVerdict, NoPatchId

-----------------------------------------------------------------------------
(* The operators *)

\* A verdict is always one of the three (_verdict_from_checks).
LEMMA VerdictType ==
  ASSUME NEW sql, NEW metadata
  PROVE  Verdict(sql, metadata) \in GovernanceVerdict
BY DEF Verdict, VerdictFromChecks, GovernanceVerdict

\* append_step keeps the trail a sequence of steps, whether it replaces a
\* document or adds one.
LEMMA AppendStepType ==
  ASSUME steps \in Seq(Step),
         NEW id \in Nat \ {0}, NEW kind \in StepKind, NEW status \in StepStatus,
         AppendStep(id, kind, status)
  PROVE  steps' \in Seq(Step)
<1> DEFINE step == [step_id |-> id, kind |-> kind, status |-> status]
           replaced == [i \in DOMAIN steps |->
                          IF steps[i].step_id = id THEN step ELSE steps[i]]
<1>1. step \in Step
  BY DEF Step
<1>2. replaced \in Seq(Step)
  <2>1. DOMAIN steps = 1..Len(steps) /\ Len(steps) \in Nat
    BY LenProperties
  <2>2. \A i \in 1..Len(steps) : replaced[i] \in Step
    BY <1>1, <2>1, ElementOfSeq
  <2> QED
    BY <2>1, <2>2, IsASeq
<1>3. Append(steps, step) \in Seq(Step)
  BY <1>1, AppendProperties
<1>4. steps' = replaced \/ steps' = Append(steps, step)
  BY DEF AppendStep
<1> QED
  BY <1>2, <1>3, <1>4

\* Whether a patch is governed depends on the patches and audits only.
LEMMA GovernedUnchanged ==
  ASSUME UNCHANGED <<patches, audits>>, NEW p
  PROVE  Governed(p)' <=> Governed(p)
BY DEF Governed, IsPatch, AuditsOf, LatestVerdictIs

-----------------------------------------------------------------------------
(* The orchestrator's record *)

\* The fields of the task's state have the types the invariant gives them.
LEMMA OrchestratorFields ==
  ASSUME OrchestratorTypeOK
  PROVE  /\ orch.pc \in WorkingPCs \cup EndPCs
         /\ orch.turn \in Nat /\ orch.attempt \in Nat
         /\ orch.ids \in Nat /\ orch.calls \in Nat
         /\ orch.blocked \in BOOLEAN
         /\ orch.result.status \in StepStatus
         /\ orch.error \in Errors
BY DEF OrchestratorTypeOK, ToolResult

\* What a task starts from, and falls back to, is a state of the task.
LEMMA OrchestratorStartType ==
  OrchestratorStart \in [pc : WorkingPCs \cup EndPCs, turn : Nat, attempt : Nat,
                        ids : Nat, calls : Nat, blocked : BOOLEAN,
                        result : ToolResult, error : Errors]
BY DEF OrchestratorStart, NoResult, ToolResult, StepStatus, Errors

\* Suspending the task elsewhere keeps the type of its state.
LEMMA GotoType ==
  ASSUME OrchestratorTypeOK, NEW pc \in WorkingPCs \cup EndPCs, Goto(pc)
  PROVE  OrchestratorTypeOK'
BY DEF OrchestratorTypeOK, Goto

\* Ending the run keeps it, whatever _fail is to write.
LEMMA EndRunType ==
  ASSUME OrchestratorTypeOK, NEW pc \in WorkingPCs \cup EndPCs,
         NEW error \in Errors, EndRun(pc, error)
  PROVE  OrchestratorTypeOK'
<1>1. orch.blocked \in BOOLEAN
  BY OrchestratorFields
<1> QED
  BY <1>1, OrchestratorStartType, Zenon DEF OrchestratorTypeOK, EndRun

\* So does starting a turn, which takes one step id.
LEMMA StartTurnType ==
  ASSUME OrchestratorTypeOK, NEW turn \in Nat, StartTurn(turn)
  PROVE  OrchestratorTypeOK'
<1>1. /\ orch.ids + 1 \in Nat /\ 1 \in Nat
      /\ "model" \in WorkingPCs \cup EndPCs
  BY OrchestratorFields
<1> QED
  BY <1>1, OrchestratorStartType, Zenon DEF OrchestratorTypeOK, StartTurn

\* So does a tool that returns, with or without a verdict.
LEMMA ToolReturnsType ==
  ASSUME OrchestratorTypeOK, NEW status \in StepStatus,
         NEW verdict \in GovernanceVerdict \cup {NoVerdict},
         ToolReturns(status, verdict)
  PROVE  OrchestratorTypeOK'
<1>1. /\ "result" \in WorkingPCs \cup EndPCs
      /\ [status |-> status, verdict |-> verdict] \in ToolResult
  BY DEF ToolResult
<1> QED
  BY <1>1, Zenon DEF OrchestratorTypeOK, ToolReturns

\* So does the end of a call: the calls of a turn are counted down from one.
LEMMA EndCallType ==
  ASSUME OrchestratorTypeOK, CountersAreSet, EndCall
  PROVE  OrchestratorTypeOK'
<1> DEFINE pc == IF orch.calls = 1 THEN "turn_end" ELSE "call"
           calls == orch.calls - 1
           blocked == orch.blocked \/ orch.result.verdict = "BLOCK"
<1>1. pc \in WorkingPCs \cup EndPCs
  OBVIOUS
<1>2. calls \in Nat
  BY OrchestratorFields DEF EndCall, CountersAreSet
<1>3. blocked \in BOOLEAN
  BY Zenon
<1>4. NoResult \in ToolResult
  BY DEF NoResult, ToolResult, StepStatus
<1>5. orch' = [orch EXCEPT !.pc = pc, !.calls = calls, !.blocked = blocked,
                           !.result = NoResult]
  BY Zenon DEF EndCall
<1> HIDE DEF pc, calls, blocked
<1> QED
  BY <1>1, <1>2, <1>3, <1>4, <1>5, Zenon DEF OrchestratorTypeOK

-----------------------------------------------------------------------------
(* The initial states *)

\* An incident that was just created satisfies the invariant.
LEMMA InitIndInv == Init => IndInv
<1> SUFFICES ASSUME Init PROVE IndInv
  OBVIOUS
<1> USE DEF Init, StoreInit, OrchestratorInit, ExecutorInit, NotReceived
<1>1. TypeOK
  <2>1. StoreTypeOK
    BY EmptySeq DEF StoreTypeOK, IncidentStatus, Errors
  <2>2. OrchestratorTypeOK
    BY OrchestratorStartType DEF OrchestratorTypeOK, OrchestratorInit
  <2>3. ExecutorTypeOK
    BY EmptySeq DEF ExecutorTypeOK, RequestState, RequestPCs
  <2> QED
    BY <2>1, <2>2, <2>3 DEF TypeOK
<1>2. /\ CountersAreSet /\ UnansweredUntilDone
      /\ DecisionsFollowConclusion /\ AdmittedAreGoverned
  BY DEF CountersAreSet, UnansweredUntilDone, DecisionsFollowConclusion,
         AdmittedAreGoverned, OrchestratorStart
<1>3. AwaitingIsGoverned /\ GovernedExecution /\ BackstopIsUnreachable
  BY DEF AwaitingIsGoverned, GovernedExecution, BackstopIsUnreachable
<1> QED
  BY <1>1, <1>2, <1>3 DEF IndInv

-----------------------------------------------------------------------------
(* The orchestrator's steps *)

\* Whatever the task writes keeps the types of the store and of its own state.
LEMMA OrchestratorType ==
  ASSUME TypeOK, CountersAreSet, Run \/ TaskLost
  PROVE  StoreTypeOK' /\ OrchestratorTypeOK'
<1> USE LoopAssumption DEF StoreTypeOK, TypeOK
<1>1. CASE RunInBackground
  BY <1>1, GotoType DEF RunInBackground, storeVars
<1>2. CASE StartRun
  BY <1>2, StartTurnType
  DEF StartRun, SetStatus, UpdateIncident, IncidentStatus
<1>3. CASE ModelTurn
  <2>1. orch.ids \in Nat \ {0}
    <3>1. orch.pc = "model"
      BY <1>3 DEF ModelTurn, ModelRetry, ModelTimesOut, ModelFails,
                  ModelConcludes, ModelCallsTools
    <3> QED
      BY <3>1, OrchestratorFields DEF CountersAreSet
  <2>2. PICK status \in StepStatus : AppendStep(orch.ids, "MODEL_TURN", status)
    BY <1>3 DEF ModelTurn, ModelRetry, ModelTimesOut, ModelFails, ModelConcludes,
                ModelCallsTools, StepStatus
  <2>3. steps' \in Seq(Step)
    BY <2>1, <2>2, AppendStepType DEF StepKind
  <2>4. UNCHANGED <<incident, patches, audits>>
    BY <1>3 DEF ModelTurn, ModelRetry, ModelTimesOut, ModelFails, ModelConcludes,
                ModelCallsTools
  <2>5. OrchestratorTypeOK'
    <3>1. CASE ModelRetry
      <4>1. orch.attempt + 1 \in Nat
        BY OrchestratorFields
      <4> QED
        BY <3>1, <4>1, Zenon DEF ModelRetry, OrchestratorTypeOK
    <3>2. CASE ModelConcludes
      BY <3>2, GotoType DEF ModelConcludes
    <3>3. CASE ModelCallsTools
      <4>1. PICK n \in 1..MaxCalls :
              orch' = [orch EXCEPT !.pc = "call", !.calls = n]
        BY <3>3, Zenon DEF ModelCallsTools
      <4>2. n \in Nat /\ "call" \in WorkingPCs \cup EndPCs
        OBVIOUS
      <4> QED
        BY <4>1, <4>2, Zenon DEF OrchestratorTypeOK
    <3>4. CASE ModelTimesOut \/ ModelFails
      BY <3>4, EndRunType DEF ModelTimesOut, ModelFails, FailWith, Errors
    <3> QED
      BY <1>3, <3>1, <3>2, <3>3, <3>4 DEF ModelTurn
  <2> QED
    BY <2>3, <2>4, <2>5
<1>4. CASE BeginCall
  <2>1. steps' \in Seq(Step)
    <3>1. /\ orch.ids + 1 \in Nat \ {0}
          /\ "TOOL_CALL" \in StepKind /\ "RUNNING" \in StepStatus
      BY OrchestratorFields DEF StepKind, StepStatus
    <3>2. AppendStep(orch.ids + 1, "TOOL_CALL", "RUNNING")
      BY <1>4 DEF BeginCall
    <3> QED
      BY <3>1, <3>2, AppendStepType
  <2>2. orch.ids + 2 \in Nat /\ "tool" \in WorkingPCs \cup EndPCs
    BY OrchestratorFields
  <2>3. OrchestratorTypeOK'
    BY <1>4, <2>2, Zenon DEF BeginCall, OrchestratorTypeOK
  <2> QED
    BY <1>4, <2>1, <2>3 DEF BeginCall
<1>5. CASE ToolWritesNothing
  BY <1>5, ToolReturnsType DEF ToolWritesNothing, storeVars, StepStatus
<1>6. CASE GenerateAndTestPatch
  <2>1. PICK sql \in SqlCandidates, validation \in ValidationStatus :
          WritePatch(sql, validation)
    BY <1>6 DEF GenerateAndTestPatch, SandboxOutcomes, ValidationStatus
  <2>2. [sql |-> sql, validation_status |-> validation] \in Patch
    BY GovernanceAssumption DEF Patch
  <2>3. patches' \in Seq(Patch)
    BY <2>1, <2>2, AppendProperties DEF WritePatch
  <2>4. OrchestratorTypeOK'
    BY <1>6, ToolReturnsType DEF GenerateAndTestPatch, WriteOutcomes, StepStatus
  <2> QED
    BY <1>6, <2>3, <2>4 DEF GenerateAndTestPatch
<1>7. CASE VerifyGovernancePolicy
  <2>1. PICK p \in 1..Len(patches), dataset \in Datasets :
          /\ WriteAudit(p, AuditVerdict(p, dataset))
          /\ \E status \in WriteOutcomes :
               ToolReturns(status, IF status = "OK" THEN AuditVerdict(p, dataset)
                                                    ELSE NoVerdict)
    BY <1>7 DEF VerifyGovernancePolicy
  <2>2. AuditVerdict(p, dataset) \in GovernanceVerdict
    BY VerdictType DEF AuditVerdict
  <2>3. [linked_patch_id |-> p, verdict |-> AuditVerdict(p, dataset)] \in Audit
    BY <2>2 DEF Audit
  <2>4. audits' \in Seq(Audit)
    BY <2>1, <2>3, AppendProperties DEF WriteAudit
  <2>5. OrchestratorTypeOK'
    BY <2>1, <2>2, ToolReturnsType DEF WriteOutcomes, StepStatus
  <2> QED
    BY <1>7, <2>4, <2>5 DEF VerifyGovernancePolicy
<1>8. CASE EndCall
  <2>1. steps' \in Seq(Step)
    <3>1. /\ orch.ids \in Nat \ {0}
          /\ "TOOL_RESULT" \in StepKind /\ orch.result.status \in StepStatus
      BY <1>8, OrchestratorFields DEF EndCall, CountersAreSet, StepKind
    <3>2. AppendStep(orch.ids, "TOOL_RESULT", orch.result.status)
      BY <1>8 DEF EndCall
    <3> QED
      BY <3>1, <3>2, AppendStepType
  <2>2. OrchestratorTypeOK'
    BY <1>8, EndCallType
  <2> QED
    BY <1>8, <2>1, <2>2 DEF EndCall
<1>9. CASE StopBlocked \/ ExhaustBudget
  BY <1>9, OrchestratorFields, EndRunType DEF StopBlocked, ExhaustBudget, UpdateIncident,
     AfterFinalUpdate, IncidentStatus, Errors
<1>10. CASE NextTurn
  BY <1>10, OrchestratorFields, StartTurnType, GotoType
  DEF NextTurn, UpdateIncident
<1>11. CASE EnsureGovernance
  <2>1. AuditVerdict(LatestPatch, OwnDataset) \in GovernanceVerdict
    BY VerdictType DEF AuditVerdict
  <2>2. LatestPatch \in Nat \ {0}
    BY <1>11 DEF EnsureGovernance, NeedsGovernance, IsPatch
  <2>3. audits' \in Seq(Audit)
    BY <1>11, <2>1, <2>2, AppendProperties DEF EnsureGovernance, WriteAudit, Audit
  <2> QED
    BY <1>11, <2>3, GotoType DEF EnsureGovernance
<1>12. CASE SkipGovernance
  BY <1>12, GotoType DEF SkipGovernance, storeVars
<1>13. CASE Finish
  <2>1. ValidatedFinishStatus.status \in IncidentStatus
    BY DEF ValidatedFinishStatus, IncidentStatus
  <2>2. ValidatedFinishStatus.error \in Errors
    BY DEF ValidatedFinishStatus, Errors
  <2>3. incident' \in [status : IncidentStatus, error : Errors, turn_count : Nat]
    BY <1>13, <2>1, <2>2, OrchestratorFields DEF Finish, UpdateIncident
  <2> QED
    BY <1>13, <2>3, EndRunType DEF Finish, AfterFinalUpdate, Errors
<1>14. CASE ReadBack \/ FailIsSwallowed \/ TaskLost
  BY <1>14, EndRunType DEF ReadBack, FailIsSwallowed, TaskLost, storeVars, Errors
<1>15. CASE Interrupted
  BY <1>15, EndRunType DEF Interrupted, FailWith, storeVars, Errors
<1>16. CASE Fail
  BY <1>16, OrchestratorFields, EndRunType DEF Fail, UpdateIncident, IncidentStatus, Errors
<1> QED
  BY <1>1, <1>2, <1>3, <1>4, <1>5, <1>6, <1>7, <1>8, <1>9, <1>10, <1>11, <1>12,
     <1>13, <1>14, <1>15, <1>16 DEF Run, ToolCall, Conclude

\* The counters an orchestrator step leaves behind are set where they are used.
LEMMA OrchestratorCounters ==
  ASSUME OrchestratorTypeOK, CountersAreSet, Run \/ TaskLost, UNCHANGED executorVars
  PROVE  CountersAreSet'
<1> DEFINE Set == /\ orch.pc \in {"model", "call", "tool", "result"} => orch.ids > 0
                  /\ orch.pc \in {"call", "tool", "result"} => orch.calls > 0
<1> USE OrchestratorFields DEF CountersAreSet
<1>1. ASSUME NEW pc \in EndPCs, NEW error, EndRun(pc, error) PROVE Set'
  BY <1>1 DEF EndRun, OrchestratorStart
<1>2. ASSUME NEW pc \in {"scheduled", "ensure", "validate", "exhausted"}, Goto(pc)
      PROVE  Set'
  BY <1>2 DEF Goto, OrchestratorTypeOK
<1>3. ASSUME NEW turn, StartTurn(turn) PROVE Set'
  BY <1>3 DEF StartTurn, OrchestratorStart
<1>4. ASSUME NEW status, NEW verdict, orch.pc = "tool",
             ToolReturns(status, verdict)
      PROVE  Set'
  BY <1>4 DEF ToolReturns, OrchestratorTypeOK
<1>5. CASE RunInBackground \/ ModelConcludes \/ EnsureGovernance \/ SkipGovernance
  BY <1>2, <1>5 DEF RunInBackground, ModelConcludes, EnsureGovernance,
                    SkipGovernance, executorVars
<1>6. CASE StartRun
  BY <1>3, <1>6 DEF StartRun, executorVars
<1>7. CASE ModelRetry \/ ModelCallsTools \/ BeginCall \/ EndCall
  <2>1. CASE ModelRetry
    BY <2>1 DEF ModelRetry, OrchestratorTypeOK, executorVars
  <2>2. CASE ModelCallsTools
    BY <2>2 DEF ModelCallsTools, OrchestratorTypeOK, executorVars
  <2>3. CASE BeginCall
    BY <2>3 DEF BeginCall, OrchestratorTypeOK, executorVars
  <2>4. CASE EndCall
    <3> DEFINE pc == IF orch.calls = 1 THEN "turn_end" ELSE "call"
               calls == orch.calls - 1
               blocked == orch.blocked \/ orch.result.verdict = "BLOCK"
    <3>1. orch' = [orch EXCEPT !.pc = pc, !.calls = calls, !.blocked = blocked,
                               !.result = NoResult]
      BY <2>4, Zenon DEF EndCall
    <3> HIDE DEF blocked
    <3>2. orch'.pc = pc /\ orch'.calls = calls
      BY <3>1 DEF OrchestratorTypeOK
    <3>3. pc = "call" => calls > 0
      BY <2>4 DEF EndCall
    <3>4. pc \in {"turn_end", "call"}
      OBVIOUS
    <3>5. orch'.ids = orch.ids /\ orch.ids > 0
      BY <2>4, <3>1 DEF OrchestratorTypeOK, EndCall
    <3> HIDE DEF pc, calls
    <3>6. Set'
      BY <3>2, <3>3, <3>4, <3>5
    <3> QED
      BY <3>6 DEF executorVars
  <2> QED
    BY <1>7, <2>1, <2>2, <2>3, <2>4
<1>8. CASE ModelTimesOut \/ ModelFails \/ Interrupted
  BY <1>1, <1>8 DEF ModelTimesOut, ModelFails, Interrupted, FailWith, executorVars
<1>9. CASE ToolWritesNothing \/ GenerateAndTestPatch \/ VerifyGovernancePolicy
  BY <1>4, <1>9 DEF ToolWritesNothing, GenerateAndTestPatch,
                    VerifyGovernancePolicy, executorVars
<1>10. CASE StopBlocked \/ ExhaustBudget \/ Finish
  BY <1>1, <1>10 DEF StopBlocked, ExhaustBudget, Finish, AfterFinalUpdate,
                     executorVars
<1>11. CASE NextTurn
  BY <1>2, <1>3, <1>11 DEF NextTurn, executorVars
<1>12. CASE ReadBack \/ Fail \/ FailIsSwallowed \/ TaskLost
  BY <1>1, <1>12 DEF ReadBack, Fail, FailIsSwallowed, TaskLost, executorVars
<1> QED
  BY <1>5, <1>6, <1>7, <1>8, <1>9, <1>10, <1>11, <1>12
  DEF Run, ModelTurn, ToolCall, Conclude

\* The orchestrator never returns to its loop, writes patches and audits inside
\* it only, and makes an incident await approval by Finish alone.
LEMMA OrchestratorControl ==
  ASSUME OrchestratorTypeOK, Run \/ TaskLost
  PROVE  /\ orch'.pc \in WorkingPCs => orch.pc \in WorkingPCs
         /\ orch.pc \notin WorkingPCs => UNCHANGED <<patches, audits>>
         /\ Finish \/ incident'.status = incident.status
                   \/ incident'.status # "AWAITING_APPROVAL"
<1> USE DEF OrchestratorTypeOK
<1>1. CASE RunInBackground \/ StartRun
  BY <1>1 DEF RunInBackground, StartRun, SetStatus, UpdateIncident, storeVars
<1>2. CASE ModelTurn
  BY <1>2 DEF ModelTurn, ModelRetry, ModelTimesOut, ModelFails, ModelConcludes,
              ModelCallsTools
<1>3. CASE ToolCall
  BY <1>3 DEF ToolCall, BeginCall, ToolWritesNothing, GenerateAndTestPatch,
              VerifyGovernancePolicy, EndCall, storeVars
<1>4. CASE StopBlocked \/ NextTurn \/ ExhaustBudget
  BY <1>4 DEF StopBlocked, NextTurn, ExhaustBudget, UpdateIncident
<1>5. CASE EnsureGovernance \/ SkipGovernance \/ Finish
  BY <1>5 DEF EnsureGovernance, SkipGovernance, Finish, storeVars
<1>6. ASSUME NEW pc \in EndPCs, NEW error, EndRun(pc, error)
      PROVE  orch'.pc \notin WorkingPCs
  BY <1>6 DEF EndRun, OrchestratorStart
<1>7. CASE ReadBack \/ Interrupted \/ Fail \/ FailIsSwallowed \/ TaskLost
  BY <1>6, <1>7 DEF ReadBack, Interrupted, FailWith, Fail, FailIsSwallowed,
                    TaskLost, UpdateIncident, storeVars
<1> QED
  BY <1>1, <1>2, <1>3, <1>4, <1>5, <1>7 DEF Run, Conclude

\* A step of the task, or its loss, preserves the whole invariant.
LEMMA OrchestratorStep ==
  ASSUME IndInv, Run \/ TaskLost, UNCHANGED executorVars
  PROVE  IndInv'
<1>0. TypeOK /\ OrchestratorTypeOK
  BY DEF IndInv, TypeOK
<1>1. TypeOK'
  <2>1. StoreTypeOK' /\ OrchestratorTypeOK'
    BY <1>0, OrchestratorType DEF IndInv
  <2>2. ExecutorTypeOK'
    BY <1>0 DEF TypeOK, ExecutorTypeOK, executorVars
  <2> QED
    BY <2>1, <2>2 DEF TypeOK
<1>2. CountersAreSet'
  BY <1>0, OrchestratorCounters DEF IndInv
<1>3. UNCHANGED <<req, prodRuns>>
  BY DEF executorVars
<1>4. Finish => /\ orch.pc \in WorkingPCs /\ orch'.pc \notin WorkingPCs
                /\ UNCHANGED <<patches, audits>>
                /\ incident'.status = "AWAITING_APPROVAL" => Governed(LatestPatch)
  <2> SUFFICES ASSUME Finish PROVE /\ orch.pc \in WorkingPCs
                                   /\ orch'.pc \notin WorkingPCs
                                   /\ UNCHANGED <<patches, audits>>
                                   /\ incident'.status = "AWAITING_APPROVAL"
                                      => Governed(LatestPatch)
    OBVIOUS
  <2>1. orch.pc \in WorkingPCs /\ UNCHANGED <<patches, audits>>
    BY DEF Finish
  <2>2. orch'.pc \notin WorkingPCs
    BY DEF Finish, AfterFinalUpdate, EndRun, OrchestratorStart
  <2>3. incident'.status = ValidatedFinishStatus.status
    BY DEF Finish, UpdateIncident
  <2>4. ValidatedFinishStatus.status = "AWAITING_APPROVAL" => Governed(LatestPatch)
    BY DEF ValidatedFinishStatus, Governed
  <2> QED
    BY <2>1, <2>2, <2>3, <2>4
<1>5. DecisionsFollowConclusion' /\ UnansweredUntilDone'
  <2>1. DecisionsFollowConclusion'
    BY <1>0, <1>3, <1>4, OrchestratorControl DEF IndInv, DecisionsFollowConclusion
  <2>2. UnansweredUntilDone'
    BY <1>3 DEF IndInv, UnansweredUntilDone
  <2> QED
    BY <2>1, <2>2
<1>6. CASE orch.pc \in WorkingPCs
  <2>1. /\ incident.status # "AWAITING_APPROVAL" /\ prodRuns = <<>>
        /\ \A r \in Requests : req[r].pc \notin AdmittedPCs
    BY <1>6 DEF IndInv, DecisionsFollowConclusion
  <2>2. AdmittedAreGoverned'
    BY <1>3, <2>1 DEF AdmittedAreGoverned
  <2>3. AwaitingIsGoverned'
    <3>1. CASE Finish
      BY <1>4, <3>1, GovernedUnchanged DEF AwaitingIsGoverned, LatestPatch
    <3>2. CASE ~Finish
      BY <1>0, <2>1, <3>2, OrchestratorControl DEF AwaitingIsGoverned
    <3> QED
      BY <3>1, <3>2
  <2>4. GovernedExecution'
    BY <1>3, <2>1 DEF GovernedExecution
  <2>5. BackstopIsUnreachable'
    BY <1>3 DEF IndInv, BackstopIsUnreachable
  <2> QED
    BY <1>1, <1>2, <1>5, <2>2, <2>3, <2>4, <2>5 DEF IndInv
<1>7. CASE orch.pc \notin WorkingPCs
  <2>1. UNCHANGED <<patches, audits>> /\ ~Finish
    BY <1>0, <1>4, <1>7, OrchestratorControl
  <2>2. \A p : Governed(p)' <=> Governed(p)
    BY <2>1, GovernedUnchanged
  <2>3. LatestPatch' = LatestPatch
    BY <2>1 DEF LatestPatch
  <2>4. AdmittedAreGoverned'
    BY <1>3, <2>1 DEF IndInv, AdmittedAreGoverned, Governed, LatestPatch,
                      IsPatch, AuditsOf, LatestVerdictIs
  <2>5. AwaitingIsGoverned'
    BY <1>0, <2>1, OrchestratorControl
    DEF IndInv, AwaitingIsGoverned, Governed, LatestPatch, IsPatch, AuditsOf,
        LatestVerdictIs
  <2>6. GovernedExecution'
    BY <1>3, <2>1 DEF IndInv, GovernedExecution, Governed, IsPatch, AuditsOf,
                      LatestVerdictIs
  <2>7. BackstopIsUnreachable'
    BY <1>3 DEF IndInv, BackstopIsUnreachable
  <2> QED
    BY <1>1, <1>2, <1>5, <2>4, <2>5, <2>6, <2>7 DEF IndInv
<1> QED
  BY <1>6, <1>7

-----------------------------------------------------------------------------
(* The requests' steps *)

\* What the invariant says of one request, q being its state.
RequestOK(q) ==
  /\ q.pc \in {"decide", "run", "log"} => q.step > 0
  /\ q.pc # "done" => q.answer = "none"
  /\ q.pc \in {"pick", "load", "audit", "run", "log"} => q.kind = "execute"
  /\ q.pc = "pick" => Governed(LatestPatch)
  /\ q.pc \in {"load", "audit"} /\ ~q.named => Governed(q.patch)
  /\ q.pc = "audit" => IsPatch(q.patch)
  /\ q.pc \in ApprovedPCs /\ q.kind = "execute" => Governed(q.patch)
  /\ ~q.named => q.answer \notin {"NoPatchAvailable", "PatchNotFound",
                                  "NoGovernanceAudit", "GovernanceBlock"}
  /\ q.pc \in AdmittedPCs => orch.pc \notin WorkingPCs

\* The parts of the invariant that concern requests, seen from one of them.
LEMMA RequestsAreOK ==
  ASSUME IndInv, NEW r \in Requests
  PROVE  RequestOK(req[r]) /\ req[r] \in RequestState
BY DEF IndInv, CountersAreSet, UnansweredUntilDone, DecisionsFollowConclusion,
       AdmittedAreGoverned, BackstopIsUnreachable, RequestOK, TypeOK,
       ExecutorTypeOK

\* Going on changes where a request is and nothing else of it.
LEMMA GoOnEffect ==
  ASSUME ExecutorTypeOK, NEW r \in Requests, NEW pc \in RequestPCs, GoOn(r, pc)
  PROVE  /\ req' = [req EXCEPT ![r] = [req[r] EXCEPT !.pc = pc]]
         /\ [req[r] EXCEPT !.pc = pc] \in RequestState
BY DEF ExecutorTypeOK, RequestState, GoOn

\* Answering forgets everything but the answer and whether a patch was named.
LEMMA EndRequestEffect ==
  ASSUME ExecutorTypeOK, NEW r \in Requests, NEW pc \in RequestPCs,
         NEW answer \in Answers, EndRequest(r, pc, answer)
  PROVE  \E q \in RequestState :
           /\ req' = [req EXCEPT ![r] = q]
           /\ q.pc = pc /\ q.answer = answer /\ q.named = req[r].named
<1> DEFINE q == [NotReceived EXCEPT !.pc = pc, !.answer = answer,
                                    !.named = req[r].named]
<1>1. req[r].named \in BOOLEAN
  BY DEF ExecutorTypeOK, RequestState
<1>2. NotReceived \in RequestState
  BY DEF NotReceived, RequestState, RequestPCs
<1>3. q \in RequestState
  BY <1>1, <1>2, Zenon DEF RequestState
<1>4. q.pc = pc /\ q.answer = answer /\ q.named = req[r].named
  BY DEF NotReceived
<1>5. req' = [req EXCEPT ![r] = q]
  BY Zenon DEF EndRequest
<1> QED
  BY <1>3, <1>4, <1>5, Zenon

\* Every step of a request leaves it in a state the invariant allows.
LEMMA RequestEffect ==
  ASSUME IndInv, NEW r \in Requests, Serve(r) \/ Receive(r) \/ RequestLost(r)
  PROVE  \E q \in RequestState :
           req' = [req EXCEPT ![r] = q] /\ RequestOK(q)
<1>1. /\ TypeOK /\ ExecutorTypeOK /\ StoreTypeOK
      /\ Len(steps) \in Nat /\ Len(patches) \in Nat
  BY LenProperties DEF IndInv, TypeOK, StoreTypeOK
<1>2. RequestOK(req[r]) /\ req[r] \in RequestState
  BY RequestsAreOK
<1>3. ASSUME NEW pc \in {"done", "lost"}, NEW answer \in Answers,
             EndRequest(r, pc, answer),
             pc = "lost" => answer = "none",
             ~req[r].named =>
               answer \notin {"NoPatchAvailable", "PatchNotFound",
                              "NoGovernanceAudit", "GovernanceBlock"}
      PROVE  \E q \in RequestState :
               req' = [req EXCEPT ![r] = q] /\ RequestOK(q)
  <2>1. pc \in RequestPCs
    BY DEF RequestPCs
  <2>2. PICK q \in RequestState :
          /\ req' = [req EXCEPT ![r] = q]
          /\ q.pc = pc /\ q.answer = answer /\ q.named = req[r].named
    BY <1>1, <1>3, <2>1, EndRequestEffect
  <2>3. RequestOK(q)
    BY <1>3, <2>2 DEF RequestOK
  <2> QED
    BY <2>2, <2>3
<1>4. ASSUME NEW pc \in RequestPCs, GoOn(r, pc),
             RequestOK([req[r] EXCEPT !.pc = pc])
      PROVE  \E q \in RequestState :
               req' = [req EXCEPT ![r] = q] /\ RequestOK(q)
  BY <1>1, <1>4, GoOnEffect
<1>5. CASE RequireAwaitingApproval(r)
  <2>1. CASE incident.status # "AWAITING_APPROVAL"
    BY <1>3, <1>5, <2>1 DEF RequireAwaitingApproval, Answer
  <2>2. CASE incident.status = "AWAITING_APPROVAL"
    <3> DEFINE pc == IF req[r].kind = "reject" THEN "number"
                     ELSE IF req[r].named THEN "load" ELSE "pick"
    <3>1. GoOn(r, pc) /\ pc \in RequestPCs /\ req[r].pc = "check"
      BY <1>5, <2>2 DEF RequireAwaitingApproval, RequestPCs
    <3>2. Governed(LatestPatch) /\ orch.pc \notin WorkingPCs
      BY <2>2 DEF IndInv, AwaitingIsGoverned, DecisionsFollowConclusion
    <3>3. RequestOK([req[r] EXCEPT !.pc = pc])
      BY <1>2, <3>1, <3>2 DEF RequestOK, RequestState
    <3> QED
      BY <1>4, <3>1, <3>3
  <2> QED
    BY <2>1, <2>2
<1>6. CASE PickLatestPatch(r)
  <2> DEFINE q == [req[r] EXCEPT !.pc = "load", !.patch = LatestPatch]
  <2>1. req[r].pc = "pick" /\ Governed(LatestPatch)
    BY <1>2, <1>6 DEF PickLatestPatch, RequestOK
  <2>2. req' = [req EXCEPT ![r] = q]
    BY <1>1, <1>6, <2>1 DEF PickLatestPatch, Governed, ExecutorTypeOK, RequestState
  <2>3. LatestPatch \in Nat /\ "load" \in RequestPCs
    BY <1>1 DEF LatestPatch, RequestPCs
  <2>4. q \in RequestState
    BY <1>2, <2>3, Zenon DEF RequestState
  <2>5. RequestOK(q)
    BY <1>2, <2>1 DEF RequestOK, RequestState
  <2> QED
    BY <2>2, <2>4, <2>5
<1>7. CASE LoadPatch(r)
  <2>1. CASE ~IsPatch(req[r].patch)
    BY <1>2, <1>3, <1>7, <2>1 DEF LoadPatch, Answer, RequestOK, Governed
  <2>2. CASE IsPatch(req[r].patch)
    <3>1. GoOn(r, "audit") /\ req[r].pc = "load" /\ "audit" \in RequestPCs
      BY <1>7, <2>2 DEF LoadPatch, RequestPCs
    <3>2. RequestOK([req[r] EXCEPT !.pc = "audit"])
      BY <1>2, <2>2, <3>1 DEF RequestOK, RequestState
    <3> QED
      BY <1>4, <3>1, <3>2
  <2> QED
    BY <2>1, <2>2
<1>8. CASE CheckLatestAudit(r)
  <2>1. CASE AuditsOf(req[r].patch) = {} \/ LatestVerdictIs(req[r].patch, "BLOCK")
    <3>1. PICK answer \in {"NoGovernanceAudit", "GovernanceBlock"} :
            EndRequest(r, "done", answer)
      BY <1>8, <2>1 DEF CheckLatestAudit, Answer
    <3>2. req[r].named
      BY <1>2, <1>8, <2>1 DEF CheckLatestAudit, RequestOK, RequestState, Governed
    <3> QED
      BY <1>3, <3>1, <3>2
  <2>2. CASE ~(AuditsOf(req[r].patch) = {} \/ LatestVerdictIs(req[r].patch, "BLOCK"))
    <3>1. GoOn(r, "number") /\ req[r].pc = "audit" /\ "number" \in RequestPCs
      BY <1>8, <2>2 DEF CheckLatestAudit, RequestPCs
    <3>2. Governed(req[r].patch)
      BY <1>2, <2>2, <3>1 DEF RequestOK, Governed
    <3>3. RequestOK([req[r] EXCEPT !.pc = "number"])
      BY <1>2, <3>1, <3>2 DEF RequestOK, RequestState
    <3> QED
      BY <1>4, <3>1, <3>3
  <2> QED
    BY <2>1, <2>2
<1>9. CASE NextStepSequence(r)
  <2> DEFINE q == [req[r] EXCEPT !.pc = "decide", !.step = Len(steps) + 1]
  <2>1. req[r].pc = "number" /\ req' = [req EXCEPT ![r] = q]
    BY <1>1, <1>9 DEF NextStepSequence, ExecutorTypeOK, RequestState
  <2>2. Len(steps) + 1 \in Nat /\ "decide" \in RequestPCs
    BY <1>1 DEF RequestPCs
  <2>3. q \in RequestState
    BY <1>2, <2>2, Zenon DEF RequestState
  <2>4. RequestOK(q)
    BY <1>1, <1>2, <2>1 DEF RequestOK, RequestState
  <2> QED
    BY <2>1, <2>3, <2>4
<1>10. CASE LogDecision(r)
  <2> DEFINE pc == IF req[r].kind = "execute" THEN "run" ELSE "settle"
  <2>1. GoOn(r, pc) /\ pc \in RequestPCs /\ req[r].pc = "decide"
    BY <1>10 DEF LogDecision, RequestPCs
  <2>2. RequestOK([req[r] EXCEPT !.pc = pc])
    BY <1>2, <2>1 DEF RequestOK, RequestState
  <2> QED
    BY <1>4, <2>1, <2>2
<1>11. CASE RunProductionSql(r)
  <2>1. PICK succeeded \in BOOLEAN :
          req' = [req EXCEPT ![r].pc = "log", ![r].succeeded = succeeded]
    BY <1>11 DEF RunProductionSql
  <2> DEFINE q == [req[r] EXCEPT !.pc = "log", !.succeeded = succeeded]
  <2>2. req[r].pc = "run" /\ req' = [req EXCEPT ![r] = q]
    BY <1>1, <1>11, <2>1 DEF RunProductionSql, ExecutorTypeOK, RequestState
  <2>3. "log" \in RequestPCs
    BY DEF RequestPCs
  <2>4. q \in RequestState
    BY <1>2, <2>3, Zenon DEF RequestState
  <2>5. RequestOK(q)
    BY <1>2, <2>2 DEF RequestOK, RequestState
  <2> QED
    BY <2>2, <2>4, <2>5
<1>12. CASE LogExecution(r)
  <2>1. GoOn(r, "settle") /\ "settle" \in RequestPCs /\ req[r].pc = "log"
    BY <1>12 DEF LogExecution, RequestPCs
  <2>2. RequestOK([req[r] EXCEPT !.pc = "settle"])
    BY <1>2, <2>1 DEF RequestOK, RequestState
  <2> QED
    BY <1>4, <2>1, <2>2
<1>13. CASE Settle(r) \/ StoreRaises(r)
  BY <1>3, <1>13 DEF Settle, SettledStatus, StoreRaises, Answer
<1>14. CASE RequestLost(r)
  BY <1>3, <1>14 DEF RequestLost
<1>15. CASE ReceiveExecute(r)
  <2>1. PICK p \in NoPatchId .. Len(patches) + 1 :
          req' = [req EXCEPT ![r].pc = "check", ![r].kind = "execute",
                             ![r].named = (p # NoPatchId), ![r].patch = p]
    BY <1>15 DEF ReceiveExecute
  <2> DEFINE named == p # NoPatchId
             q == [req[r] EXCEPT !.pc = "check", !.kind = "execute",
                                 !.named = named, !.patch = p]
  <2>2. req[r].pc = "idle" /\ p \in Nat /\ named \in BOOLEAN /\ "check" \in RequestPCs
    BY <1>1, <1>15 DEF ReceiveExecute, RequestPCs
  <2>3. req' = [req EXCEPT ![r] = q]
    BY <1>1, <2>1, Zenon DEF ExecutorTypeOK
  <2>4. q \in RequestState
    BY <1>2, <2>2, Zenon DEF RequestState
  <2>5. q.pc = "check" /\ q.answer = req[r].answer
    BY <1>2 DEF RequestState
  <2>6. RequestOK(q)
    BY <1>2, <2>2, <2>5 DEF RequestOK
  <2> QED
    BY <2>3, <2>4, <2>6
<1>16. CASE ReceiveReject(r)
  <2> DEFINE q == [req[r] EXCEPT !.pc = "check", !.kind = "reject"]
  <2>1. req[r].pc = "idle" /\ req' = [req EXCEPT ![r] = q]
    BY <1>1, <1>16 DEF ReceiveReject, ExecutorTypeOK, RequestState
  <2>2. "check" \in RequestPCs
    BY DEF RequestPCs
  <2>3. q \in RequestState
    BY <1>2, <2>2, Zenon DEF RequestState
  <2>4. RequestOK(q)
    BY <1>2, <2>1 DEF RequestOK, RequestState
  <2> QED
    BY <2>1, <2>3, <2>4
<1> QED
  BY <1>5, <1>6, <1>7, <1>8, <1>9, <1>10, <1>11, <1>12, <1>13, <1>14, <1>15, <1>16
  DEF Serve, Receive

\* What a request's step does to the store and to production: it writes no
\* patch and no audit, never makes an incident await approval, and runs only
\* the governed patch it holds, once the agents are done.
LEMMA RequestWrites ==
  ASSUME IndInv, NEW r \in Requests, Serve(r) \/ Receive(r) \/ RequestLost(r)
  PROVE  /\ StoreTypeOK'
         /\ UNCHANGED <<patches, audits>>
         /\ incident'.status = "AWAITING_APPROVAL" => UNCHANGED incident
         /\ \/ UNCHANGED prodRuns
            \/ /\ prodRuns' = Append(prodRuns, req[r].patch)
               /\ req[r].patch \in Nat \ {0}
               /\ Governed(req[r].patch)
               /\ orch.pc \notin WorkingPCs
<1>1. StoreTypeOK /\ steps \in Seq(Step)
  BY DEF IndInv, TypeOK, StoreTypeOK
<1>2. RequestOK(req[r]) /\ req[r] \in RequestState
  BY RequestsAreOK
<1>3. CASE LogDecision(r) \/ LogExecution(r)
  <2>1. PICK id \in Nat \ {0}, kind \in StepKind, status \in StepStatus :
          AppendStep(id, kind, status)
    <3>1. /\ req[r].step \in Nat \ {0} /\ req[r].step + 1 \in Nat \ {0}
          /\ {"USER_DECISION", "EXECUTION"} \subseteq StepKind
          /\ {"OK", "ERROR"} \subseteq StepStatus
      BY <1>2, <1>3 DEF LogDecision, LogExecution, RequestOK, RequestState,
                        StepKind, StepStatus
    <3> QED
      BY <1>3, <3>1 DEF LogDecision, LogExecution
  <2>2. steps' \in Seq(Step)
    BY <1>1, <2>1, AppendStepType
  <2> QED
    BY <1>1, <1>3, <2>2 DEF LogDecision, LogExecution, StoreTypeOK
<1>4. CASE RunProductionSql(r)
  <2>1. req[r].pc = "run"
    BY <1>4 DEF RunProductionSql
  <2>2. Governed(req[r].patch) /\ orch.pc \notin WorkingPCs
    BY <1>2, <2>1 DEF RequestOK
  <2>3. req[r].patch \in Nat \ {0}
    BY <1>2, <2>2 DEF RequestState, Governed, IsPatch
  <2> QED
    BY <1>1, <1>4, <2>2, <2>3 DEF RunProductionSql, StoreTypeOK, storeVars
<1>5. CASE Settle(r)
  <2>1. incident' \in [status : IncidentStatus, error : Errors, turn_count : Nat]
    BY <1>1, <1>5 DEF Settle, SettledStatus, UpdateIncident, StoreTypeOK,
                      IncidentStatus, Errors
  <2>2. incident'.status # "AWAITING_APPROVAL"
    BY <1>5 DEF Settle, SettledStatus, UpdateIncident
  <2> QED
    BY <1>1, <1>5, <2>1, <2>2 DEF Settle, StoreTypeOK
<1>6. CASE \/ RequireAwaitingApproval(r) \/ PickLatestPatch(r) \/ LoadPatch(r)
           \/ CheckLatestAudit(r) \/ NextStepSequence(r) \/ StoreRaises(r)
           \/ Receive(r) \/ RequestLost(r)
  BY <1>1, <1>6 DEF RequireAwaitingApproval, PickLatestPatch, LoadPatch,
     CheckLatestAudit, NextStepSequence, StoreRaises, Receive, ReceiveExecute,
     ReceiveReject, RequestLost, StoreTypeOK, storeVars
<1> QED
  BY <1>3, <1>4, <1>5, <1>6 DEF Serve

\* A step of a request, or its loss, preserves the whole invariant.
LEMMA RequestStep ==
  ASSUME IndInv, NEW r \in Requests, Serve(r) \/ Receive(r) \/ RequestLost(r),
         UNCHANGED orch
  PROVE  IndInv'
<1>1. PICK q \in RequestState : req' = [req EXCEPT ![r] = q] /\ RequestOK(q)
  BY RequestEffect
<1>2. /\ req \in [Requests -> RequestState]
      /\ prodRuns \in Seq(Nat \ {0})
      /\ OrchestratorTypeOK
  BY DEF IndInv, TypeOK, ExecutorTypeOK
<1>3. UNCHANGED <<patches, audits>>
  BY RequestWrites
<1>4. \A p : Governed(p)' <=> Governed(p)
  BY <1>3, GovernedUnchanged
<1>5. \A s \in Requests : req'[s] \in RequestState /\ RequestOK(req'[s])
  <2> TAKE s \in Requests
  <2>1. CASE s = r
    BY <1>1, <1>2, <2>1
  <2>2. CASE s # r
    BY <1>1, <1>2, <2>2, RequestsAreOK
  <2> QED
    BY <2>1, <2>2
<1>6. \A s \in Requests : RequestOK(req[s])'
  BY <1>3, <1>5 DEF RequestOK, Governed, LatestPatch, IsPatch, AuditsOf,
                    LatestVerdictIs
<1>7. \/ UNCHANGED prodRuns
      \/ /\ prodRuns' = Append(prodRuns, req[r].patch)
         /\ req[r].patch \in Nat \ {0}
         /\ Governed(req[r].patch)
         /\ orch.pc \notin WorkingPCs
  BY RequestWrites
<1>8. TypeOK'
  <2>1. StoreTypeOK'
    BY RequestWrites
  <2>2. req' \in [Requests -> RequestState]
    BY <1>1, <1>2
  <2>3. prodRuns' \in Seq(Nat \ {0})
    BY <1>2, <1>7, AppendProperties
  <2>4. OrchestratorTypeOK'
    BY <1>2 DEF OrchestratorTypeOK
  <2> QED
    BY <2>1, <2>2, <2>3, <2>4 DEF TypeOK, ExecutorTypeOK
<1>9. CountersAreSet' /\ UnansweredUntilDone' /\ AdmittedAreGoverned'
      /\ BackstopIsUnreachable'
  <2>1. CountersAreSet'
    BY <1>6 DEF IndInv, CountersAreSet, RequestOK
  <2>2. UnansweredUntilDone' /\ AdmittedAreGoverned' /\ BackstopIsUnreachable'
    BY <1>6 DEF UnansweredUntilDone, AdmittedAreGoverned, BackstopIsUnreachable,
                RequestOK
  <2> QED
    BY <2>1, <2>2
<1>10. AwaitingIsGoverned'
  <2> SUFFICES ASSUME incident'.status = "AWAITING_APPROVAL"
               PROVE  Governed(LatestPatch)'
    BY DEF AwaitingIsGoverned
  <2>1. Governed(LatestPatch)
    BY RequestWrites DEF IndInv, AwaitingIsGoverned
  <2> QED
    BY <1>3, <2>1 DEF Governed, LatestPatch, IsPatch, AuditsOf, LatestVerdictIs
<1>11. DecisionsFollowConclusion'
  <2> SUFFICES ASSUME orch.pc \in WorkingPCs
               PROVE  /\ incident'.status # "AWAITING_APPROVAL"
                      /\ prodRuns' = <<>>
                      /\ \A s \in Requests : req'[s].pc \notin AdmittedPCs
    BY DEF DecisionsFollowConclusion
  <2>1. incident'.status # "AWAITING_APPROVAL" /\ prodRuns' = <<>>
    BY <1>7, RequestWrites DEF IndInv, DecisionsFollowConclusion
  <2>2. \A s \in Requests : req'[s].pc \notin AdmittedPCs
    BY <1>5 DEF RequestOK
  <2> QED
    BY <2>1, <2>2
<1>12. GovernedExecution'
  <2>1. \A i \in 1..Len(prodRuns') : Governed(prodRuns'[i])
    <3>1. CASE UNCHANGED prodRuns
      BY <3>1 DEF IndInv, GovernedExecution
    <3>2. CASE /\ prodRuns' = Append(prodRuns, req[r].patch)
               /\ req[r].patch \in Nat \ {0}
               /\ Governed(req[r].patch)
      <4>1. /\ Len(prodRuns') = Len(prodRuns) + 1
            /\ \A i \in 1..Len(prodRuns) : prodRuns'[i] = prodRuns[i]
            /\ prodRuns'[Len(prodRuns) + 1] = req[r].patch
            /\ Len(prodRuns) \in Nat
        BY <1>2, <3>2, AppendProperties, LenProperties
      <4>2. \A i \in 1..Len(prodRuns) : Governed(prodRuns[i])
        BY DEF IndInv, GovernedExecution
      <4> QED
        BY <3>2, <4>1, <4>2
    <3> QED
      BY <1>7, <3>1, <3>2
  <2> QED
    BY <1>3, <2>1 DEF GovernedExecution, Governed, IsPatch, AuditsOf,
                      LatestVerdictIs
<1> QED
  BY <1>8, <1>9, <1>10, <1>11, <1>12 DEF IndInv

-----------------------------------------------------------------------------
(* The theorems *)

\* Every step of the system preserves the invariant: the orchestrator's, a
\* request's, a crash of either, and standing still.
LEMMA NextIndInv ==
  ASSUME IndInv, [Next]_vars
  PROVE  IndInv'
<1>1. CASE Orchestrate \/ (TaskLost /\ UNCHANGED executorVars)
  BY <1>1, OrchestratorStep DEF Orchestrate
<1>2. ASSUME NEW r \in Requests,
             \/ Decide(r) \/ Request(r)
             \/ RequestLost(r) /\ UNCHANGED orch
      PROVE  IndInv'
  BY <1>2, RequestStep DEF Decide, Request
<1>3. CASE UNCHANGED vars
  <2> USE <1>3 DEF vars, storeVars, executorVars
  <2>1. TypeOK'
    BY DEF IndInv, TypeOK, StoreTypeOK, OrchestratorTypeOK, ExecutorTypeOK
  <2>2. CountersAreSet' /\ UnansweredUntilDone' /\ BackstopIsUnreachable'
    BY DEF IndInv, CountersAreSet, UnansweredUntilDone, BackstopIsUnreachable
  <2>3. DecisionsFollowConclusion'
    BY DEF IndInv, DecisionsFollowConclusion
  <2>4. AdmittedAreGoverned' /\ AwaitingIsGoverned' /\ GovernedExecution'
    BY DEF IndInv, AdmittedAreGoverned, AwaitingIsGoverned, GovernedExecution,
           Governed, LatestPatch, IsPatch, AuditsOf, LatestVerdictIs
  <2> QED
    BY <2>1, <2>2, <2>3, <2>4 DEF IndInv
<1> QED
  BY <1>1, <1>2, <1>3 DEF Next, Crash, Settled

\* IndInv holds in every reachable state.
THEOREM IndInvHolds == Spec => []IndInv
BY InitIndInv, NextIndInv, PTL DEF Spec

\* Every variable keeps its type: the documents of the store, the local state
\* of the orchestrator's task and of every request.
THEOREM TypeCorrect == Spec => []TypeOK
<1>1. IndInv => TypeOK
  BY DEF IndInv
<1> QED
  BY <1>1, IndInvHolds, PTL

\* What _validated_finish_status is for: no incident awaits approval whose
\* latest patch is missing, unaudited, or blocked by its latest audit.
THEOREM ApprovalIsGoverned == Spec => []AwaitingIsGoverned
<1>1. IndInv => AwaitingIsGoverned
  BY DEF IndInv
<1> QED
  BY <1>1, IndInvHolds, PTL

\* What execute_incident is for: production SQL comes from governed patches
\* only, for any number of concurrent requests and any crash.
THEOREM ExecutionIsGoverned == Spec => []GovernedExecution
<1>1. IndInv => GovernedExecution
  BY DEF IndInv
<1> QED
  BY <1>1, IndInvHolds, PTL

\* Nothing is written to production while the agents are at work.
THEOREM RunsFollowConclusion == Spec => []NoRunBeforeConclusion
<1>1. IndInv => NoRunBeforeConclusion
  BY OrchestratorFields
  DEF IndInv, TypeOK, DecisionsFollowConclusion, NoRunBeforeConclusion
<1> QED
  BY <1>1, IndInvHolds, PTL

\* The executor's checks of patch and audit are defence in depth: a request
\* that leaves the choice of the patch to the server never meets them.
THEOREM BackstopHolds == Spec => []BackstopIsUnreachable
<1>1. IndInv => BackstopIsUnreachable
  BY DEF IndInv
<1> QED
  BY <1>1, IndInvHolds, PTL
=============================================================================
