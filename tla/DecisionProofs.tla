--------------------------- MODULE DecisionProofs ---------------------------
(***************************************************************************)
(* In both modes, with failing stores and dying instances, the system      *)
(* implements DecisionProtocol; what the protocol promises follows.        *)
(***************************************************************************)
EXTENDS WardenIncidentProofs, FiniteSetTheorems

USE DEF EndPCs, WorkingPCs, RestingPCs, ApprovedPCs, AdmittedPCs

\* The theorems about the protocol, under the mapping of WardenIncident.
Protocol == INSTANCE DecisionProtocolProofs
              WITH status  <- incident.status,
                   agents  <- orch.pc \notin {"done", "lost"},
                   request <- [r \in Requests |-> Stage(req[r])],
                   runs    <- Len(prodRuns)

\* Until it is over the loop knows the status it has written.
WorkShowsStatus ==
  /\ orch.pc \in {"created", "scheduled"} => incident.status = "INGESTED"
  /\ orch.pc \in WorkingPCs \ {"created", "scheduled"} =>
       incident.status = "DIAGNOSING"

-----------------------------------------------------------------------------
(* The agents *)

\* The ways the task takes the incident on: by its first write, by its last,
\* by that of _fail, or not at all.
TaskTakes ==
  \/ /\ orch.pc = "scheduled" /\ orch'.pc = "model"
     /\ incident'.status = "DIAGNOSING"
  \/ /\ orch.pc \in {"turn_end", "exhausted", "validate"}
     /\ orch'.pc \in {"readback", "done"}
     /\ incident'.status \in {"AWAITING_APPROVAL", "REJECTED", "FAILED"}
  \/ /\ orch.pc = "failing" /\ orch'.pc = "done"
     /\ incident'.status = "FAILED"
  \/ /\ incident'.status = incident.status
     /\ \/ orch'.pc \in EndPCs
        \/ orch.pc = "created" /\ orch'.pc = "scheduled"
        \/ /\ orch.pc \in WorkingPCs \ {"created", "scheduled"}
           /\ orch'.pc \in WorkingPCs \ {"created", "scheduled"}

\* Every step of the task is one of them.
LEMMA TaskSteps ==
  ASSUME OrchestratorTypeOK, Run \/ TaskLost
  PROVE  TaskTakes /\ orch.pc \notin {"done", "lost"}
<1> USE DEF OrchestratorTypeOK
<1>1. ASSUME NEW pc, NEW error, EndRun(pc, error) PROVE orch'.pc = pc
  BY <1>1 DEF EndRun, OrchestratorStart
<1>2. ASSUME NEW turn, StartTurn(turn) PROVE orch'.pc = "model"
  BY <1>2 DEF StartTurn, OrchestratorStart
<1>3. ASSUME NEW pc, Goto(pc) PROVE orch'.pc = pc
  BY <1>3 DEF Goto
<1>4. ASSUME NEW status, NEW error, NEW turns, UpdateIncident(status, error, turns)
      PROVE  incident'.status = status
  BY <1>4 DEF UpdateIncident
<1>5. CASE RunInBackground \/ SkipGovernance \/ EnsureGovernance
  BY <1>3, <1>5 DEF RunInBackground, SkipGovernance, EnsureGovernance, storeVars,
                    TaskTakes
<1>6. CASE StartRun
  BY <1>2, <1>4, <1>6 DEF StartRun, SetStatus, TaskTakes
<1>7. CASE ModelTurn
  <2>1. orch.pc = "model" /\ UNCHANGED incident
    BY <1>7 DEF ModelTurn, ModelRetry, ModelTimesOut, ModelFails, ModelConcludes,
                ModelCallsTools
  <2>2. orch'.pc \in {"model", "failing", "ensure", "call"}
    <3>1. CASE ModelTimesOut \/ ModelFails
      BY <1>1, <3>1 DEF ModelTimesOut, ModelFails, FailWith
    <3>2. CASE ModelConcludes
      BY <1>3, <3>2 DEF ModelConcludes
    <3>3. CASE ModelRetry \/ ModelCallsTools
      BY <2>1, <3>3 DEF ModelRetry, ModelCallsTools
    <3> QED
      BY <1>7, <3>1, <3>2, <3>3 DEF ModelTurn
  <2> QED
    BY <2>1, <2>2 DEF TaskTakes
<1>8. CASE ToolCall
  <2>1. /\ orch.pc \in {"call", "tool", "result"}
        /\ orch'.pc \in {"call", "tool", "result", "turn_end"}
        /\ UNCHANGED incident
    BY <1>8, Zenon DEF ToolCall, BeginCall, ToolWritesNothing, GenerateAndTestPatch,
       VerifyGovernancePolicy, EndCall, ToolReturns, storeVars
  <2> QED
    BY <2>1 DEF TaskTakes
<1>9. CASE StopBlocked \/ ExhaustBudget \/ Finish
  <2>1. ValidatedFinishStatus.status \in {"AWAITING_APPROVAL", "REJECTED", "FAILED"}
    BY DEF ValidatedFinishStatus
  <2> QED
    BY <1>1, <1>4, <1>9, <2>1 DEF StopBlocked, ExhaustBudget, Finish,
                                  AfterFinalUpdate, TaskTakes
<1>10. CASE NextTurn
  BY <1>2, <1>3, <1>4, <1>10 DEF NextTurn, TaskTakes
<1>11. CASE ReadBack \/ FailIsSwallowed \/ TaskLost
  BY <1>1, <1>11 DEF ReadBack, FailIsSwallowed, TaskLost, storeVars, TaskTakes
<1>12. CASE Interrupted
  BY <1>1, <1>12 DEF Interrupted, FailWith, SuspendedPCs, storeVars, TaskTakes
<1>13. CASE Fail
  BY <1>1, <1>4, <1>13 DEF Fail, TaskTakes
<1> QED
  BY <1>5, <1>6, <1>7, <1>8, <1>9, <1>10, <1>11, <1>12, <1>13 DEF Run, Conclude

\* So the task's steps are the agents' of the protocol.
LEMMA TaskDecides ==
  ASSUME OrchestratorTypeOK, WorkShowsStatus, Run \/ TaskLost,
         UNCHANGED executorVars
  PROVE  WorkShowsStatus' /\ [Decisions!Next]_Decisions!vars
<1>1. TaskTakes /\ orch.pc \notin {"done", "lost"}
  BY TaskSteps
<1>2. UNCHANGED <<req, prodRuns>>
  BY DEF executorVars
<1>3. UNCHANGED [r \in Requests |-> Stage(req[r])]
  BY <1>2 DEF Stage
<1>4. WorkShowsStatus'
  BY <1>1, OrchestratorFields DEF TaskTakes, WorkShowsStatus
<1>5. \/ Decisions!Diagnose \/ Decisions!Conclude \/ Decisions!GiveUp
      \/ Decisions!AgentsEnd \/ UNCHANGED Decisions!vars
  BY <1>1, <1>2, <1>3, OrchestratorFields
  DEF TaskTakes, WorkShowsStatus, Decisions!Diagnose, Decisions!Conclude,
      Decisions!GiveUp, Decisions!AgentsEnd, Decisions!vars
<1> QED
  BY <1>4, <1>5 DEF Decisions!Next

-----------------------------------------------------------------------------
(* The requests *)

\* One request moves, and the protocol sees it move to its new stage.
LEMMA StageMoves ==
  ASSUME IndInv, NEW r \in Requests, NEW q, req' = [req EXCEPT ![r] = q]
  PROVE  Decisions!Becomes(r, Stage(q))
BY DEF IndInv, TypeOK, ExecutorTypeOK, Decisions!Becomes, Stage

\* A coroutine that is over, with whatever answer, is over to the protocol.
LEMMA EndedIsOver ==
  ASSUME IndInv, NEW r \in Requests, NEW pc \in {"done", "lost"}, NEW answer,
         EndRequest(r, pc, answer)
  PROVE  Decisions!Becomes(r, "over")
<1> DEFINE q == [NotReceived EXCEPT !.pc = pc, !.answer = answer,
                                    !.named = req[r].named]
<1>1. req' = [req EXCEPT ![r] = q]
  BY Zenon DEF EndRequest
<1>2. q.pc = pc
  BY DEF NotReceived
<1>3. Stage(q) = "over"
  BY <1>2 DEF Stage
<1> QED
  BY <1>1, <1>3, StageMoves

\* Each step of a request is one of the protocol's, or goes on in its stage.
LEMMA RequestDecides ==
  ASSUME IndInv, NEW r \in Requests, Serve(r) \/ Receive(r) \/ RequestLost(r),
         UNCHANGED orch
  PROVE  [Decisions!Next]_Decisions!vars
<1> DEFINE requests == [s \in Requests |-> Stage(req[s])]
<1>1. /\ req \in [Requests -> RequestState] /\ req[r] \in RequestState
      /\ RequestOK(req[r])
      /\ requests[r] = Stage(req[r])
  BY RequestsAreOK DEF IndInv, TypeOK, ExecutorTypeOK
<1>2. ASSUME NEW q, req' = [req EXCEPT ![r] = q], Stage(q) = Stage(req[r]),
             UNCHANGED <<incident, prodRuns>>
      PROVE  UNCHANGED Decisions!vars
  <2>1. \A s \in Requests : Stage(req[s])' = Stage(req[s])
    BY <1>1, <1>2 DEF Stage
  <2> QED
    BY <1>2, <2>1 DEF Decisions!vars
<1>3. ASSUME NEW pc \in {"done", "lost"}, NEW answer, EndRequest(r, pc, answer),
             req[r].pc \notin {"done", "lost"}, UNCHANGED <<incident, prodRuns>>
      PROVE  Decisions!Abandon(r)
  <2>1. Stage(req[r]) # "over"
    BY <1>1, <1>3 DEF Stage, RequestState, RequestPCs
  <2> QED
    BY <1>1, <1>3, <2>1, EndedIsOver DEF Decisions!Abandon
<1>4. ASSUME NEW pc, GoOn(r, pc)
      PROVE  req' = [req EXCEPT ![r] = [req[r] EXCEPT !.pc = pc]]
  BY <1>1, <1>4 DEF GoOn, RequestState
<1>5. CASE RequireAwaitingApproval(r)
  <2>1. CASE incident.status # "AWAITING_APPROVAL"
    BY <1>3, <1>5, <2>1 DEF RequireAwaitingApproval, Answer, storeVars,
                            Decisions!Next
  <2>2. CASE incident.status = "AWAITING_APPROVAL"
    <3> DEFINE pc == IF req[r].kind = "reject" THEN "number"
                     ELSE IF req[r].named THEN "load" ELSE "pick"
               q == [req[r] EXCEPT !.pc = pc]
    <3>1. /\ req' = [req EXCEPT ![r] = q] /\ req[r].pc = "check"
          /\ UNCHANGED <<incident, prodRuns>>
      BY <1>4, <1>5, <2>2 DEF RequireAwaitingApproval, storeVars
    <3>2. q.pc = pc /\ q.kind = req[r].kind /\ pc \in {"number", "load", "pick"}
      BY <1>1 DEF RequestState
    <3>3. /\ req[r].kind \in {"execute", "reject"}
          /\ pc = "number" <=> req[r].kind = "reject"
      BY <1>1 DEF RequestState
    <3> HIDE DEF pc, q
    <3>4. Stage(q) \in {"executing", "rejecting"} /\ Stage(req[r]) = "waiting"
      BY <3>1, <3>2, <3>3 DEF Stage
    <3>5. Decisions!Admit(r)
      BY <1>1, <2>2, <3>1, <3>4, StageMoves DEF Decisions!Admit
    <3> QED
      BY <3>5 DEF Decisions!Next
  <2> QED
    BY <2>1, <2>2
<1>6. CASE PickLatestPatch(r) \/ LoadPatch(r) \/ CheckLatestAudit(r)
  <2>1. /\ req[r].pc \in {"pick", "load", "audit"} /\ req[r].kind = "execute"
        /\ UNCHANGED <<incident, prodRuns>>
    BY <1>1, <1>6 DEF PickLatestPatch, LoadPatch, CheckLatestAudit, storeVars,
                      RequestOK
  <2>2. \/ \E answer : EndRequest(r, "done", answer)
        \/ \E pc \in {"audit", "number"} : GoOn(r, pc)
        \/ req' = [req EXCEPT ![r] = [req[r] EXCEPT !.pc = "load",
                                                   !.patch = LatestPatch]]
    <3>1. ASSUME NEW answer, Answer(r, answer)
          PROVE  EndRequest(r, "done", answer)
      BY <3>1 DEF Answer
    <3>2. CASE PickLatestPatch(r)
      BY <1>1, <3>1, <3>2 DEF PickLatestPatch, RequestState
    <3>3. CASE LoadPatch(r)
      BY <3>1, <3>3 DEF LoadPatch
    <3>4. CASE CheckLatestAudit(r)
      BY <3>1, <3>4 DEF CheckLatestAudit
    <3> QED
      BY <1>6, <3>2, <3>3, <3>4
  <2>3. CASE \E answer : EndRequest(r, "done", answer)
    BY <1>3, <2>1, <2>3 DEF Decisions!Next
  <2>4. ASSUME NEW q, req' = [req EXCEPT ![r] = q], q.kind = "execute",
               q.pc \in {"load", "audit", "number"}
        PROVE  UNCHANGED Decisions!vars
    <3>1. Stage(q) = "executing" /\ Stage(req[r]) = "executing"
      BY <2>1, <2>4 DEF Stage
    <3> QED
      BY <1>2, <2>1, <2>4, <3>1
  <2>5. CASE \E pc \in {"audit", "number"} : GoOn(r, pc)
    BY <1>1, <1>4, <2>1, <2>4, <2>5 DEF RequestState
  <2>6. CASE req' = [req EXCEPT ![r] = [req[r] EXCEPT !.pc = "load",
                                                     !.patch = LatestPatch]]
    BY <1>1, <2>1, <2>4, <2>6 DEF RequestState
  <2> QED
    BY <2>2, <2>3, <2>5, <2>6
<1>7. CASE NextStepSequence(r) \/ LogDecision(r) \/ LogExecution(r)
  <2>1. /\ req[r].pc \in {"number", "decide", "log"}
        /\ req[r].kind \in {"execute", "reject"}
        /\ UNCHANGED <<incident, prodRuns>>
    BY <1>1, <1>7 DEF NextStepSequence, LogDecision, LogExecution, storeVars,
                      RequestState
  <2>2. PICK q : /\ req' = [req EXCEPT ![r] = q]
                 /\ q.kind = req[r].kind /\ q.succeeded = req[r].succeeded
                 /\ \/ req[r].pc = "number" /\ q.pc = "decide"
                    \/ /\ req[r].pc = "decide"
                       /\ q.pc = IF q.kind = "execute" THEN "run" ELSE "settle"
                    \/ req[r].pc = "log" /\ q.pc = "settle"
    <3>1. CASE NextStepSequence(r)
      <4> DEFINE q == [req[r] EXCEPT !.pc = "decide", !.step = Len(steps) + 1]
      <4>1. req' = [req EXCEPT ![r] = q] /\ req[r].pc = "number"
        BY <1>1, <3>1 DEF NextStepSequence, RequestState
      <4>2. /\ q.kind = req[r].kind /\ q.succeeded = req[r].succeeded
            /\ q.pc = "decide"
        BY <1>1 DEF RequestState
      <4> QED
        BY <4>1, <4>2
    <3>2. CASE LogDecision(r) \/ LogExecution(r)
      <4>1. PICK pc : /\ GoOn(r, pc)
                      /\ \/ /\ req[r].pc = "decide"
                            /\ pc = IF req[r].kind = "execute" THEN "run"
                                                               ELSE "settle"
                         \/ req[r].pc = "log" /\ pc = "settle"
        BY <3>2 DEF LogDecision, LogExecution
      <4> DEFINE q == [req[r] EXCEPT !.pc = pc]
      <4>2. /\ q.kind = req[r].kind /\ q.succeeded = req[r].succeeded
            /\ q.pc = pc
        BY <1>1 DEF RequestState
      <4> QED
        BY <1>4, <4>1, <4>2
    <3> QED
      BY <1>7, <3>1, <3>2
  <2>3. Stage(q) = Stage(req[r])
    BY <2>1, <2>2 DEF Stage
  <2> QED
    BY <1>2, <2>1, <2>2, <2>3
<1>8. CASE RunProductionSql(r)
  <2>1. PICK effect \in BOOLEAN, succeeded \in BOOLEAN :
          /\ succeeded => effect
          /\ prodRuns' = IF effect THEN Append(prodRuns, req[r].patch) ELSE prodRuns
          /\ req' = [req EXCEPT ![r].pc = "log", ![r].succeeded = succeeded]
    BY <1>8 DEF RunProductionSql
  <2> DEFINE q == [req[r] EXCEPT !.pc = "log", !.succeeded = succeeded]
  <2>2. /\ req' = [req EXCEPT ![r] = q] /\ UNCHANGED incident
        /\ req[r].pc = "run" /\ req[r].kind = "execute"
        /\ q.pc = "log" /\ q.kind = "execute" /\ q.succeeded = succeeded
    BY <1>1, <1>8, <2>1 DEF RunProductionSql, storeVars, RequestState, RequestOK
  <2> HIDE DEF q
  <2>3. /\ Stage(req[r]) = "executing"
        /\ Stage(q) = IF succeeded THEN "written" ELSE "unsure"
    BY <2>2 DEF Stage
  <2>4. Decisions!Becomes(r, Stage(q))
    BY <2>2, StageMoves
  <2>5. effect => Len(prodRuns') = Len(prodRuns) + 1
    BY <2>1, AppendProperties DEF IndInv, TypeOK, ExecutorTypeOK
  <2>6. \/ Decisions!Write(r) \/ Decisions!Attempt(r)
    BY <1>1, <2>1, <2>2, <2>3, <2>4, <2>5 DEF Decisions!Write, Decisions!Attempt
  <2> QED
    BY <2>6 DEF Decisions!Next
<1>9. CASE Settle(r)
  <2>1. /\ req[r].pc = "settle" /\ req[r].kind \in {"execute", "reject"}
        /\ incident'.status = SettledStatus(r)
        /\ \E answer : EndRequest(r, "done", answer)
        /\ UNCHANGED prodRuns
    BY <1>1, <1>9 DEF Settle, UpdateIncident, Answer, RequestState
  <2>2. Decisions!Becomes(r, "over")
    BY <2>1, EndedIsOver
  <2>3. /\ Stage(req[r]) \in {"rejecting", "written", "unsure"}
        /\ SettledStatus(r) = Decisions!Outcome(Stage(req[r]))
    BY <2>1 DEF Stage, SettledStatus, Decisions!Outcome
  <2>4. Decisions!Settle(r)
    BY <1>1, <2>1, <2>2, <2>3 DEF Decisions!Settle, Decisions!Admitted
  <2> QED
    BY <2>4 DEF Decisions!Next
<1>10. CASE StoreRaises(r) \/ RequestLost(r)
  BY <1>3, <1>10 DEF StoreRaises, RequestLost, Answer, storeVars, Decisions!Next
<1>11. CASE Receive(r)
  <2>1. PICK q : /\ req' = [req EXCEPT ![r] = q]
                 /\ q.pc = "check" /\ req[r].pc = "idle"
    <3>1. CASE ReceiveReject(r)
      <4> DEFINE q == [req[r] EXCEPT !.pc = "check", !.kind = "reject"]
      <4>1. req' = [req EXCEPT ![r] = q]
        BY <1>1, <3>1 DEF ReceiveReject
      <4>2. q.pc = "check" /\ req[r].pc = "idle"
        BY <1>1, <3>1 DEF RequestState, ReceiveReject
      <4> HIDE DEF q
      <4> QED
        BY <4>1, <4>2
    <3>2. CASE ReceiveExecute(r)
      <4>1. PICK p \in NoPatchId .. Len(patches) + 1 :
              req' = [req EXCEPT ![r].pc = "check", ![r].kind = "execute",
                                 ![r].named = (p # NoPatchId), ![r].patch = p]
        BY <3>2 DEF ReceiveExecute
      <4> DEFINE named == p # NoPatchId
                 q == [req[r] EXCEPT !.pc = "check", !.kind = "execute",
                                     !.named = named, !.patch = p]
      <4>2. req' = [req EXCEPT ![r] = q]
        BY <1>1, <4>1, Zenon
      <4>3. q.pc = "check" /\ req[r].pc = "idle"
        BY <1>1, <3>2 DEF RequestState, ReceiveExecute
      <4> HIDE DEF q
      <4> QED
        BY <4>2, <4>3
    <3> QED
      BY <1>11, <3>1, <3>2 DEF Receive
  <2>2. Stage(q) = "waiting" /\ Stage(req[r]) = "waiting"
    BY <2>1 DEF Stage
  <2>3. UNCHANGED <<incident, prodRuns>>
    BY <1>11 DEF Receive, ReceiveExecute, ReceiveReject, storeVars
  <2> QED
    BY <1>2, <2>1, <2>2, <2>3
<1> QED
  BY <1>5, <1>6, <1>7, <1>8, <1>9, <1>10, <1>11 DEF Serve

-----------------------------------------------------------------------------
(* The refinement, and what it gives *)

\* The initial state is one of the protocol's.
LEMMA InitDecides == Init => WorkShowsStatus /\ Decisions!Init
<1> SUFFICES ASSUME Init PROVE WorkShowsStatus /\ Decisions!Init
  OBVIOUS
<1>1. /\ incident.status = "INGESTED" /\ orch.pc = "created"
      /\ \A r \in Requests : Stage(req[r]) = "waiting"
      /\ Len(prodRuns) = 0
  BY DEF Init, StoreInit, OrchestratorInit, OrchestratorStart, ExecutorInit,
         NotReceived, Stage
<1> QED
  BY <1>1 DEF WorkShowsStatus, Decisions!Init

\* Every step of the system is a step of the protocol or stutters.
LEMMA NextDecides ==
  ASSUME IndInv, WorkShowsStatus, [Next]_vars
  PROVE  WorkShowsStatus' /\ [Decisions!Next]_Decisions!vars
<1>1. OrchestratorTypeOK
  BY DEF IndInv, TypeOK
<1>2. CASE Orchestrate \/ (TaskLost /\ UNCHANGED executorVars)
  BY <1>1, <1>2, TaskDecides DEF Orchestrate
<1>3. ASSUME NEW r \in Requests,
             \/ Decide(r) \/ Request(r)
             \/ RequestLost(r) /\ UNCHANGED orch
      PROVE  WorkShowsStatus' /\ [Decisions!Next]_Decisions!vars
  <2>1. [Decisions!Next]_Decisions!vars
    BY <1>3, RequestDecides DEF Decide, Request
  <2>2. WorkShowsStatus'
    <3>1. UNCHANGED orch
      BY <1>3 DEF Decide, Request
    <3>2. ASSUME orch.pc \in WorkingPCs PROVE UNCHANGED incident
      <4>1. req[r].pc # "settle"
        BY <3>2 DEF IndInv, DecisionsFollowConclusion
      <4> QED
        BY <1>3, <4>1 DEF Decide, Request, Serve, Receive, RequestLost,
           ReceiveExecute, ReceiveReject, RequireAwaitingApproval, PickLatestPatch,
           LoadPatch, CheckLatestAudit, NextStepSequence, LogDecision,
           RunProductionSql, LogExecution, Settle, StoreRaises, storeVars
    <3> QED
      BY <3>1, <3>2 DEF WorkShowsStatus
  <2> QED
    BY <2>1, <2>2
<1>4. CASE UNCHANGED vars
  BY <1>4 DEF vars, storeVars, executorVars, WorkShowsStatus, Decisions!vars, Stage
<1> QED
  BY <1>2, <1>3, <1>4 DEF Next, Crash, Settled

\* In both modes, with a store that fails and instances that die, any number of
\* concurrent requests decide on an incident by the rules of DecisionProtocol.
THEOREM DecisionsAreKept == Spec => KeepsDecisions
BY InitDecides, NextDecides, IndInvHolds, PTL
DEF Spec, KeepsDecisions, Decisions!Spec

\* The protocol's theorems are about the same protocol.
LEMMA SameProtocol == KeepsDecisions <=> Protocol!Spec
BY DEF KeepsDecisions, Decisions!Spec, Protocol!Spec, Decisions!Init, Protocol!Init,
       Decisions!vars, Protocol!vars, Decisions!Next, Protocol!Next,
       Decisions!Diagnose, Protocol!Diagnose, Decisions!Conclude, Protocol!Conclude,
       Decisions!GiveUp, Protocol!GiveUp, Decisions!AgentsEnd, Protocol!AgentsEnd,
       Decisions!Admit, Protocol!Admit, Decisions!Write, Protocol!Write,
       Decisions!Attempt, Protocol!Attempt, Decisions!Settle, Protocol!Settle,
       Decisions!Abandon, Protocol!Abandon, Decisions!Becomes, Protocol!Becomes,
       Decisions!Outcome, Protocol!Outcome, Decisions!Admitted, Protocol!Admitted

\* RESOLVED is never reported of SQL that was not run.
THEOREM ResolvedMeansRun == Spec => []ResolvedWasRun
<1>1. Protocol!Spec => []Protocol!ResolvedHasRun
  BY Protocol!ResolvedIsRun
<1>2. IndInv /\ Protocol!ResolvedHasRun => ResolvedWasRun
  BY EmptySeq, LenProperties
  DEF IndInv, TypeOK, ExecutorTypeOK, Protocol!ResolvedHasRun, ResolvedWasRun
<1> QED
  BY <1>1, <1>2, DecisionsAreKept, SameProtocol, IndInvHolds, PTL

\* However requests, failures and crashes interleave, no request runs its SQL
\* twice, and no SQL is run for a request that was not admitted.
THEOREM RunsAreRequested ==
  ASSUME IsFiniteSet(Requests)
  PROVE  Spec => []OneRunPerRequest
<1> DEFINE Spent == Protocol!Spent
           Paid == Len(prodRuns) <= Cardinality(Spent)
<1>1. /\ IsFiniteSet(Spent) /\ Cardinality(Spent) \in Nat
      /\ IsFiniteSet(Spent') /\ Cardinality(Spent') \in Nat
  <2>1. IsFiniteSet(Spent) /\ IsFiniteSet(Spent')
    BY FS_Subset DEF Protocol!Spent
  <2> QED
    BY <2>1, FS_CardinalityType
<1>2. Init => Paid
  <2>1. Init => Len(prodRuns) = 0
    BY DEF Init, ExecutorInit
  <2> QED
    BY <1>1, <2>1
<1>3. /\ IndInv /\ Protocol!ProtocolInv /\ Paid
      /\ [Protocol!Next]_Protocol!vars
      => Paid'
  <2> SUFFICES ASSUME IndInv, Protocol!ProtocolInv, Paid,
                      [Protocol!Next]_Protocol!vars
               PROVE  Paid'
    OBVIOUS
  <2>1. /\ Spent \subseteq Spent'
        /\ \/ Len(prodRuns)' = Len(prodRuns)
           \/ Len(prodRuns)' = Len(prodRuns) + 1 /\ Spent' \ Spent # {}
    BY Protocol!SpentGrows
  <2>2. Len(prodRuns) \in Nat
    BY LenProperties DEF IndInv, TypeOK, ExecutorTypeOK
  <2> HIDE DEF Spent
  <2>3. Cardinality(Spent) <= Cardinality(Spent')
    BY <1>1, <2>1, FS_Subset
  <2>4. CASE Len(prodRuns)' = Len(prodRuns)
    BY <1>1, <2>2, <2>3, <2>4
  <2>5. CASE Len(prodRuns)' = Len(prodRuns) + 1 /\ Spent' \ Spent # {}
    <3>1. PICK r \in Spent' : r \notin Spent
      BY <2>5
    <3>2. /\ IsFiniteSet(Spent \cup {r})
          /\ Cardinality(Spent \cup {r}) = Cardinality(Spent) + 1
      BY <1>1, <3>1, FS_AddElement
    <3>3. Cardinality(Spent \cup {r}) <= Cardinality(Spent')
      BY <1>1, <2>1, <3>1, FS_Subset
    <3> QED
      BY <1>1, <2>2, <2>5, <3>2, <3>3
  <2> QED
    BY <2>1, <2>4, <2>5
<1>4. IndInv /\ Paid => OneRunPerRequest
  <2> SUFFICES ASSUME IndInv, Paid PROVE OneRunPerRequest
    OBVIOUS
  <2> DEFINE Past == {r \in Requests :
                        req[r].pc \in {"log", "settle", "done", "lost"}}
  <2>1. Spent \subseteq Past
    BY DEF Protocol!Spent, Stage
  <2>2. IsFiniteSet(Past)
    BY FS_Subset
  <2>3. Cardinality(Spent) <= Cardinality(Past) /\ Cardinality(Past) \in Nat
    BY <2>1, <2>2, FS_Subset, FS_CardinalityType
  <2>4. Len(prodRuns) \in Nat
    BY LenProperties DEF IndInv, TypeOK, ExecutorTypeOK
  <2> HIDE DEF Spent
  <2> QED
    BY <1>1, <2>3, <2>4 DEF OneRunPerRequest
<1> HIDE DEF Paid
<1>5. Protocol!Spec => []Protocol!ProtocolInv /\ [][Protocol!Next]_Protocol!vars
  BY Protocol!ProtocolInvHolds, PTL DEF Protocol!Spec
<1> QED
  BY <1>2, <1>3, <1>4, <1>5, DecisionsAreKept, SameProtocol, IndInvHolds, PTL
  DEF Spec

\* Production SQL takes effect one statement at a time.
LEMMA RunsGrow ==
  ASSUME IndInv, [Next]_vars
  PROVE  \/ UNCHANGED prodRuns
         \/ Len(prodRuns') = Len(prodRuns) + 1 /\ Len(prodRuns) \in Nat
<1>1. ASSUME NEW r \in Requests, Serve(r) \/ Receive(r) \/ RequestLost(r)
      PROVE  \/ UNCHANGED prodRuns
             \/ Len(prodRuns') = Len(prodRuns) + 1 /\ Len(prodRuns) \in Nat
  BY <1>1, RequestWrites, AppendProperties, LenProperties
  DEF IndInv, TypeOK, ExecutorTypeOK
<1> QED
  BY <1>1 DEF Next, Orchestrate, Decide, Request, Crash, Settled, vars,
              executorVars

\* Once an incident is closed it stays closed: its status and what was run for
\* it never change, whatever requests still arrive.
THEOREM ClosedStays == Spec => ClosedIsFinal
<1>1. Protocol!Spec => Protocol!OverIsFinal
  BY Protocol!ProtocolEnds
<1>2. IndInv => (Closed <=> Protocol!Over)
  BY DEF IndInv, TypeOK, ExecutorTypeOK, RequestState, RequestPCs, Closed,
         Protocol!Over, Protocol!Admitted, Stage
<1>3. IndInv /\ [Next]_vars =>
        \/ UNCHANGED prodRuns
        \/ Len(prodRuns') = Len(prodRuns) + 1 /\ Len(prodRuns) \in Nat
  BY RunsGrow
<1>4. IndInv /\ IndInv' /\ [Next]_vars
      /\ [Protocol!Over => /\ UNCHANGED <<incident.status, Len(prodRuns)>>
                           /\ Protocol!Over']_Protocol!vars
      => [Closed => Closed' /\ UNCHANGED <<incident.status, prodRuns>>]_vars
  <2> SUFFICES ASSUME IndInv, IndInv', [Next]_vars, Closed,
                      [Protocol!Over =>
                         /\ UNCHANGED <<incident.status, Len(prodRuns)>>
                         /\ Protocol!Over']_Protocol!vars
               PROVE  Closed' /\ UNCHANGED <<incident.status, prodRuns>>
    OBVIOUS
  <2>1. Protocol!Over
    BY <1>2
  <2>2. UNCHANGED <<incident.status, Len(prodRuns)>> /\ Protocol!Over'
    BY <2>1 DEF Protocol!vars, Protocol!Over
  <2>3. Closed'
    BY <2>2 DEF IndInv, TypeOK, ExecutorTypeOK, RequestState, RequestPCs, Closed,
                Protocol!Over, Protocol!Admitted, Stage
  <2>4. UNCHANGED prodRuns
    BY <1>3, <2>2
  <2> QED
    BY <2>2, <2>3, <2>4
<1> QED
  BY <1>1, <1>4, DecisionsAreKept, SameProtocol, IndInvHolds, PTL
  DEF Spec, ClosedIsFinal, Protocol!OverIsFinal

-----------------------------------------------------------------------------
(* Runs that nobody reports *)

\* About to report what it ran, or excused from it: q is a request's state.
Accounts(q) ==
  \/ q.pc \in {"log", "settle"} /\ q.kind = "execute"
  \/ q.pc = "lost" \/ q.answer = "raised"

\* A request that has run SQL goes on to report it: it leaves off by settling
\* the incident, by an exception or by dying.  One that runs SQL is such a one.
LEMMA AccountsGoOn ==
  ASSUME IndInv, NEW r \in Requests, Serve(r) \/ Receive(r) \/ RequestLost(r)
  PROVE  /\ Accounts(req[r]) => \/ Accounts(req'[r])
                                \/ incident'.status # "AWAITING_APPROVAL"
         /\ prodRuns' # prodRuns => Accounts(req'[r])
<1>1. /\ req \in [Requests -> RequestState] /\ req[r] \in RequestState
      /\ RequestOK(req[r])
  BY RequestsAreOK DEF IndInv, TypeOK, ExecutorTypeOK
<1>2. ASSUME NEW pc, NEW answer, EndRequest(r, pc, answer)
      PROVE  req'[r].pc = pc /\ req'[r].answer = answer
  BY <1>1, <1>2 DEF EndRequest, NotReceived
<1>3. CASE Settle(r)
  BY <1>3 DEF Settle, SettledStatus, UpdateIncident
<1>4. CASE StoreRaises(r) \/ RequestLost(r)
  BY <1>2, <1>4 DEF StoreRaises, RequestLost, Answer, Accounts
<1>5. CASE LogExecution(r)
  BY <1>1, <1>5 DEF LogExecution, GoOn, RequestOK, RequestState, Accounts
<1>6. CASE RunProductionSql(r)
  <2>1. PICK succeeded \in BOOLEAN :
          req' = [req EXCEPT ![r].pc = "log", ![r].succeeded = succeeded]
    BY <1>6 DEF RunProductionSql
  <2>2. req'[r].pc = "log" /\ req'[r].kind = "execute"
    BY <1>1, <1>6, <2>1 DEF RunProductionSql, RequestOK, RequestState
  <2> QED
    BY <2>2 DEF Accounts
<1>7. CASE \/ RequireAwaitingApproval(r) \/ PickLatestPatch(r) \/ LoadPatch(r)
           \/ CheckLatestAudit(r) \/ NextStepSequence(r) \/ LogDecision(r)
           \/ Receive(r)
  <2>1. /\ req[r].pc \in {"idle", "check", "pick", "load", "audit", "number",
                          "decide"}
        /\ UNCHANGED prodRuns
    BY <1>7 DEF RequireAwaitingApproval, PickLatestPatch, LoadPatch,
       CheckLatestAudit, NextStepSequence, LogDecision, Receive, ReceiveExecute,
       ReceiveReject
  <2>2. req[r].answer = "none"
    BY <2>1 DEF IndInv, UnansweredUntilDone
  <2> QED
    BY <2>1, <2>2 DEF Accounts
<1> QED
  BY <1>3, <1>4, <1>5, <1>6, <1>7 DEF Serve

\* An incident that awaits approval again after its SQL ran has a request to
\* account for it, since it never comes to await approval a second time.
LEMMA NextExcused ==
  ASSUME IndInv, UnreportedRunsAreExcused, [Next]_vars
  PROVE  UnreportedRunsAreExcused'
<1> USE DEF UnreportedRunsAreExcused
<1>1. OrchestratorTypeOK /\ req \in [Requests -> RequestState]
  BY DEF IndInv, TypeOK, ExecutorTypeOK
<1>2. CASE Orchestrate \/ (TaskLost /\ UNCHANGED executorVars)
  <2>1. UNCHANGED <<req, prodRuns>> /\ (Run \/ TaskLost)
    BY <1>2 DEF Orchestrate, executorVars
  <2>2. \/ prodRuns = <<>> \/ incident'.status = incident.status
        \/ incident'.status # "AWAITING_APPROVAL"
    BY <1>1, <2>1, OrchestratorControl DEF IndInv, DecisionsFollowConclusion, Finish
  <2> QED
    BY <2>1, <2>2
<1>3. ASSUME NEW r \in Requests,
             \/ Decide(r) \/ Request(r)
             \/ RequestLost(r) /\ UNCHANGED orch
      PROVE  UnreportedRunsAreExcused'
  <2>1. Serve(r) \/ Receive(r) \/ RequestLost(r)
    BY <1>3 DEF Decide, Request
  <2> SUFFICES ASSUME incident'.status = "AWAITING_APPROVAL", prodRuns' # <<>>
               PROVE  \E s \in Requests : Accounts(req'[s])
    BY DEF Accounts
  <2>2. UNCHANGED incident
    BY <2>1, RequestWrites
  <2>3. CASE prodRuns' # prodRuns
    BY <2>1, <2>3, AccountsGoOn
  <2>4. CASE prodRuns' = prodRuns
    <3>1. PICK s \in Requests : Accounts(req[s])
      BY <2>2, <2>4 DEF Accounts
    <3>2. CASE s = r
      BY <2>1, <3>1, <3>2, AccountsGoOn
    <3>3. CASE s # r
      <4>1. req'[s] = req[s]
        BY <1>1, <2>1, <3>3, RequestEffect
      <4> QED
        BY <3>1, <4>1
    <3> QED
      BY <3>2, <3>3
  <2> QED
    BY <2>3, <2>4
<1>4. CASE UNCHANGED vars
  BY <1>4 DEF vars, storeVars, executorVars
<1> QED
  BY <1>2, <1>3, <1>4 DEF Next, Crash, Settled

\* SQL that took effect leaves an incident awaiting approval only while it is
\* about to be reported, or because its request died or was cut off.
THEOREM UnreportedIsExcused == Spec => []UnreportedRunsAreExcused
<1>1. Init => UnreportedRunsAreExcused
  BY DEF Init, ExecutorInit, UnreportedRunsAreExcused
<1> QED
  BY <1>1, NextExcused, IndInvHolds, PTL DEF Spec

-----------------------------------------------------------------------------
(* When the promises that the code breaks are kept *)

\* Nothing but a crash or a failing store leaves a run unreported: without
\* them the incident never asks again for what was carried out.
THEOREM ReportedWithoutFaults ==
  ASSUME ~StoreFaults, ~Crashes
  PROVE  Spec => []RunsAreReported
<1> DEFINE NoExcuse == \A r \in Requests : req[r].pc # "lost" /\ req[r].answer # "raised"
<1>1. Init => NoExcuse
  BY DEF Init, ExecutorInit, NotReceived
<1>2. IndInv /\ NoExcuse /\ [Next]_vars => NoExcuse'
  <2> SUFFICES ASSUME IndInv, NoExcuse, [Next]_vars PROVE NoExcuse'
    OBVIOUS
  <2>1. req \in [Requests -> RequestState]
    BY DEF IndInv, TypeOK, ExecutorTypeOK
  <2>2. ASSUME NEW r \in Requests, Serve(r) \/ Receive(r) PROVE NoExcuse'
    <3>1. ASSUME NEW pc, NEW answer, EndRequest(r, pc, answer),
                 pc # "lost", answer # "raised"
          PROVE  NoExcuse'
      BY <2>1, <3>1 DEF EndRequest, NotReceived
    <3>2. ASSUME NEW pc, GoOn(r, pc), pc # "lost" PROVE NoExcuse'
      BY <2>1, <3>2 DEF GoOn, RequestState
    <3>3. CASE \/ RequireAwaitingApproval(r) \/ LoadPatch(r) \/ CheckLatestAudit(r)
               \/ LogDecision(r) \/ LogExecution(r) \/ Settle(r)
      BY <3>1, <3>2, <3>3
      DEF RequireAwaitingApproval, LoadPatch, CheckLatestAudit, LogDecision,
          LogExecution, Settle, SettledStatus, Answer
    <3>4. CASE PickLatestPatch(r) \/ NextStepSequence(r)
      BY <2>1, <3>1, <3>4 DEF PickLatestPatch, Answer, NextStepSequence, RequestState
    <3>5. CASE RunProductionSql(r)
      <4>1. PICK succeeded \in BOOLEAN :
              req' = [req EXCEPT ![r].pc = "log", ![r].succeeded = succeeded]
        BY <3>5 DEF RunProductionSql
      <4> QED
        BY <2>1, <4>1 DEF RequestState
    <3>6. CASE ReceiveReject(r)
      BY <2>1, <3>6 DEF ReceiveReject, RequestState
    <3>7. CASE ReceiveExecute(r)
      <4>1. PICK p : req' = [req EXCEPT ![r].pc = "check", ![r].kind = "execute",
                                        ![r].named = (p # NoPatchId), ![r].patch = p]
        BY <3>7, Zenon DEF ReceiveExecute
      <4> DEFINE named == p # NoPatchId
                 q == [req[r] EXCEPT !.pc = "check", !.kind = "execute",
                                     !.named = named, !.patch = p]
      <4>2. req' = [req EXCEPT ![r] = q]
        BY <4>1, Zenon
      <4> HIDE DEF named
      <4>3. q.pc = "check" /\ q.answer = req[r].answer
        BY <2>1 DEF RequestState
      <4> HIDE DEF q
      <4> QED
        BY <2>1, <4>2, <4>3
    <3> QED
      BY <2>2, <3>3, <3>4, <3>5, <3>6, <3>7 DEF Serve, Receive, StoreRaises
  <2> QED
    BY <2>2 DEF Next, Orchestrate, Decide, Request, Crash, TaskLost, RequestLost,
                Settled, vars, executorVars
<1>3. NoExcuse /\ UnreportedRunsAreExcused => RunsAreReported
  BY DEF UnreportedRunsAreExcused, RunsAreReported
<1> HIDE DEF NoExcuse
<1> QED
  BY <1>1, <1>2, <1>3, UnreportedIsExcused, IndInvHolds, PTL DEF Spec

\* Nothing but a second request makes SQL run after a decision.
THEOREM AloneRunsFirst ==
  ASSUME \A r, s \in Requests : r = s
  PROVE  Spec => NoRunAfterDecision
<1>1. Protocol!Spec => Protocol!NoLateRun
  BY Protocol!AloneDecidesLast
<1>2. IndInv /\ [Next]_vars
      /\ [Len(prodRuns)' # Len(prodRuns)
            => incident.status \notin {"RESOLVED", "REJECTED"}]_Protocol!vars
      => [prodRuns' # prodRuns
            => incident.status \notin {"RESOLVED", "REJECTED"}]_vars
  <2> SUFFICES ASSUME IndInv, [Next]_vars, prodRuns' # prodRuns,
                      [Len(prodRuns)' # Len(prodRuns)
                         => incident.status \notin {"RESOLVED", "REJECTED"}]_Protocol!vars
               PROVE  incident.status \notin {"RESOLVED", "REJECTED"}
    OBVIOUS
  <2>1. Len(prodRuns)' # Len(prodRuns)
    BY RunsGrow
  <2> QED
    BY <2>1 DEF Protocol!vars
<1> QED
  BY <1>1, <1>2, DecisionsAreKept, SameProtocol, IndInvHolds, PTL
  DEF Spec, NoRunAfterDecision, Protocol!NoLateRun
=============================================================================
