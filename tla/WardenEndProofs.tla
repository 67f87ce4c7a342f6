--------------------------- MODULE WardenEndProofs ---------------------------
(***************************************************************************)
(* How runs end and what is left of them, from the invariant of            *)
(* WardenIncidentProofs: BLOCK verdicts are final, a run that is over says *)
(* so, the audit trail has no gap, and governance guards pii columns.      *)
(***************************************************************************)
EXTENDS WardenIncidentProofs, WellFoundedInduction

USE DEF EndPCs, WorkingPCs, NoVerdict

-----------------------------------------------------------------------------
(* A BLOCK verdict is final *)

\* The loop has a BLOCK verdict to act on.
Blocked == orch.blocked \/ orch.result.verdict = "BLOCK"

\* The loop leaves its calls with a BLOCK verdict for StopBlocked only.
BlockStopsLoop ==
  /\ orch.pc # "result" => orch.result.verdict # "BLOCK"
  /\ orch.pc \in WorkingPCs \ {"call", "tool", "result", "turn_end"} => ~Blocked
  /\ Blocked => incident.status # "AWAITING_APPROVAL"

\* From a BLOCK verdict on: it is known, or the run is over.
Barred ==
  /\ incident.status # "AWAITING_APPROVAL"
  /\ Blocked \/ orch.pc \in EndPCs

\* What the task does to the verdict it has.
LEMMA OrchestratorBlocks ==
  ASSUME OrchestratorTypeOK, BlockStopsLoop, Run \/ TaskLost,
         orch.pc \in WorkingPCs => incident.status # "AWAITING_APPROVAL"
  PROVE  /\ BlockStopsLoop'
         /\ Barred => Barred'
<1> USE DEF OrchestratorTypeOK, BlockStopsLoop, Barred, Blocked
<1>1. ASSUME NEW pc \in EndPCs, NEW error, EndRun(pc, error)
      PROVE  orch'.pc \in EndPCs /\ orch'.blocked = orch.blocked
             /\ orch'.result.verdict = NoVerdict
  BY <1>1 DEF EndRun, OrchestratorStart, NoResult
<1>2. ASSUME NEW turn, StartTurn(turn)
      PROVE  orch'.pc = "model" /\ ~orch'.blocked /\ orch'.result.verdict = NoVerdict
  BY <1>2 DEF StartTurn, OrchestratorStart, NoResult
<1>3. CASE RunInBackground \/ StartRun
  BY <1>2, <1>3 DEF RunInBackground, StartRun, Goto, SetStatus, UpdateIncident, storeVars
<1>4. CASE ModelRetry \/ ModelConcludes \/ ModelCallsTools
  BY <1>4 DEF ModelRetry, ModelConcludes, ModelCallsTools, Goto
<1>5. CASE ModelTimesOut \/ ModelFails
  BY <1>1, <1>5 DEF ModelTimesOut, ModelFails, FailWith
<1>6. CASE ToolCall
  <2>1. CASE BeginCall
    BY <2>1 DEF BeginCall
  <2>2. ASSUME NEW status, NEW verdict, orch.pc = "tool",
               ToolReturns(status, verdict), UNCHANGED incident
        PROVE  BlockStopsLoop' /\ (Barred => Barred')
    <3>1. orch'.pc = "result" /\ orch'.blocked = orch.blocked
      BY <2>2 DEF ToolReturns
    <3> QED
      BY <2>2, <3>1
  <2>3. CASE EndCall
    <3> DEFINE blocked == orch.blocked \/ orch.result.verdict = "BLOCK"
               pc == IF orch.calls = 1 THEN "turn_end" ELSE "call"
               calls == orch.calls - 1
    <3>1. orch' = [orch EXCEPT !.pc = pc, !.calls = calls, !.blocked = blocked,
                               !.result = NoResult]
      BY <2>3, Zenon DEF EndCall
    <3>2. pc \in {"turn_end", "call"}
      OBVIOUS
    <3>3. blocked \in BOOLEAN /\ (blocked <=> Blocked)
      BY Zenon
    <3> HIDE DEF blocked, pc, calls
    <3>4. orch'.pc = pc /\ orch'.blocked = blocked /\ orch'.result = NoResult
      BY <3>1
    <3> QED
      BY <2>3, <3>2, <3>3, <3>4 DEF EndCall, NoResult
  <2> QED
    BY <1>6, <2>1, <2>2, <2>3
    DEF ToolCall, ToolWritesNothing, GenerateAndTestPatch, VerifyGovernancePolicy,
        storeVars
<1>7. CASE StopBlocked \/ ExhaustBudget
  BY <1>1, <1>7 DEF StopBlocked, ExhaustBudget, AfterFinalUpdate, UpdateIncident
<1>8. CASE NextTurn
  BY <1>2, <1>8 DEF NextTurn, Goto, UpdateIncident
<1>9. CASE EnsureGovernance \/ SkipGovernance
  BY <1>9 DEF EnsureGovernance, SkipGovernance, Goto, storeVars
<1>10. CASE Finish
  <2>1. orch.pc = "validate" /\ ~Blocked
    BY <1>10 DEF Finish
  <2> QED
    BY <1>1, <1>10, <2>1 DEF Finish, AfterFinalUpdate
<1>11. CASE ReadBack \/ Interrupted \/ Fail \/ FailIsSwallowed \/ TaskLost
  BY <1>1, <1>11 DEF ReadBack, Interrupted, FailWith, Fail, FailIsSwallowed,
                     TaskLost, UpdateIncident, storeVars
<1> QED
  BY <1>3, <1>4, <1>5, <1>6, <1>7, <1>8, <1>9, <1>10, <1>11
  DEF Run, ModelTurn, Conclude

\* A request never makes an incident await approval.
LEMMA NextBlocks ==
  ASSUME IndInv, BlockStopsLoop, [Next]_vars
  PROVE  /\ BlockStopsLoop'
         /\ Barred => Barred'
<1>1. CASE Orchestrate \/ (TaskLost /\ UNCHANGED executorVars)
  BY <1>1, OrchestratorBlocks DEF Orchestrate, IndInv, TypeOK, DecisionsFollowConclusion
<1>2. ASSUME NEW r \in Requests,
             \/ Decide(r) \/ Request(r)
             \/ RequestLost(r) /\ UNCHANGED orch
      PROVE  BlockStopsLoop' /\ (Barred => Barred')
  <2>1. incident'.status = "AWAITING_APPROVAL" => UNCHANGED incident
    BY <1>2, RequestWrites DEF Decide, Request
  <2> QED
    BY <1>2, <2>1 DEF Decide, Request, BlockStopsLoop, Barred, Blocked
<1>3. CASE UNCHANGED vars
  BY <1>3 DEF vars, storeVars, BlockStopsLoop, Barred, Blocked
<1> QED
  BY <1>1, <1>2, <1>3 DEF Next, Crash, Settled

\* A BLOCK verdict that reached the loop keeps the incident from a human for
\* ever, whatever calls follow it in the turn and however the run ends.
THEOREM BlockVerdictIsFinal == Spec => BlockIsFinal
<1>1. Init => BlockStopsLoop
  BY DEF Init, StoreInit, OrchestratorInit, OrchestratorStart, NoResult,
         BlockStopsLoop, Blocked
<1>2. IndInv /\ BlockStopsLoop /\ [Next]_vars => BlockStopsLoop'
  BY NextBlocks
<1>3. Spec => []BlockStopsLoop
  BY <1>1, <1>2, IndInvHolds, PTL DEF Spec
<1>4. IndInv /\ BlockStopsLoop /\ [Next]_vars /\ Barred => Barred'
  BY NextBlocks
<1>5. BlockStopsLoop /\ orch.result.verdict = "BLOCK" => Barred
  BY DEF BlockStopsLoop, Barred, Blocked
<1>6. Barred => incident.status # "AWAITING_APPROVAL"
  BY DEF Barred
<1> QED
  BY <1>3, <1>4, <1>5, <1>6, IndInvHolds, PTL DEF Spec, BlockIsFinal

-----------------------------------------------------------------------------
(* A run that is over says so *)

Says(status, error) == status \notin InFlight /\ (status = "FAILED" => error # "none")

\* The loop writes its verdict before it ends, and _fail knows what to say.
EndIsSaid ==
  /\ orch.pc \in {"readback", "done"} /\ ~StoreFaults =>
       Says(incident.status, incident.error)
  /\ orch.pc = "failing" => orch.error # "none"

\* The task's end says how it ended.
LEMMA OrchestratorSays ==
  ASSUME OrchestratorTypeOK, EndIsSaid, Run \/ TaskLost
  PROVE  EndIsSaid'
<1> USE DEF OrchestratorTypeOK, EndIsSaid
<1>1. ASSUME NEW pc \in EndPCs, NEW error, EndRun(pc, error)
      PROVE  orch'.pc = pc /\ orch'.error = error
  BY <1>1 DEF EndRun, OrchestratorStart
<1>2. CASE StopBlocked \/ ExhaustBudget
  BY <1>1, <1>2 DEF StopBlocked, ExhaustBudget, AfterFinalUpdate, UpdateIncident,
                    Says, InFlight
<1>3. CASE Finish
  <2>1. Says(ValidatedFinishStatus.status, ValidatedFinishStatus.error)
    BY DEF ValidatedFinishStatus, Says, InFlight
  <2> QED
    BY <1>1, <1>3, <2>1 DEF Finish, AfterFinalUpdate, UpdateIncident
<1>4. CASE ModelTimesOut \/ ModelFails \/ Interrupted
  BY <1>1, <1>4 DEF ModelTimesOut, ModelFails, Interrupted, FailWith
<1>5. CASE Fail
  BY <1>1, <1>5 DEF Fail, UpdateIncident, Says, InFlight
<1>6. CASE ReadBack \/ FailIsSwallowed \/ TaskLost
  BY <1>1, <1>6 DEF ReadBack, FailIsSwallowed, TaskLost, storeVars
<1>7. ASSUME NEW turn, StartTurn(turn) PROVE orch'.pc = "model"
  BY <1>7 DEF StartTurn, OrchestratorStart
<1>8. ASSUME NEW pc, Goto(pc) PROVE orch'.pc = pc
  BY <1>8 DEF Goto
<1>9. CASE RunInBackground \/ StartRun \/ NextTurn \/ EnsureGovernance \/ SkipGovernance
  BY <1>7, <1>8, <1>9 DEF RunInBackground, StartRun, NextTurn, EnsureGovernance,
                          SkipGovernance
<1>10. CASE ModelRetry \/ ModelConcludes \/ ModelCallsTools
  BY <1>8, <1>10 DEF ModelRetry, ModelConcludes, ModelCallsTools
<1>11. CASE ToolCall
  <2>1. ASSUME NEW status, NEW verdict, ToolReturns(status, verdict)
        PROVE  orch'.pc = "result"
    BY <2>1 DEF ToolReturns
  <2>2. CASE EndCall
    <3> DEFINE pc == IF orch.calls = 1 THEN "turn_end" ELSE "call"
               calls == orch.calls - 1
               blocked == orch.blocked \/ orch.result.verdict = "BLOCK"
    <3>1. orch' = [orch EXCEPT !.pc = pc, !.calls = calls, !.blocked = blocked,
                               !.result = NoResult]
      BY <2>2, Zenon DEF EndCall
    <3>2. pc \in {"turn_end", "call"}
      OBVIOUS
    <3> HIDE DEF pc, calls, blocked
    <3>3. orch'.pc = pc
      BY <3>1
    <3>4. orch'.pc \in {"turn_end", "call"}
      BY <3>2, <3>3
    <3> QED
      BY <3>4
  <2> QED
    BY <1>11, <2>1, <2>2
    DEF ToolCall, BeginCall, ToolWritesNothing, GenerateAndTestPatch,
        VerifyGovernancePolicy
<1> QED
  BY <1>2, <1>3, <1>4, <1>5, <1>6, <1>9, <1>10, <1>11 DEF Run, ModelTurn, Conclude

\* A run that is over has left the incident to a human or to its end, with an
\* error exactly when it failed, if the store took its last write.
THEOREM RunEndIsSaid == Spec => []RunEndLeavesFlight
<1>1. Init => EndIsSaid
  BY DEF Init, OrchestratorInit, OrchestratorStart, EndIsSaid
<1>2. IndInv /\ EndIsSaid /\ [Next]_vars => EndIsSaid'
  <2> SUFFICES ASSUME IndInv, EndIsSaid, [Next]_vars PROVE EndIsSaid'
    OBVIOUS
  <2>1. CASE Orchestrate \/ (TaskLost /\ UNCHANGED executorVars)
    BY <2>1, OrchestratorSays DEF Orchestrate, IndInv, TypeOK
  <2>2. ASSUME NEW r \in Requests,
               \/ Decide(r) \/ Request(r)
               \/ RequestLost(r) /\ UNCHANGED orch
        PROVE  EndIsSaid'
    <3>1. UNCHANGED orch
      BY <2>2 DEF Decide, Request
    <3>2. UNCHANGED incident \/ Says(incident'.status, incident'.error)
      <4>1. CASE Settle(r)
        BY <4>1 DEF Settle, SettledStatus, UpdateIncident, Says, InFlight
      <4>2. CASE ~Settle(r)
        BY <2>2, <4>2 DEF Decide, Request, Serve, Receive, RequestLost,
           ReceiveExecute, ReceiveReject, RequireAwaitingApproval, PickLatestPatch,
           LoadPatch, CheckLatestAudit, NextStepSequence, LogDecision,
           RunProductionSql, LogExecution, StoreRaises, storeVars
      <4> QED
        BY <4>1, <4>2
    <3> QED
      BY <3>1, <3>2 DEF EndIsSaid
  <2>3. CASE UNCHANGED vars
    BY <2>3 DEF vars, storeVars, EndIsSaid
  <2> QED
    BY <2>1, <2>2, <2>3 DEF Next, Crash, Settled
<1>3. EndIsSaid => RunEndLeavesFlight
  BY DEF EndIsSaid, Says, RunEndLeavesFlight
<1> QED
  BY <1>1, <1>2, <1>3, IndInvHolds, PTL DEF Spec

-----------------------------------------------------------------------------
(* Governance guards pii columns *)

\* Every audit is of a patch there is, and says what the rules say of it under
\* the labels of some dataset.
AuditsAreHonest ==
  \A a \in 1..Len(audits) :
    /\ IsPatch(audits[a].linked_patch_id)
    /\ \E dataset \in Datasets :
         audits[a].verdict = AuditVerdict(audits[a].linked_patch_id, dataset)

\* Patches are never rewritten, and audits are added one by one.
LEMMA AuditsAreWritten ==
  ASSUME StoreTypeOK, [Next]_vars
  PROVE  /\ Len(patches) <= Len(patches')
         /\ \A p \in 1..Len(patches) : patches'[p] = patches[p]
         /\ \/ UNCHANGED audits
            \/ \E p \in 1..Len(patches), dataset \in Datasets :
                 /\ UNCHANGED patches
                 /\ WriteAudit(p, AuditVerdict(p, dataset))
<1> USE DEF StoreTypeOK
<1>1. CASE Orchestrate
  <2>1. CASE GenerateAndTestPatch
    <3>1. PICK sql, validation : WritePatch(sql, validation)
      BY <2>1 DEF GenerateAndTestPatch
    <3>2. UNCHANGED audits
      BY <2>1 DEF GenerateAndTestPatch
    <3>3. patches' = Append(patches, [sql |-> sql, validation_status |-> validation])
      BY <3>1 DEF WritePatch
    <3> QED
      BY <3>2, <3>3
  <2>2. CASE VerifyGovernancePolicy
    <3>1. PICK p \in 1..Len(patches), dataset \in Datasets :
            WriteAudit(p, AuditVerdict(p, dataset))
      BY <2>2 DEF VerifyGovernancePolicy
    <3>2. UNCHANGED patches
      BY <2>2 DEF VerifyGovernancePolicy
    <3>3. Len(patches) <= Len(patches')
          /\ \A i \in 1..Len(patches) : patches'[i] = patches[i]
      BY <3>2
    <3> QED
      BY <3>1, <3>2, <3>3, Zenon
  <2>3. CASE EnsureGovernance
    <3>1. /\ WriteAudit(LatestPatch, AuditVerdict(LatestPatch, OwnDataset))
          /\ LatestPatch \in 1..Len(patches) /\ UNCHANGED patches
      BY <2>3 DEF EnsureGovernance, NeedsGovernance, IsPatch
    <3>2. Len(patches) <= Len(patches')
          /\ \A i \in 1..Len(patches) : patches'[i] = patches[i]
      BY <3>1
    <3>3. OwnDataset \in Datasets
      BY GovernanceAssumption
    <3> QED
      BY <3>1, <3>2, <3>3, Zenon
  <2>4. CASE UNCHANGED <<patches, audits>>
    BY <2>4
  <2> QED
    BY <1>1, <2>1, <2>2, <2>3, <2>4
    DEF Orchestrate, Run, RunInBackground, StartRun, ModelTurn, ModelRetry,
        ModelTimesOut, ModelFails, ModelConcludes, ModelCallsTools, ToolCall,
        BeginCall, ToolWritesNothing, EndCall, Conclude, StopBlocked, NextTurn,
        ExhaustBudget, SkipGovernance, Finish, ReadBack, Interrupted, Fail,
        FailIsSwallowed, storeVars
<1>2. CASE UNCHANGED <<patches, audits>>
  BY <1>2
<1>3. ASSUME NEW r \in Requests, Decide(r) \/ Request(r) \/ RequestLost(r)
      PROVE  UNCHANGED <<patches, audits>>
  BY <1>3 DEF Decide, Request, Serve, Receive, RequestLost, ReceiveExecute,
     ReceiveReject, RequireAwaitingApproval, PickLatestPatch, LoadPatch,
     CheckLatestAudit, NextStepSequence, LogDecision, RunProductionSql,
     LogExecution, Settle, StoreRaises, storeVars
<1> QED
  BY <1>1, <1>2, <1>3 DEF Next, Crash, Settled, TaskLost, vars, storeVars

\* Every step keeps the audits honest: each is the verdict of its patch on some
\* dataset's labels.
LEMMA HonestAudits ==
  ASSUME IndInv, AuditsAreHonest, [Next]_vars
  PROVE  AuditsAreHonest'
<1>1. StoreTypeOK
  BY DEF IndInv, TypeOK
<1>2. \A p, d : IsPatch(p) =>
        /\ p \in 1..Len(patches')
        /\ Verdict(patches'[p].sql, MetadataOf(d)) = AuditVerdict(p, d)
  BY <1>1, AuditsAreWritten DEF IsPatch, AuditVerdict, StoreTypeOK
<1>3. SUFFICES ASSUME NEW a \in 1..Len(audits')
               PROVE  LET q == audits'[a].linked_patch_id IN
                      /\ q \in 1..Len(patches')
                      /\ \E d \in Datasets :
                           audits'[a].verdict = Verdict(patches'[q].sql, MetadataOf(d))
  BY DEF AuditsAreHonest, IsPatch, AuditVerdict, MetadataOf
<1>4. CASE a \in 1..Len(audits) /\ audits'[a] = audits[a]
  BY <1>2, <1>4 DEF AuditsAreHonest
<1>5. ASSUME NEW p, NEW dataset \in Datasets, IsPatch(p),
             WriteAudit(p, AuditVerdict(p, dataset))
      PROVE  \/ a \in 1..Len(audits) /\ audits'[a] = audits[a]
             \/ /\ audits'[a].linked_patch_id = p
                /\ audits'[a].verdict = AuditVerdict(p, dataset)
  BY <1>1, <1>5 DEF WriteAudit, StoreTypeOK
<1>6. ASSUME NEW p, NEW dataset \in Datasets, IsPatch(p),
             audits'[a].linked_patch_id = p,
             audits'[a].verdict = AuditVerdict(p, dataset)
      PROVE  LET q == audits'[a].linked_patch_id IN
                      /\ q \in 1..Len(patches')
                      /\ \E d \in Datasets :
                           audits'[a].verdict = Verdict(patches'[q].sql, MetadataOf(d))
  BY <1>2, <1>6
<1> QED
  BY <1>1, <1>3, <1>4, <1>5, <1>6, AuditsAreWritten DEF IsPatch

\* The maximum of a non-empty set of places in the trail of audits.
LEMMA LatestExists ==
  ASSUME NEW n \in Nat, NEW S, S \subseteq 1..n, S # {}
  PROVE  \E i \in S : \A j \in S : j <= i
<1> DEFINE T == {n - i : i \in S}
<1>1. T \subseteq Nat /\ T # {}
  <2>1. \A i \in S : i \in 1..n /\ n - i \in Nat
    OBVIOUS
  <2>2. PICK i \in S : TRUE
    OBVIOUS
  <2>3. n - i \in T
    BY <2>2, Zenon
  <2> QED
    BY <2>1, <2>3, Zenon
<1> HIDE DEF T
<1>2. PICK m \in T : \A t \in T : <<t, m>> \notin OpToRel(<, Nat)
  BY <1>1, NatLessThanWellFounded, WFMin, Zenon
<1>3. \A t \in T : <<t, m>> \notin OpToRel(<, Nat) => ~(t < m)
  BY <1>1, Zenon DEF OpToRel
<1>4. PICK i \in S : m = n - i
  BY DEF T
<1>5. ASSUME NEW j \in S PROVE j <= i
  <2>1. ~(n - j < n - i)
    BY <1>2, <1>3, <1>4 DEF T
  <2> QED
    BY <2>1
<1> QED
  BY <1>5

\* While every audit is of the incident's own dataset, a patch that drops a
\* column of a pii table is never governed.
LEMMA OwnAuditsBlock ==
  ASSUME StoreTypeOK, AuditsAreHonest, Datasets = {OwnDataset},
         NEW p, Governed(p)
  PROVE  ~(patches[p].sql.drops_column /\ MetadataOf(OwnDataset).pii_tagged)
<1>1. SUFFICES ASSUME patches[p].sql.drops_column, MetadataOf(OwnDataset).pii_tagged
               PROVE  FALSE
  OBVIOUS
<1>2. AuditVerdict(p, OwnDataset) = "BLOCK"
  <2>1. PolicyChecks(patches[p].sql, MetadataOf(OwnDataset))["pii-drop-guard"] = "FAIL"
    BY <1>1 DEF PolicyChecks, Triggered, Severity, PolicyIds
  <2>2. "pii-drop-guard" \in DOMAIN PolicyChecks(patches[p].sql, MetadataOf(OwnDataset))
    BY DEF PolicyChecks, PolicyIds
  <2> QED
    BY <2>1, <2>2 DEF AuditVerdict, Verdict, VerdictFromChecks
<1>3. PICK a \in AuditsOf(p) : \A b \in AuditsOf(p) : b <= a
  <2>1. Len(audits) \in Nat /\ AuditsOf(p) \subseteq 1..Len(audits)
    BY LenProperties DEF StoreTypeOK, AuditsOf
  <2> QED
    BY <2>1, LatestExists DEF Governed
<1>4. audits[a].verdict = "BLOCK"
  BY <1>2, <1>3 DEF AuditsAreHonest, AuditsOf
<1> QED
  BY <1>3, <1>4 DEF Governed, LatestVerdictIs

\* Under the labels of its own dataset no incident ever drops a column of a
\* table tagged pii, whichever patch a client names.
THEOREM PiiIsGuarded == Spec => []NoPiiColumnIsDropped
<1>1. Init => AuditsAreHonest
  BY DEF Init, StoreInit, AuditsAreHonest
<1>2. IndInv /\ AuditsAreHonest /\ [Next]_vars => AuditsAreHonest'
  BY HonestAudits
<1>3. IndInv /\ AuditsAreHonest => NoPiiColumnIsDropped
  BY OwnAuditsBlock DEF IndInv, TypeOK, GovernedExecution, NoPiiColumnIsDropped
<1> QED
  BY <1>1, <1>2, <1>3, IndInvHolds, PTL DEF Spec

-----------------------------------------------------------------------------
(* The trail on Firestore has no gap *)

NoGap == \A i \in 1..Len(steps) : steps[i].step_id = i

\* How far the task's counter is ahead of the trail at each of its awaits.
TaskNumbers ==
  /\ orch.pc \in {"created", "scheduled"} => orch.ids = 0 /\ Len(steps) = 0
  /\ orch.pc = "model" => Len(steps) \in {orch.ids - 1, orch.ids}
  /\ orch.pc \in {"call", "turn_end"} => Len(steps) = orch.ids
  /\ orch.pc \in {"tool", "result"} => Len(steps) = orch.ids - 1

\* What a request knows of the trail is never ahead of it by more than one.
NumberFits(q, n) ==
  /\ q.pc = "decide" => q.step \in 1..(n + 1)
  /\ q.pc \in {"run", "log"} => q.step \in 1..n

RequestNumbers == \A r \in Requests : NumberFits(req[r], Len(steps))

Numbered == Mode = "cloud" => NoGap /\ TaskNumbers /\ RequestNumbers

\* Writing the next document, or one that is there, leaves no gap.
LEMMA AppendNumbered ==
  ASSUME Mode = "cloud", steps \in Seq(Step), NoGap,
         NEW id \in 1..(Len(steps) + 1), NEW kind, NEW status,
         AppendStep(id, kind, status)
  PROVE  /\ NoGap'
         /\ Len(steps') = IF id = Len(steps) + 1 THEN id ELSE Len(steps)
<1> DEFINE step == [step_id |-> id, kind |-> kind, status |-> status]
           replaced == [i \in DOMAIN steps |->
                          IF steps[i].step_id = id THEN step ELSE steps[i]]
<1>1. DOMAIN steps = 1..Len(steps) /\ Len(steps) \in Nat
  BY LenProperties
<1>2. CASE id = Len(steps) + 1
  <2>1. ~\E i \in DOMAIN steps : steps[i].step_id = id
    BY <1>1, <1>2 DEF NoGap
  <2>2. steps' = Append(steps, step)
    BY <2>1 DEF AppendStep
  <2>3. Len(steps') = Len(steps) + 1 /\ steps'[id] = step
        /\ \A i \in 1..Len(steps) : steps'[i] = steps[i]
    BY <1>1, <1>2, <2>2
  <2> QED
    BY <1>1, <1>2, <2>3 DEF NoGap
<1>3. CASE id \in 1..Len(steps)
  <2>1. \E i \in DOMAIN steps : steps[i].step_id = id
    BY <1>1, <1>3 DEF NoGap
  <2>2. steps' = replaced
    BY <2>1 DEF AppendStep
  <2>3. DOMAIN steps' = 1..Len(steps)
        /\ \A i \in 1..Len(steps) : steps'[i].step_id = steps[i].step_id
    BY <1>1, <2>2
  <2>4. Len(steps') = Len(steps)
    BY <1>1, <2>2
  <2> QED
    BY <1>1, <1>3, <2>3, <2>4 DEF NoGap
<1> QED
  BY <1>1, <1>2, <1>3

\* The task logs the next entry, or the one of its turn once more.
LEMMA OrchestratorNumbers ==
  ASSUME Mode = "cloud", StoreTypeOK, OrchestratorTypeOK, CountersAreSet,
         NoGap, TaskNumbers, Run \/ TaskLost
  PROVE  /\ NoGap' /\ TaskNumbers'
         /\ orch.pc \notin WorkingPCs => UNCHANGED steps
<1>0. steps \in Seq(Step) /\ Len(steps) \in Nat /\ orch.ids \in Nat
  BY OrchestratorFields, LenProperties DEF StoreTypeOK
<1> USE DEF OrchestratorTypeOK
<1>1. ASSUME UNCHANGED steps PROVE NoGap'
  BY <1>1 DEF NoGap
<1>2. ASSUME NEW pc \in EndPCs, NEW error, EndRun(pc, error) PROVE TaskNumbers'
  BY <1>2 DEF EndRun, OrchestratorStart, TaskNumbers
<1>3. ASSUME NEW turn, StartTurn(turn)
      PROVE  orch'.pc = "model" /\ orch'.ids = orch.ids + 1
  BY <1>3 DEF StartTurn, OrchestratorStart
<1>4. ASSUME NEW pc, Goto(pc) PROVE orch'.pc = pc /\ orch'.ids = orch.ids
  BY <1>4 DEF Goto
<1>5. CASE RunInBackground \/ StartRun
  BY <1>0, <1>1, <1>3, <1>4, <1>5 DEF RunInBackground, StartRun, storeVars, TaskNumbers
<1>6. CASE ModelTurn
  <2>1. /\ orch.pc = "model"
        /\ \E status : AppendStep(orch.ids, "MODEL_TURN", status)
    BY <1>6 DEF ModelTurn, ModelRetry, ModelTimesOut, ModelFails, ModelConcludes,
                ModelCallsTools
  <2>2. orch.ids \in 1..(Len(steps) + 1)
    BY <1>0, <2>1 DEF TaskNumbers, CountersAreSet
  <2>3. NoGap' /\ Len(steps') = orch.ids
    BY <1>0, <2>1, <2>2, AppendNumbered DEF TaskNumbers
  <2>4. TaskNumbers'
    <3>1. CASE ModelTimesOut \/ ModelFails
      BY <1>2, <3>1 DEF ModelTimesOut, ModelFails, FailWith
    <3>2. CASE ModelConcludes
      BY <1>4, <3>2 DEF ModelConcludes, TaskNumbers
    <3>3. CASE ModelRetry \/ ModelCallsTools
      <4>1. orch'.pc \in {"model", "call"} /\ orch'.ids = orch.ids
        BY <2>1, <3>3 DEF ModelRetry, ModelCallsTools
      <4> QED
        BY <2>3, <4>1 DEF TaskNumbers
    <3> QED
      BY <1>6, <3>1, <3>2, <3>3 DEF ModelTurn
  <2> QED
    BY <2>1, <2>3, <2>4
<1>7. CASE BeginCall
  <2>1. NoGap' /\ Len(steps') = orch.ids + 1
    BY <1>0, <1>7, AppendNumbered DEF BeginCall, TaskNumbers
  <2>2. orch.pc = "call" /\ orch'.pc = "tool" /\ orch'.ids = orch.ids + 2
    BY <1>7 DEF BeginCall
  <2> QED
    BY <1>0, <2>1, <2>2 DEF TaskNumbers
<1>8. CASE ToolWritesNothing \/ GenerateAndTestPatch \/ VerifyGovernancePolicy
  <2>1. ASSUME NEW status, NEW verdict, ToolReturns(status, verdict)
        PROVE  orch'.pc = "result" /\ orch'.ids = orch.ids
    BY <2>1 DEF ToolReturns
  <2>2. /\ orch.pc = "tool" /\ orch'.pc = "result" /\ orch'.ids = orch.ids
        /\ UNCHANGED steps
    BY <1>8, <2>1 DEF ToolWritesNothing, GenerateAndTestPatch,
                      VerifyGovernancePolicy, storeVars
  <2> QED
    BY <1>1, <2>2 DEF TaskNumbers
<1>9. CASE EndCall
  <2>1. orch.pc = "result" /\ AppendStep(orch.ids, "TOOL_RESULT", orch.result.status)
    BY <1>9 DEF EndCall
  <2>2. orch.ids \in 1..(Len(steps) + 1) /\ orch.ids = Len(steps) + 1
    BY <1>0, <2>1 DEF TaskNumbers
  <2>3. NoGap' /\ Len(steps') = orch.ids
    BY <1>0, <2>1, <2>2, AppendNumbered
  <2> DEFINE blocked == orch.blocked \/ orch.result.verdict = "BLOCK"
             pc == IF orch.calls = 1 THEN "turn_end" ELSE "call"
             calls == orch.calls - 1
  <2>4. orch' = [orch EXCEPT !.pc = pc, !.calls = calls, !.blocked = blocked,
                             !.result = NoResult]
    BY <1>9, Zenon DEF EndCall
  <2>5. pc \in {"turn_end", "call"}
    OBVIOUS
  <2> HIDE DEF blocked, pc, calls
  <2>6. orch'.pc = pc /\ orch'.ids = orch.ids
    BY <2>4
  <2> QED
    BY <2>1, <2>3, <2>5, <2>6 DEF TaskNumbers
<1>10. CASE NextTurn
  <2>1. orch.pc = "turn_end" /\ UNCHANGED steps
    BY <1>10 DEF NextTurn
  <2>2. \/ orch'.pc = "model" /\ orch'.ids = orch.ids + 1
        \/ orch'.pc = "exhausted"
    BY <1>3, <1>4, <1>10 DEF NextTurn
  <2> QED
    BY <1>0, <1>1, <2>1, <2>2 DEF TaskNumbers
<1>11. CASE EnsureGovernance \/ SkipGovernance
  BY <1>1, <1>4, <1>11 DEF EnsureGovernance, SkipGovernance, storeVars, TaskNumbers
<1>12. CASE StopBlocked \/ ExhaustBudget \/ Finish \/ ReadBack
  BY <1>1, <1>2, <1>12 DEF StopBlocked, ExhaustBudget, Finish, ReadBack,
                           AfterFinalUpdate, storeVars
<1>13. CASE Interrupted \/ Fail \/ FailIsSwallowed \/ TaskLost
  BY <1>1, <1>2, <1>13 DEF Interrupted, FailWith, Fail, FailIsSwallowed, TaskLost,
                           storeVars
<1> QED
  BY <1>5, <1>6, <1>7, <1>8, <1>9, <1>10, <1>11, <1>12, <1>13
  DEF Run, ToolCall, Conclude

\* A request logs the next entry, or replaces one that is there.
LEMMA RequestNumbersStep ==
  ASSUME IndInv, Mode = "cloud", NoGap, RequestNumbers,
         NEW r \in Requests, Serve(r) \/ Receive(r) \/ RequestLost(r)
  PROVE  /\ NoGap' /\ RequestNumbers'
         /\ UNCHANGED steps \/ orch.pc \notin WorkingPCs
<1>0. /\ steps \in Seq(Step) /\ Len(steps) \in Nat
      /\ req \in [Requests -> RequestState]
  BY LenProperties DEF IndInv, TypeOK, StoreTypeOK, ExecutorTypeOK
<1>1. PICK q \in RequestState : req' = [req EXCEPT ![r] = q] /\ RequestOK(q)
  BY RequestEffect
<1>2. q = req'[r] /\ \A s \in Requests \ {r} : req'[s] = req[s]
  BY <1>0, <1>1
<1>3. ASSUME NumberFits(q, Len(steps')), Len(steps') \in Nat,
             Len(steps) <= Len(steps')
      PROVE  RequestNumbers'
  <2>1. ASSUME NEW s \in Requests PROVE NumberFits(req'[s], Len(steps'))
    <3>1. CASE s = r
      BY <1>2, <1>3, <3>1
    <3>2. CASE s # r
      BY <1>0, <1>2, <1>3, <3>2 DEF RequestNumbers, NumberFits
    <3> QED
      BY <3>1, <3>2
  <2>2. \A s \in Requests :
          /\ req'[s].pc = "decide" => req'[s].step \in 1..(Len(steps') + 1)
          /\ req'[s].pc \in {"run", "log"} => req'[s].step \in 1..Len(steps')
    BY <2>1 DEF NumberFits
  <2> QED
    BY <2>2, Zenon DEF RequestNumbers, NumberFits
<1>4. CASE LogDecision(r) \/ LogExecution(r)
  <2>1. req[r].pc \in {"decide", "log"} /\ orch.pc \notin WorkingPCs
    BY <1>4, RequestsAreOK
    DEF LogDecision, LogExecution, RequestOK, AdmittedPCs, ApprovedPCs
  <2>2. PICK id, kind, status :
          /\ id \in 1..(Len(steps) + 1) /\ AppendStep(id, kind, status)
          /\ LogDecision(r) => id = req[r].step
    <3>1. CASE LogDecision(r)
      <4>1. req[r].step \in 1..(Len(steps) + 1)
        BY <3>1 DEF LogDecision, RequestNumbers, NumberFits
      <4> QED
        BY <3>1, <4>1 DEF LogDecision
    <3>2. CASE LogExecution(r)
      <4>1. req[r].step + 1 \in 1..(Len(steps) + 1) /\ ~LogDecision(r)
        BY <1>0, <3>2 DEF LogExecution, LogDecision, RequestNumbers, NumberFits
      <4> QED
        BY <3>2, <4>1 DEF LogExecution
    <3> QED
      BY <1>4, <3>1, <3>2
  <2>3. NoGap' /\ Len(steps') = IF id = Len(steps) + 1 THEN id ELSE Len(steps)
    BY <1>0, <2>2, AppendNumbered
  <2>4. id \in 1..(Len(steps) + 1)
    BY <2>2
  <2>5. id \in 1..Len(steps') /\ Len(steps') \in Nat /\ Len(steps) <= Len(steps')
    BY <1>0, <2>3, <2>4
  <2>6. NumberFits(q, Len(steps'))
    <3>1. CASE LogDecision(r)
      <4>1. q.step = req[r].step /\ q.pc \in {"run", "settle"}
        BY <1>0, <1>2, <3>1 DEF LogDecision, GoOn, RequestState
      <4> QED
        BY <2>2, <2>5, <3>1, <4>1 DEF NumberFits
    <3>2. CASE LogExecution(r)
      <4>1. q.pc = "settle"
        BY <1>0, <1>2, <3>2 DEF LogExecution, GoOn, RequestState
      <4> QED
        BY <4>1 DEF NumberFits
    <3> QED
      BY <1>4, <3>1, <3>2
  <2> QED
    BY <1>3, <2>1, <2>3, <2>5, <2>6
<1>5. CASE ~(LogDecision(r) \/ LogExecution(r))
  <2>1. UNCHANGED steps
    BY <1>5 DEF Serve, Receive, RequestLost, ReceiveExecute, ReceiveReject,
       RequireAwaitingApproval, PickLatestPatch, LoadPatch, CheckLatestAudit,
       NextStepSequence, RunProductionSql, Settle, StoreRaises, storeVars
  <2>2. NumberFits(q, Len(steps))
    <3>1. CASE NextStepSequence(r)
      <4>1. q.pc = "decide" /\ q.step = Len(steps) + 1
        BY <1>0, <1>2, <3>1 DEF NextStepSequence, RequestState
      <4> QED
        BY <1>0, <4>1 DEF NumberFits
    <3>2. CASE RunProductionSql(r)
      <4>1. q.pc = "log" /\ q.step = req[r].step /\ req[r].pc = "run"
        BY <1>0, <1>2, <3>2 DEF RunProductionSql, RequestState
      <4> QED
        BY <4>1 DEF RequestNumbers, NumberFits
    <3>3. CASE Receive(r) \/ RequireAwaitingApproval(r) \/ LoadPatch(r)
               \/ PickLatestPatch(r) \/ CheckLatestAudit(r)
      <4>1. ASSUME NEW pc, GoOn(r, pc) PROVE q.pc = pc
        BY <1>0, <1>2, <4>1 DEF GoOn, RequestState
      <4>2. ASSUME NEW answer, Answer(r, answer) PROVE q.pc = "done"
        BY <1>0, <1>2, <4>2 DEF Answer, EndRequest, NotReceived
      <4>3. CASE Receive(r) \/ PickLatestPatch(r)
        <5>1. CASE ReceiveExecute(r)
          <6>1. PICK p : req' = [req EXCEPT ![r].pc = "check", ![r].kind = "execute",
                                            ![r].named = (p # NoPatchId), ![r].patch = p]
            BY <5>1, Zenon DEF ReceiveExecute
          <6> DEFINE named == p # NoPatchId
          <6>2. q = [req[r] EXCEPT !.pc = "check", !.kind = "execute",
                                   !.named = named, !.patch = p]
            BY <1>0, <1>2, <6>1, Zenon
          <6> HIDE DEF named
          <6> QED
            BY <1>0, <6>2 DEF NumberFits, RequestState
        <5>2. CASE ReceiveReject(r)
          BY <1>0, <1>2, <5>2 DEF ReceiveReject, NumberFits, RequestState
        <5>3. CASE PickLatestPatch(r)
          BY <1>0, <1>2, <4>2, <5>3 DEF PickLatestPatch, NumberFits, RequestState
        <5> QED
          BY <4>3, <5>1, <5>2, <5>3 DEF Receive
      <4>4. CASE RequireAwaitingApproval(r) \/ LoadPatch(r) \/ CheckLatestAudit(r)
        <5>1. q.pc \in {"pick", "load", "audit", "number", "done"}
          BY <4>1, <4>2, <4>4 DEF RequireAwaitingApproval, LoadPatch, CheckLatestAudit
        <5> QED
          BY <5>1 DEF NumberFits
      <4> QED
        BY <3>3, <4>3, <4>4
    <3>4. CASE Settle(r) \/ StoreRaises(r) \/ RequestLost(r)
      <4>1. ASSUME NEW pc, NEW answer, EndRequest(r, pc, answer)
            PROVE  q.pc = pc
        BY <1>0, <1>2, <4>1 DEF EndRequest, NotReceived
      <4>2. q.pc \in {"done", "lost"}
        BY <3>4, <4>1 DEF Settle, StoreRaises, RequestLost, Answer
      <4> QED
        BY <4>2 DEF NumberFits
    <3> QED
      BY <1>5, <3>1, <3>2, <3>3, <3>4 DEF Serve
  <2> QED
    BY <1>0, <1>3, <2>1, <2>2 DEF NoGap
<1> QED
  BY <1>4, <1>5

\* The numbers fit in every reachable state.
LEMMA NumberedHolds == Spec => []Numbered
<1>1. Init => Numbered
  BY DEF Init, StoreInit, OrchestratorInit, OrchestratorStart, ExecutorInit,
         NotReceived, Numbered, NoGap, TaskNumbers, RequestNumbers, NumberFits
<1>2. IndInv /\ Numbered /\ [Next]_vars => Numbered'
  <2> SUFFICES ASSUME IndInv, Numbered, [Next]_vars, Mode = "cloud"
               PROVE  NoGap' /\ TaskNumbers' /\ RequestNumbers'
    BY DEF Numbered
  <2>0. NoGap /\ TaskNumbers /\ RequestNumbers
    BY DEF Numbered
  <2>1. CASE (Run \/ TaskLost) /\ UNCHANGED executorVars
    <3>1. /\ NoGap' /\ TaskNumbers'
          /\ orch.pc \notin WorkingPCs => UNCHANGED steps
      BY <2>0, <2>1, OrchestratorNumbers DEF IndInv, TypeOK
    <3>2. RequestNumbers'
      <4>1. UNCHANGED req
        BY <2>1 DEF executorVars
      <4>2. CASE orch.pc \in WorkingPCs
        <5>1. \A r \in Requests : req[r].pc \notin AdmittedPCs
          BY <4>2 DEF IndInv, DecisionsFollowConclusion
        <5> QED
          BY <4>1, <5>1 DEF RequestNumbers, NumberFits, AdmittedPCs, ApprovedPCs
      <4>3. CASE orch.pc \notin WorkingPCs
        BY <2>0, <3>1, <4>1, <4>3 DEF RequestNumbers, NumberFits
      <4> QED
        BY <4>2, <4>3
    <3> QED
      BY <3>1, <3>2
  <2>2. ASSUME NEW r \in Requests, Serve(r) \/ Receive(r) \/ RequestLost(r),
               UNCHANGED orch
        PROVE  NoGap' /\ TaskNumbers' /\ RequestNumbers'
    <3>1. /\ NoGap' /\ RequestNumbers'
          /\ UNCHANGED steps \/ orch.pc \notin WorkingPCs
      BY <2>0, <2>2, RequestNumbersStep
    <3>2. TaskNumbers'
      BY <2>0, <2>2, <3>1 DEF TaskNumbers
    <3> QED
      BY <3>1, <3>2
  <2>3. CASE UNCHANGED vars
    BY <2>0, <2>3 DEF vars, storeVars, executorVars, NoGap, TaskNumbers, RequestNumbers
  <2> QED
    BY <2>1, <2>2, <2>3 DEF Next, Crash, Settled, Orchestrate, Decide, Request
<1> QED
  BY <1>1, <1>2, IndInvHolds, PTL DEF Spec

\* Step ids on Firestore have no gap and no repetition, although the task
\* counts on its own and requests number their entries concurrently.
THEOREM FirestoreTrailIsGapless == Spec => []FirestoreTrailHasNoGap
<1>1. Numbered => FirestoreTrailHasNoGap
  BY DEF Numbered, NoGap, FirestoreTrailHasNoGap
<1> QED
  BY <1>1, NumberedHolds, PTL

-----------------------------------------------------------------------------
(* Agents and humans never replace each other's entries *)

\* What the two write is apart: the task logs while no request may, a turn's
\* entry is its own, and a request's number is past every entry of the task.
EntriesAreApart ==
  /\ orch.pc \in WorkingPCs => \A i \in 1..Len(steps) : steps[i].kind \in AgentKinds
  /\ orch.pc = "model" /\ Len(steps) = orch.ids =>
       steps[Len(steps)].kind = "MODEL_TURN"
  /\ \A r \in Requests : req[r].pc \in {"decide", "run", "log"} =>
       \A i \in 1..Len(steps) : steps[i].kind \in AgentKinds => i < req[r].step

\* The step that AgentTrailIsKept allows.
KeepsAgentTrail ==
  \A i \in DOMAIN steps :
    /\ i \in DOMAIN steps'
    /\ \/ steps[i].kind \in AgentKinds \/ steps'[i].kind \in AgentKinds
       => steps'[i].kind = steps[i].kind

\* Only the document that is named is written.
LEMMA AppendReplaces ==
  ASSUME Mode = "cloud", steps \in Seq(Step), NoGap,
         NEW id \in 1..(Len(steps) + 1), NEW kind, NEW status,
         AppendStep(id, kind, status)
  PROVE  /\ DOMAIN steps = 1..Len(steps) /\ DOMAIN steps' = 1..Len(steps')
         /\ Len(steps) \in Nat
         /\ Len(steps') = IF id = Len(steps) + 1 THEN id ELSE Len(steps)
         /\ \A i \in 1..Len(steps) : i # id => steps'[i] = steps[i]
         /\ steps'[id].kind = kind
<1> DEFINE step == [step_id |-> id, kind |-> kind, status |-> status]
           replaced == [i \in DOMAIN steps |->
                          IF steps[i].step_id = id THEN step ELSE steps[i]]
<1>0. step.kind = kind
  OBVIOUS
<1> HIDE DEF step
<1>1. DOMAIN steps = 1..Len(steps) /\ Len(steps) \in Nat
  BY LenProperties
<1>2. CASE id = Len(steps) + 1
  <2>1. ~\E i \in DOMAIN steps : steps[i].step_id = id
    BY <1>1, <1>2 DEF NoGap
  <2>2. steps' = Append(steps, step)
    BY <2>1 DEF AppendStep, step
  <2>3. Len(steps') = Len(steps) + 1 /\ steps'[id] = step
        /\ DOMAIN steps' = 1..Len(steps')
        /\ \A i \in 1..Len(steps) : steps'[i] = steps[i]
    BY <1>1, <1>2, <2>2
  <2> QED
    BY <1>0, <1>1, <1>2, <2>3
<1>3. CASE id \in 1..Len(steps)
  <2>1. \E i \in DOMAIN steps : steps[i].step_id = id
    BY <1>1, <1>3 DEF NoGap
  <2>2. steps' = replaced
    BY <2>1 DEF AppendStep, step
  <2>3. /\ DOMAIN steps' = 1..Len(steps)
        /\ \A i \in 1..Len(steps) : i # id => steps'[i] = steps[i]
        /\ steps'[id] = step
    BY <1>1, <1>3, <2>2 DEF NoGap
  <2>4. Len(steps') = Len(steps)
    BY <1>1, <2>2
  <2>5. id # Len(steps) + 1
    BY <1>1, <1>3
  <2>6. DOMAIN steps' = 1..Len(steps')
    BY <2>3, <2>4, Zenon
  <2>7. Len(steps') = IF id = Len(steps) + 1 THEN id ELSE Len(steps)
    BY <2>4, <2>5, Zenon
  <2> HIDE DEF replaced
  <2> QED
    BY <1>0, <1>1, <2>3, <2>6, <2>7, Zenon
<1> QED
  BY <1>1, <1>2, <1>3

\* The task logs the next entry, or its model turn's once more.
LEMMA TaskLogs ==
  ASSUME StoreTypeOK, OrchestratorTypeOK, TaskNumbers, Run \/ TaskLost
  PROVE  \/ /\ UNCHANGED steps
            /\ orch'.pc = "model" => Len(steps) # orch'.ids
         \/ \E id, status : \E kind \in AgentKinds :
              /\ AppendStep(id, kind, status)
              /\ orch.pc \in WorkingPCs
              /\ \/ id = Len(steps) + 1
                 \/ id = Len(steps) /\ id = orch.ids
                    /\ orch.pc = "model" /\ kind = "MODEL_TURN"
              /\ orch'.pc = "model" => kind = "MODEL_TURN"
<1>0. Len(steps) \in Nat /\ orch.ids \in Nat
  BY OrchestratorFields, LenProperties DEF StoreTypeOK
<1> USE DEF OrchestratorTypeOK, AgentKinds
<1>1. ASSUME NEW pc \in EndPCs, NEW error, EndRun(pc, error)
      PROVE  orch'.pc # "model"
  BY <1>1 DEF EndRun, OrchestratorStart
<1>2. ASSUME NEW turn, StartTurn(turn)
      PROVE  orch'.pc = "model" /\ orch'.ids = orch.ids + 1
  BY <1>2 DEF StartTurn, OrchestratorStart
<1>3. ASSUME NEW pc, Goto(pc) PROVE orch'.pc = pc
  BY <1>3 DEF Goto
<1>4. CASE RunInBackground \/ StartRun
  BY <1>0, <1>2, <1>3, <1>4 DEF RunInBackground, StartRun, storeVars, TaskNumbers
<1>5. CASE ModelTurn
  <2>1. /\ orch.pc = "model"
        /\ \E status : AppendStep(orch.ids, "MODEL_TURN", status)
    BY <1>5 DEF ModelTurn, ModelRetry, ModelTimesOut, ModelFails, ModelConcludes,
                ModelCallsTools
  <2>2. orch.ids = Len(steps) + 1 \/ orch.ids = Len(steps)
    BY <1>0, <2>1 DEF TaskNumbers
  <2> QED
    BY <2>1, <2>2
<1>6. CASE BeginCall
  <2>1. /\ orch.pc = "call" /\ orch'.pc = "tool"
        /\ AppendStep(orch.ids + 1, "TOOL_CALL", "RUNNING")
    BY <1>6 DEF BeginCall
  <2>2. orch.ids + 1 = Len(steps) + 1
    BY <1>0, <2>1 DEF TaskNumbers
  <2> QED
    BY <2>1, <2>2
<1>7. CASE ToolWritesNothing \/ GenerateAndTestPatch \/ VerifyGovernancePolicy
  <2>1. ASSUME NEW status, NEW verdict, ToolReturns(status, verdict)
        PROVE  orch'.pc = "result"
    BY <2>1 DEF ToolReturns
  <2> QED
    BY <1>7, <2>1 DEF ToolWritesNothing, GenerateAndTestPatch,
                      VerifyGovernancePolicy, storeVars
<1>8. CASE EndCall
  <2>1. orch.pc = "result" /\ AppendStep(orch.ids, "TOOL_RESULT", orch.result.status)
    BY <1>8 DEF EndCall
  <2>2. orch.ids = Len(steps) + 1
    BY <1>0, <2>1 DEF TaskNumbers
  <2> DEFINE blocked == orch.blocked \/ orch.result.verdict = "BLOCK"
             pc == IF orch.calls = 1 THEN "turn_end" ELSE "call"
             calls == orch.calls - 1
  <2>3. orch' = [orch EXCEPT !.pc = pc, !.calls = calls, !.blocked = blocked,
                             !.result = NoResult]
    BY <1>8, Zenon DEF EndCall
  <2>4. pc # "model"
    OBVIOUS
  <2> HIDE DEF blocked, pc, calls
  <2>5. orch'.pc # "model"
    BY <2>3, <2>4
  <2> QED
    BY <2>1, <2>2, <2>5
<1>9. CASE NextTurn
  <2>1. orch.pc = "turn_end" /\ UNCHANGED steps /\ Len(steps) = orch.ids
    BY <1>9 DEF NextTurn, TaskNumbers
  <2>2. \/ orch'.pc = "model" /\ orch'.ids = orch.ids + 1
        \/ orch'.pc = "exhausted"
    BY <1>2, <1>3, <1>9 DEF NextTurn
  <2> QED
    BY <1>0, <2>1, <2>2
<1>10. CASE EnsureGovernance \/ SkipGovernance
  BY <1>3, <1>10 DEF EnsureGovernance, SkipGovernance, storeVars
<1>11. CASE StopBlocked \/ ExhaustBudget \/ Finish \/ ReadBack
  BY <1>1, <1>11 DEF StopBlocked, ExhaustBudget, Finish, ReadBack,
                     AfterFinalUpdate, storeVars
<1>12. CASE Interrupted \/ Fail \/ FailIsSwallowed \/ TaskLost
  BY <1>1, <1>12 DEF Interrupted, FailWith, Fail, FailIsSwallowed, TaskLost,
                     storeVars
<1> QED
  BY <1>4, <1>5, <1>6, <1>7, <1>8, <1>9, <1>10, <1>11, <1>12
  DEF Run, ToolCall, Conclude

\* So the task keeps the entries apart and replaces none but its own.
LEMMA TaskKeepsTrail ==
  ASSUME IndInv, Mode = "cloud", NoGap, TaskNumbers, EntriesAreApart,
         Run \/ TaskLost, UNCHANGED executorVars
  PROVE  EntriesAreApart' /\ KeepsAgentTrail
<1>0. /\ StoreTypeOK /\ OrchestratorTypeOK /\ steps \in Seq(Step)
      /\ Len(steps) \in Nat /\ UNCHANGED req
  BY LenProperties DEF IndInv, TypeOK, StoreTypeOK, executorVars
<1>1. orch'.pc \in WorkingPCs => orch.pc \in WorkingPCs
  BY <1>0, OrchestratorControl
<1>2. CASE UNCHANGED steps /\ (orch'.pc = "model" => Len(steps) # orch'.ids)
  BY <1>0, <1>1, <1>2 DEF EntriesAreApart, KeepsAgentTrail
<1>3. ASSUME NEW id, NEW status, NEW kind \in AgentKinds,
             AppendStep(id, kind, status), orch.pc \in WorkingPCs,
             \/ id = Len(steps) + 1
             \/ id = Len(steps) /\ id = orch.ids
                /\ orch.pc = "model" /\ kind = "MODEL_TURN",
             orch'.pc = "model" => kind = "MODEL_TURN"
      PROVE  EntriesAreApart' /\ KeepsAgentTrail
  <2>1. id \in 1..(Len(steps) + 1)
    <3>1. CASE id = Len(steps) + 1
      BY <1>0, <3>1
    <3>2. CASE id = Len(steps) /\ id = orch.ids /\ orch.pc = "model"
      BY <1>0, <3>2 DEF IndInv, CountersAreSet
    <3> QED
      BY <1>3, <3>1, <3>2
  <2>2. /\ DOMAIN steps = 1..Len(steps) /\ DOMAIN steps' = 1..Len(steps')
        /\ Len(steps') = IF id = Len(steps) + 1 THEN id ELSE Len(steps)
        /\ \A i \in 1..Len(steps) : i # id => steps'[i] = steps[i]
        /\ steps'[id].kind = kind
    BY <1>0, <1>3, <2>1, AppendReplaces
  <2>3. Len(steps') = id
    BY <1>0, <1>3, <2>2
  <2>4. /\ \A i \in 1..Len(steps) : steps[i].kind \in AgentKinds
        /\ \A r \in Requests : req[r].pc \notin AdmittedPCs
    BY <1>3 DEF EntriesAreApart, IndInv, DecisionsFollowConclusion
  <2>5. \A i \in 1..Len(steps') : steps'[i].kind \in AgentKinds
    <3>1. ASSUME NEW i \in 1..Len(steps'), i # id PROVE i \in 1..Len(steps)
      BY <1>0, <2>2, <2>3, <3>1
    <3> QED
      BY <1>3, <2>2, <2>4, <3>1
  <2>6. EntriesAreApart'
    <3>1. orch'.pc = "model" => steps'[Len(steps')].kind = "MODEL_TURN"
      BY <1>3, <2>2, <2>3
    <3>2. \A r \in Requests : req'[r].pc \notin {"decide", "run", "log"}
      BY <1>0, <2>4 DEF AdmittedPCs, ApprovedPCs
    <3> QED
      BY <2>5, <3>1, <3>2 DEF EntriesAreApart
  <2>7. KeepsAgentTrail
    <3>1. ASSUME NEW i \in 1..Len(steps)
          PROVE  i \in 1..Len(steps') /\ steps'[i].kind = steps[i].kind
      <4>1. i \in 1..Len(steps')
        BY <1>0, <1>3, <2>3
      <4>2. CASE i # id
        BY <2>2, <4>1, <4>2
      <4>3. CASE i = id
        <5>1. id = Len(steps) /\ id = orch.ids /\ orch.pc = "model"
              /\ kind = "MODEL_TURN"
          BY <1>0, <1>3, <4>3
        <5>2. steps[i].kind = "MODEL_TURN"
          BY <4>3, <5>1 DEF EntriesAreApart
        <5> QED
          BY <2>2, <4>1, <4>3, <5>1, <5>2
      <4> QED
        BY <4>2, <4>3
    <3> QED
      BY <2>2, <3>1 DEF KeepsAgentTrail
  <2> QED
    BY <2>6, <2>7
<1> QED
  BY <1>0, <1>2, <1>3, TaskLogs

\* A request writes under its own number or the next.
LEMMA RequestKeepsTrail ==
  ASSUME IndInv, Mode = "cloud", NoGap, RequestNumbers, EntriesAreApart,
         NEW r \in Requests, Serve(r) \/ Receive(r) \/ RequestLost(r), UNCHANGED orch
  PROVE  EntriesAreApart' /\ KeepsAgentTrail
<1>0. /\ steps \in Seq(Step) /\ Len(steps) \in Nat
      /\ req \in [Requests -> RequestState] /\ req[r] \in RequestState
  BY LenProperties DEF IndInv, TypeOK, StoreTypeOK, ExecutorTypeOK
<1>1. PICK q \in RequestState : req' = [req EXCEPT ![r] = q]
  BY RequestEffect
<1>2. q = req'[r] /\ \A s \in Requests \ {r} : req'[s] = req[s]
  BY <1>0, <1>1
<1> DEFINE Past(n) == \A i \in 1..Len(steps) : steps[i].kind \in AgentKinds => i < n
<1>3. \A s \in Requests : req[s].pc \in {"decide", "run", "log"} => Past(req[s].step)
  BY DEF EntriesAreApart
<1>4. ASSUME NEW pc, GoOn(r, pc) PROVE q.pc = pc /\ q.step = req[r].step
  BY <1>0, <1>2, <1>4 DEF GoOn, RequestState
<1>5. CASE LogDecision(r) \/ LogExecution(r)
  <2>1. /\ req[r].pc \in {"decide", "log"} /\ orch.pc \notin WorkingPCs
        /\ q.pc \in {"run", "settle"}
        /\ q.pc = "run" => q.step = req[r].step
    BY <1>4, <1>5, RequestsAreOK
    DEF LogDecision, LogExecution, RequestOK, AdmittedPCs, ApprovedPCs
  <2>2. PICK id, kind, status :
          /\ AppendStep(id, kind, status) /\ kind \notin AgentKinds
          /\ id \in 1..(Len(steps) + 1) /\ req[r].step <= id
    <3>1. CASE LogDecision(r)
      <4>1. /\ req[r].step \in 1..(Len(steps) + 1) /\ req[r].step <= req[r].step
            /\ "USER_DECISION" \notin AgentKinds
        BY <1>0, <3>1 DEF LogDecision, RequestNumbers, NumberFits, AgentKinds
      <4> QED
        BY <3>1, <4>1 DEF LogDecision
    <3>2. CASE LogExecution(r)
      <4>1. /\ req[r].step + 1 \in 1..(Len(steps) + 1)
            /\ req[r].step <= req[r].step + 1
            /\ "EXECUTION" \notin AgentKinds
        BY <1>0, <3>2 DEF LogExecution, RequestNumbers, NumberFits, AgentKinds
      <4> QED
        BY <3>2, <4>1 DEF LogExecution
    <3> QED
      BY <1>5, <3>1, <3>2
  <2>3. /\ DOMAIN steps = 1..Len(steps) /\ DOMAIN steps' = 1..Len(steps')
        /\ Len(steps') = IF id = Len(steps) + 1 THEN id ELSE Len(steps)
        /\ \A i \in 1..Len(steps) : i # id => steps'[i] = steps[i]
        /\ steps'[id].kind = kind
    BY <1>0, <2>2, AppendReplaces
  <2>4. \A i \in 1..Len(steps) : steps[i].kind \in AgentKinds => i # id
    <3>1. req[r].step \in Nat
      BY <1>0 DEF RequestState
    <3> QED
      BY <1>0, <1>3, <2>1, <2>2, <3>1
  <2>5. ASSUME NEW i \in 1..Len(steps'), steps'[i].kind \in AgentKinds
        PROVE  i \in 1..Len(steps) /\ steps[i].kind \in AgentKinds
    <3>1. i # id
      BY <2>2, <2>3, <2>5
    <3>2. i \in 1..Len(steps)
      BY <1>0, <2>3, <3>1
    <3> QED
      BY <2>3, <2>5, <3>1, <3>2
  <2>6. ASSUME NEW s \in Requests, req'[s].pc \in {"decide", "run", "log"},
               NEW i \in 1..Len(steps'), steps'[i].kind \in AgentKinds
        PROVE  i < req'[s].step
    <3>1. i \in 1..Len(steps) /\ steps[i].kind \in AgentKinds
      BY <2>5, <2>6
    <3>2. CASE s = r
      BY <1>2, <1>3, <2>1, <2>6, <3>1, <3>2
    <3>3. CASE s # r
      BY <1>2, <1>3, <2>6, <3>1, <3>3
    <3> QED
      BY <3>2, <3>3
  <2>7. EntriesAreApart'
    BY <2>1, <2>6 DEF EntriesAreApart
  <2>8. KeepsAgentTrail
    <3>1. ASSUME NEW i \in 1..Len(steps)
          PROVE  /\ i \in 1..Len(steps')
                 /\ steps[i].kind \in AgentKinds \/ steps'[i].kind \in AgentKinds
                    => steps'[i].kind = steps[i].kind
      <4>1. i \in 1..Len(steps')
        BY <1>0, <2>3
      <4>2. CASE i = id
        BY <2>2, <2>3, <2>4, <4>1, <4>2
      <4>3. CASE i # id
        BY <2>3, <4>1, <4>3
      <4> QED
        BY <4>2, <4>3
    <3> QED
      BY <2>3, <3>1 DEF KeepsAgentTrail
  <2> QED
    BY <2>7, <2>8
<1>6. CASE ~(LogDecision(r) \/ LogExecution(r))
  <2>1. UNCHANGED steps
    BY <1>6 DEF Serve, Receive, RequestLost, ReceiveExecute, ReceiveReject,
       RequireAwaitingApproval, PickLatestPatch, LoadPatch, CheckLatestAudit,
       NextStepSequence, RunProductionSql, Settle, StoreRaises, storeVars
  <2>2. q.pc \in {"decide", "run", "log"} => Past(q.step)
    <3>1. CASE NextStepSequence(r)
      <4>1. q.step = Len(steps) + 1
        BY <1>0, <1>2, <3>1 DEF NextStepSequence, RequestState
      <4> QED
        BY <1>0, <4>1
    <3>2. CASE RunProductionSql(r)
      <4>1. q.step = req[r].step /\ req[r].pc = "run"
        BY <1>0, <1>2, <3>2 DEF RunProductionSql, RequestState
      <4> QED
        BY <1>3, <4>1
    <3>3. CASE Receive(r) \/ PickLatestPatch(r) \/ RequireAwaitingApproval(r)
               \/ LoadPatch(r) \/ CheckLatestAudit(r) \/ Settle(r)
               \/ StoreRaises(r) \/ RequestLost(r)
      <4>1. ASSUME NEW pc, NEW answer, EndRequest(r, pc, answer) PROVE q.pc = pc
        BY <1>0, <1>2, <4>1 DEF EndRequest, NotReceived
      <4>2. CASE ReceiveExecute(r)
        <5>1. PICK p : req' = [req EXCEPT ![r].pc = "check", ![r].kind = "execute",
                                          ![r].named = (p # NoPatchId), ![r].patch = p]
          BY <4>2, Zenon DEF ReceiveExecute
        <5> DEFINE named == p # NoPatchId
        <5>2. q = [req[r] EXCEPT !.pc = "check", !.kind = "execute",
                                 !.named = named, !.patch = p]
          BY <1>0, <1>2, <5>1, Zenon
        <5> HIDE DEF named
        <5> QED
          BY <1>0, <5>2 DEF RequestState
      <4>3. CASE ReceiveReject(r)
        BY <1>0, <1>2, <4>3 DEF ReceiveReject, RequestState
      <4>4. CASE PickLatestPatch(r)
        BY <1>0, <1>2, <4>1, <4>4 DEF PickLatestPatch, Answer, RequestState
      <4>5. CASE RequireAwaitingApproval(r) \/ LoadPatch(r) \/ CheckLatestAudit(r)
        <5>1. q.pc \in {"pick", "load", "audit", "number", "done"}
          BY <1>4, <4>1, <4>5
          DEF RequireAwaitingApproval, LoadPatch, CheckLatestAudit, Answer
        <5> QED
          BY <5>1
      <4>6. CASE Settle(r) \/ StoreRaises(r) \/ RequestLost(r)
        <5>1. q.pc \in {"done", "lost"}
          BY <4>1, <4>6 DEF Settle, StoreRaises, RequestLost, Answer
        <5> QED
          BY <5>1
      <4> QED
        BY <3>3, <4>2, <4>3, <4>4, <4>5, <4>6 DEF Receive
    <3> QED
      BY <1>6, <3>1, <3>2, <3>3 DEF Serve
  <2>3. \A s \in Requests : req'[s].pc \in {"decide", "run", "log"} => Past(req'[s].step)
    BY <1>2, <1>3, <2>2
  <2>4. EntriesAreApart'
    BY <2>1, <2>3 DEF EntriesAreApart
  <2> QED
    BY <2>1, <2>4 DEF KeepsAgentTrail
<1> QED
  BY <1>5, <1>6

\* In memory the trail is a list, and keeps every entry.
LEMMA LocalTrailIsKept ==
  ASSUME IndInv, Mode = "local", [Next]_vars
  PROVE  KeepsAgentTrail
<1>1. steps \in Seq(Step) /\ DOMAIN steps = 1..Len(steps) /\ Len(steps) \in Nat
  BY LenProperties DEF IndInv, TypeOK, StoreTypeOK
<1>2. ASSUME NEW id, NEW kind, NEW status, AppendStep(id, kind, status)
      PROVE  KeepsAgentTrail
  <2> DEFINE step == [step_id |-> id, kind |-> kind, status |-> status]
  <2>1. steps' = Append(steps, step)
    BY <1>2 DEF AppendStep
  <2> HIDE DEF step
  <2>2. /\ DOMAIN steps' = 1..(Len(steps) + 1)
        /\ \A i \in 1..Len(steps) : steps'[i] = steps[i]
    BY <1>1, <2>1
  <2> QED
    BY <1>1, <2>2 DEF KeepsAgentTrail
<1>3. CASE UNCHANGED steps
  BY <1>3 DEF KeepsAgentTrail
<1>4. CASE Run
  BY <1>2, <1>3, <1>4
  DEF Run, RunInBackground, StartRun, ModelTurn, ModelRetry, ModelTimesOut,
      ModelFails, ModelConcludes, ModelCallsTools, ToolCall, BeginCall,
      ToolWritesNothing, GenerateAndTestPatch, VerifyGovernancePolicy, EndCall,
      Conclude, StopBlocked, NextTurn, ExhaustBudget, EnsureGovernance,
      SkipGovernance, Finish, ReadBack, Interrupted, Fail, FailIsSwallowed, storeVars
<1>5. ASSUME NEW r \in Requests, Serve(r) \/ Receive(r)
      PROVE  KeepsAgentTrail
  BY <1>2, <1>3, <1>5
  DEF Serve, Receive, ReceiveExecute, ReceiveReject, RequireAwaitingApproval,
      PickLatestPatch, LoadPatch, CheckLatestAudit, NextStepSequence, LogDecision,
      RunProductionSql, LogExecution, Settle, StoreRaises, storeVars
<1>6. CASE Crash \/ UNCHANGED vars
  BY <1>3, <1>6 DEF Crash, TaskLost, RequestLost, vars, storeVars
<1> QED
  BY <1>4, <1>5, <1>6 DEF Next, Orchestrate, Decide, Request, Settled

\* On Firestore the numbers keep the entries apart.
LEMMA CloudTrailIsKept ==
  ASSUME IndInv, Mode = "cloud", Numbered, EntriesAreApart, [Next]_vars
  PROVE  EntriesAreApart' /\ KeepsAgentTrail
<1>0. NoGap /\ TaskNumbers /\ RequestNumbers
  BY DEF Numbered
<1>1. CASE (Run \/ TaskLost) /\ UNCHANGED executorVars
  BY <1>0, <1>1, TaskKeepsTrail
<1>2. ASSUME NEW r \in Requests, Serve(r) \/ Receive(r) \/ RequestLost(r),
             UNCHANGED orch
      PROVE  EntriesAreApart' /\ KeepsAgentTrail
  BY <1>0, <1>2, RequestKeepsTrail
<1>3. CASE UNCHANGED vars
  BY <1>3 DEF vars, storeVars, executorVars, EntriesAreApart, KeepsAgentTrail
<1> QED
  BY <1>1, <1>2, <1>3 DEF Next, Crash, Settled, Orchestrate, Decide, Request

\* The trail of the agents' work is not lost under a human's entry, nor the
\* other way round, whichever wrote the document first (append_step).
THEOREM AgentsTrailIsKept == Spec => AgentTrailIsKept
<1>1. Init => (Mode = "cloud" => EntriesAreApart)
  BY DEF Init, StoreInit, OrchestratorInit, OrchestratorStart, ExecutorInit,
         NotReceived, EntriesAreApart
<1>2. IndInv /\ Numbered /\ (Mode = "cloud" => EntriesAreApart) /\ [Next]_vars
        => (Mode = "cloud" => EntriesAreApart)' /\ KeepsAgentTrail
  BY LocalTrailIsKept, CloudTrailIsKept, ModeAssumption
<1>3. KeepsAgentTrail =>
        \A i \in DOMAIN steps :
          /\ i \in DOMAIN steps'
          /\ \/ steps[i].kind \in AgentKinds \/ steps'[i].kind \in AgentKinds
             => steps'[i].kind = steps[i].kind
  BY DEF KeepsAgentTrail
<1> QED
  BY <1>1, <1>2, <1>3, IndInvHolds, NumberedHolds, PTL DEF Spec, AgentTrailIsKept

-----------------------------------------------------------------------------
(* A run takes a bounded number of steps *)

\* The loop counts its turns, attempts and calls within their bounds.
LoopBounds ==
  /\ orch.pc \in {"model", "call", "tool", "result", "turn_end"} =>
       orch.turn \in 1..MaxTurns
  /\ orch.pc = "model" => orch.attempt \in 1..MaxAttempts
  /\ orch.pc \in {"call", "tool", "result"} => orch.calls \in 1..MaxCalls

\* A turn that is over is worth one turn of those that were left.
LEMMA OneTurnLess ==
  ASSUME NEW turns \in Nat \ {0}, NEW work \in Nat
  PROVE  (turns - 1) * work \in Nat /\ turns * work = (turns - 1) * work + work
OBVIOUS

LEMMA TurnWorkType == TurnWork \in Nat /\ TurnWork = MaxAttempts + 3 * MaxCalls + 2
BY LoopAssumption DEF TurnWork

LEMMA TurnsLeftType ==
  ASSUME NEW turn \in 1..MaxTurns
  PROVE  (MaxTurns - turn) * TurnWork \in Nat
BY LoopAssumption, TurnWorkType

\* StepsLeft, place by place.
StepsTable ==
  /\ orch.pc = "created"   => StepsLeft = 6 + MaxTurns * TurnWork
  /\ orch.pc = "scheduled" => StepsLeft = 5 + MaxTurns * TurnWork
  /\ orch.pc = "model"     => StepsLeft = 5 + TurnsLeft + 3 * MaxCalls + 2
                                           + (MaxAttempts - orch.attempt)
  /\ orch.pc = "call"      => StepsLeft = 5 + TurnsLeft + 3 * orch.calls + 1
  /\ orch.pc = "tool"      => StepsLeft = 5 + TurnsLeft + 3 * orch.calls
  /\ orch.pc = "result"    => StepsLeft = 5 + TurnsLeft + 3 * orch.calls - 1
  /\ orch.pc = "turn_end"  => StepsLeft = 5 + TurnsLeft + 1
  /\ orch.pc = "ensure"    => StepsLeft = 4
  /\ orch.pc \in {"validate", "exhausted"} => StepsLeft = 3
  /\ orch.pc = "readback"  => StepsLeft = 2
  /\ orch.pc = "failing"   => StepsLeft = 1
  /\ orch.pc \in {"done", "lost"} => StepsLeft = 0

LEMMA StepsAtPlaces == StepsTable /\ StepsTable'
BY DEF StepsTable, StepsLeft

\* The first turn begins ...
LEMMA RunBegins ==
  ASSUME orch.pc = "scheduled", orch'.pc = "model", orch'.turn = 1, orch'.attempt = 1
  PROVE  StepsLeft' \in 0 .. (StepsLeft - 1)
<1>1. MaxTurns * TurnWork = TurnsLeft' + TurnWork /\ TurnsLeft' \in Nat
  BY LoopAssumption, TurnWorkType, OneTurnLess DEF TurnsLeft
<1>2. StepsLeft = 5 + MaxTurns * TurnWork
  BY StepsAtPlaces DEF StepsTable
<1>3. StepsLeft' = 5 + TurnsLeft' + 3 * MaxCalls + 2 + (MaxAttempts - 1)
  BY StepsAtPlaces DEF StepsTable
<1> DEFINE after == StepsLeft'
           left  == TurnsLeft'
<1>4. after \in Nat /\ 5 + (left + TurnWork) = after + 1
  <2>1. left \in Nat /\ after = 5 + left + 3 * MaxCalls + 2 + (MaxAttempts - 1)
    BY <1>1, <1>3
  <2> HIDE DEF after, left
  <2> QED
    BY <2>1, LoopAssumption, TurnWorkType
<1> HIDE DEF after
<1>5. StepsLeft = after + 1
  BY <1>1, <1>2, <1>4
<1>6. after \in 0 .. (StepsLeft - 1)
  BY <1>4, <1>5
<1> QED
  BY <1>6 DEF after

\* ... and the next one.
LEMMA TurnPasses ==
  ASSUME orch.pc = "turn_end", orch'.pc = "model", orch'.attempt = 1,
         orch.turn \in 1..MaxTurns, orch.turn < MaxTurns, orch'.turn = orch.turn + 1
  PROVE  StepsLeft' \in 0 .. (StepsLeft - 1)
<1>1. TurnsLeft' \in Nat /\ TurnsLeft = TurnsLeft' + TurnWork
  <2>1. MaxTurns - orch.turn \in Nat \ {0}
    BY LoopAssumption
  <2>2. MaxTurns - (orch.turn + 1) = (MaxTurns - orch.turn) - 1
    BY LoopAssumption
  <2>3. /\ ((MaxTurns - orch.turn) - 1) * TurnWork \in Nat
        /\ (MaxTurns - orch.turn) * TurnWork
             = ((MaxTurns - orch.turn) - 1) * TurnWork + TurnWork
    BY <2>1, TurnWorkType, OneTurnLess
  <2>4. /\ TurnsLeft = (MaxTurns - orch.turn) * TurnWork
        /\ TurnsLeft' = ((MaxTurns - orch.turn) - 1) * TurnWork
    BY <2>2 DEF TurnsLeft
  <2> QED
    BY <2>3, <2>4
<1>2. StepsLeft = 5 + TurnsLeft + 1
  BY StepsAtPlaces DEF StepsTable
<1>3. StepsLeft' = 5 + TurnsLeft' + 3 * MaxCalls + 2 + (MaxAttempts - 1)
  BY StepsAtPlaces DEF StepsTable
<1> DEFINE after == StepsLeft'
           left  == TurnsLeft'
<1>4. after \in Nat /\ 5 + (left + TurnWork) = after + 1
  <2>1. left \in Nat /\ after = 5 + left + 3 * MaxCalls + 2 + (MaxAttempts - 1)
    BY <1>1, <1>3
  <2> HIDE DEF after, left
  <2> QED
    BY <2>1, LoopAssumption, TurnWorkType
<1> HIDE DEF after
<1>5. StepsLeft = after + 2
  BY <1>1, <1>2, <1>4
<1>6. after \in 0 .. (StepsLeft - 1)
  BY <1>4, <1>5
<1> QED
  BY <1>6 DEF after

\* Whatever the task does uses up some of what it may still do, and no counter
\* leaves its bounds.
LEMMA TaskUsesUp ==
  ASSUME OrchestratorTypeOK, LoopBounds, Run
  PROVE  LoopBounds' /\ StepsLeft' \in 0 .. (StepsLeft - 1)
<1> USE StepsAtPlaces DEF OrchestratorTypeOK, StepsTable, LoopBounds
<1>0. /\ MaxTurns \in Nat \ {0} /\ MaxAttempts \in Nat \ {0}
      /\ MaxCalls \in Nat \ {0}
      /\ TurnWork \in Nat /\ TurnWork = MaxAttempts + 3 * MaxCalls + 2
      /\ MaxTurns * TurnWork \in Nat
  BY LoopAssumption, TurnWorkType, OneTurnLess
<1>1. orch.pc \in {"model", "call", "tool", "result", "turn_end"} =>
        TurnsLeft \in Nat
  BY TurnsLeftType DEF TurnsLeft
<1>2. ASSUME NEW pc, NEW error, EndRun(pc, error) PROVE orch'.pc = pc
  BY <1>2 DEF EndRun, OrchestratorStart
<1>3. ASSUME NEW pc, Goto(pc)
      PROVE  /\ orch'.pc = pc /\ orch'.turn = orch.turn
             /\ orch'.calls = orch.calls /\ orch'.attempt = orch.attempt
  BY <1>3 DEF Goto
<1>4. ASSUME NEW turn, StartTurn(turn)
      PROVE  orch'.pc = "model" /\ orch'.turn = turn /\ orch'.attempt = 1
  BY <1>4 DEF StartTurn, OrchestratorStart
<1>5. CASE RunInBackground
  BY <1>0, <1>3, <1>5 DEF RunInBackground
<1>6. CASE StartRun
  <2>1. /\ orch.pc = "scheduled" /\ orch'.pc = "model"
        /\ orch'.turn = 1 /\ orch'.attempt = 1
    BY <1>4, <1>6 DEF StartRun
  <2> QED
    BY <1>0, <2>1, RunBegins
<1>7. CASE ModelRetry
  <2>1. /\ orch.pc = "model" /\ orch.attempt \in Nat /\ orch.attempt < MaxAttempts
        /\ orch'.pc = "model" /\ orch'.attempt = orch.attempt + 1
        /\ orch'.turn = orch.turn
    BY <1>7, OrchestratorFields DEF ModelRetry
  <2>2. TurnsLeft' = TurnsLeft
    BY <2>1 DEF TurnsLeft
  <2> QED
    BY <1>0, <1>1, <2>1, <2>2
<1>8. CASE ModelCallsTools
  <2>1. PICK n \in 1..MaxCalls :
          orch' = [orch EXCEPT !.pc = "call", !.calls = n]
    BY <1>8 DEF ModelCallsTools
  <2>2. /\ orch.pc = "model" /\ orch'.pc = "call" /\ orch'.calls = n
        /\ orch'.turn = orch.turn
    BY <1>8, <2>1 DEF ModelCallsTools
  <2>3. TurnsLeft' = TurnsLeft
    BY <2>2 DEF TurnsLeft
  <2> QED
    BY <1>0, <1>1, <2>2, <2>3
<1>9. CASE BeginCall \/ ToolWritesNothing \/ GenerateAndTestPatch
           \/ VerifyGovernancePolicy
  <2>1. /\ \/ orch.pc = "call" /\ orch'.pc = "tool"
           \/ orch.pc = "tool" /\ orch'.pc = "result"
        /\ orch'.turn = orch.turn /\ orch'.calls = orch.calls
    BY <1>9 DEF BeginCall, ToolWritesNothing, GenerateAndTestPatch,
                VerifyGovernancePolicy, ToolReturns
  <2>2. TurnsLeft' = TurnsLeft
    BY <2>1 DEF TurnsLeft
  <2> QED
    BY <1>0, <1>1, <2>1, <2>2
<1>10. CASE EndCall
  <2> DEFINE blocked == orch.blocked \/ orch.result.verdict = "BLOCK"
             pc == IF orch.calls = 1 THEN "turn_end" ELSE "call"
             calls == orch.calls - 1
  <2>1. orch' = [orch EXCEPT !.pc = pc, !.calls = calls, !.blocked = blocked,
                             !.result = NoResult]
    BY <1>10, Zenon DEF EndCall
  <2>2. orch.pc = "result"
    BY <1>10 DEF EndCall
  <2> HIDE DEF blocked
  <2>3. orch'.pc = pc /\ orch'.turn = orch.turn /\ orch'.calls = calls
    BY <2>1
  <2>4. TurnsLeft' = TurnsLeft
    BY <2>3 DEF TurnsLeft
  <2> QED
    BY <1>0, <1>1, <2>2, <2>3, <2>4
<1>11. CASE NextTurn
  <2>1. orch.pc = "turn_end" /\ orch.turn \in 1..MaxTurns
    BY <1>11 DEF NextTurn
  <2>2. CASE orch.turn < MaxTurns
    <3>1. orch'.pc = "model" /\ orch'.turn = orch.turn + 1 /\ orch'.attempt = 1
      BY <1>4, <1>11, <2>2 DEF NextTurn
    <3> QED
      BY <1>0, <2>1, <2>2, <3>1, TurnPasses
  <2>3. CASE ~(orch.turn < MaxTurns)
    <3>1. orch'.pc = "exhausted"
      BY <1>3, <1>11, <2>3 DEF NextTurn
    <3> QED
      BY <1>1, <2>1, <3>1
  <2> QED
    BY <2>2, <2>3
<1>12. ASSUME orch'.pc \in {"ensure", "validate", "exhausted", "readback",
                           "failing", "done"},
              StepsLeft' < StepsLeft, StepsLeft \in Nat
       PROVE  LoopBounds' /\ StepsLeft' \in 0 .. (StepsLeft - 1)
  BY <1>12
<1>13. StepsLeft \in Nat
  <2>1. /\ orch.calls \in Nat /\ orch.attempt \in Nat
        /\ orch.pc \in WorkingPCs \cup EndPCs
    BY OrchestratorFields
  <2> QED
    BY <1>0, <1>1, <2>1
<1>14. orch.pc \in WorkingPCs => StepsLeft >= 3
  <2>1. orch.calls \in Nat /\ orch.attempt \in Nat
    BY OrchestratorFields
  <2> QED
    BY <1>0, <1>1, <2>1
<1>15. CASE ModelTimesOut \/ ModelFails
  BY <1>2, <1>12, <1>13, <1>14, <1>15 DEF ModelTimesOut, ModelFails, FailWith
<1>16. CASE ModelConcludes
  <2>1. orch.pc = "model" /\ orch'.pc = "ensure"
    BY <1>3, <1>16 DEF ModelConcludes
  <2> QED
    BY <1>0, <1>1, <2>1
<1>17. CASE EnsureGovernance \/ SkipGovernance
  BY <1>3, <1>17 DEF EnsureGovernance, SkipGovernance
<1>18. CASE StopBlocked \/ ExhaustBudget \/ Finish
  BY <1>2, <1>12, <1>13, <1>14, <1>18 DEF StopBlocked, ExhaustBudget, Finish, AfterFinalUpdate
<1>19. CASE ReadBack \/ Fail \/ FailIsSwallowed
  BY <1>2, <1>19 DEF ReadBack, Fail, FailIsSwallowed
<1>20. CASE Interrupted
  BY <1>2, <1>12, <1>13, <1>14, <1>20 DEF Interrupted, FailWith, SuspendedPCs
<1> QED
  BY <1>5, <1>6, <1>7, <1>8, <1>9, <1>10, <1>11, <1>15, <1>16, <1>17, <1>18, <1>19,
     <1>20 DEF Run, ModelTurn, ToolCall, Conclude

\* The calls of a request, place by place.
LEMMA CallsTable ==
  /\ CallsLeft("check") = 9 /\ CallsLeft("pick") = 8 /\ CallsLeft("load") = 7
  /\ CallsLeft("audit") = 6 /\ CallsLeft("number") = 5 /\ CallsLeft("decide") = 4
  /\ CallsLeft("run") = 3 /\ CallsLeft("log") = 2 /\ CallsLeft("settle") = 1
  /\ CallsLeft("done") = 0
BY DEF CallsLeft, RestingPCs

\* A request goes forward with every call it makes.
LEMMA RequestUsesUp ==
  ASSUME ExecutorTypeOK, NEW r \in Requests, Serve(r)
  PROVE  CallsLeft(req'[r].pc) \in 0 .. (CallsLeft(req[r].pc) - 1)
<1>1. req[r] \in RequestState /\ req[r].pc \in RequestPCs
  BY DEF ExecutorTypeOK, RequestState
<1>2. ASSUME NEW answer, Answer(r, answer) PROVE req'[r].pc = "done"
  BY <1>2 DEF Answer, EndRequest, NotReceived, ExecutorTypeOK
<1>3. ASSUME NEW pc, GoOn(r, pc) PROVE req'[r].pc = pc
  BY <1>1, <1>3 DEF GoOn, ExecutorTypeOK, RequestState
<1>4. CASE RequireAwaitingApproval(r)
  <2>1. req[r].pc = "check" /\ req'[r].pc \in {"done", "number", "load", "pick"}
    BY <1>2, <1>3, <1>4 DEF RequireAwaitingApproval
  <2> QED
    BY <2>1, CallsTable
<1>5. CASE PickLatestPatch(r)
  <2>1. req[r].pc = "pick" /\ req'[r].pc \in {"done", "load"}
    BY <1>1, <1>2, <1>5 DEF PickLatestPatch, ExecutorTypeOK, RequestState
  <2> QED
    BY <2>1, CallsTable
<1>6. CASE LoadPatch(r) \/ CheckLatestAudit(r)
  <2>1. \/ req[r].pc = "load" /\ req'[r].pc \in {"done", "audit"}
        \/ req[r].pc = "audit" /\ req'[r].pc \in {"done", "number"}
    BY <1>2, <1>3, <1>6 DEF LoadPatch, CheckLatestAudit
  <2> QED
    BY <2>1, CallsTable
<1>7. CASE NextStepSequence(r) \/ RunProductionSql(r)
  <2>1. \/ req[r].pc = "number" /\ req'[r].pc = "decide"
        \/ req[r].pc = "run" /\ req'[r].pc = "log"
    BY <1>1, <1>7 DEF NextStepSequence, RunProductionSql, ExecutorTypeOK, RequestState
  <2> QED
    BY <2>1, CallsTable
<1>8. CASE LogDecision(r) \/ LogExecution(r)
  <2>1. \/ req[r].pc = "decide" /\ req'[r].pc \in {"run", "settle"}
        \/ req[r].pc = "log" /\ req'[r].pc = "settle"
    BY <1>3, <1>8 DEF LogDecision, LogExecution
  <2> QED
    BY <2>1, CallsTable
<1>9. CASE Settle(r) \/ StoreRaises(r)
  <2>1. req[r].pc \in RequestPCs \ RestingPCs /\ req'[r].pc = "done"
    BY <1>1, <1>2, <1>9 DEF Settle, StoreRaises, RestingPCs
  <2> QED
    BY <2>1, CallsTable DEF RequestPCs, ApprovedPCs
<1> QED
  BY <1>4, <1>5, <1>6, <1>7, <1>8, <1>9 DEF Serve

\* The counters stay within their bounds, and are what StepsAreBounded asks
\* of them.
LEMMA EveryStepUsesUp ==
  ASSUME IndInv, LoopBounds, [Next]_vars
  PROVE  /\ LoopBounds'
         /\ Orchestrate => StepsLeft' \in 0 .. (StepsLeft - 1)
         /\ \A r \in Requests :
              Decide(r) => CallsLeft(req'[r].pc) \in 0 .. (CallsLeft(req[r].pc) - 1)
<1>1. OrchestratorTypeOK /\ ExecutorTypeOK
  BY DEF IndInv, TypeOK
<1>2. Orchestrate => LoopBounds' /\ StepsLeft' \in 0 .. (StepsLeft - 1)
  BY <1>1, TaskUsesUp DEF Orchestrate
<1>3. \A r \in Requests :
        Decide(r) => CallsLeft(req'[r].pc) \in 0 .. (CallsLeft(req[r].pc) - 1)
  BY <1>1, RequestUsesUp DEF Decide
<1>4. UNCHANGED orch => LoopBounds'
  BY DEF LoopBounds
<1>5. TaskLost => LoopBounds'
  BY DEF TaskLost, EndRun, OrchestratorStart, LoopBounds
<1> QED
  BY <1>2, <1>3, <1>4, <1>5 DEF Next, Decide, Request, Crash, Settled, vars

\* However the model, the tools and the clock behave, the task has at most
\* 6 + MaxTurns * TurnWork steps before it and a request at most nine: nothing
\* the agents or a human's request do can go on for ever (StepsAreBounded).
THEOREM StepsBounded == Spec => StepsAreBounded
<1>1. Init => LoopBounds
  BY DEF Init, OrchestratorInit, OrchestratorStart, LoopBounds
<1>2. IndInv /\ LoopBounds /\ [Next]_vars =>
        /\ LoopBounds'
        /\ Orchestrate => StepsLeft' \in 0 .. (StepsLeft - 1)
        /\ \A r \in Requests :
             Decide(r) => CallsLeft(req'[r].pc) \in 0 .. (CallsLeft(req[r].pc) - 1)
  BY EveryStepUsesUp
<1> QED
  BY <1>1, <1>2, IndInvHolds, PTL DEF Spec, StepsAreBounded
=============================================================================
