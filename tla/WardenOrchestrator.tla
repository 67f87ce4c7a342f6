------------------------- MODULE WardenOrchestrator -------------------------
(***************************************************************************)
(* WardenOrchestrator.run for one incident (app/agents/orchestrator.py):   *)
(* the background task that turns an ingested incident into one a human    *)
(* may decide on.  An action is the code between two awaits at which       *)
(* something else can happen: another coroutine runs, the incident timeout *)
(* cancels the task, or the store raises.                                  *)
(*                                                                         *)
(* orch.pc names the await the task is suspended in:                       *)
(*   created    create_incident has returned, no task exists yet           *)
(*   scheduled  update_incident(DIAGNOSING) has not reached the store      *)
(*   model      waiting for the model (or for the backoff of a retry)      *)
(*   call       the next function call of the turn is about to be logged   *)
(*   tool       the tool runs; none of its writes has reached the store    *)
(*   result     the tool is over, its result is not logged yet             *)
(*   turn_end   all calls of the turn are over                             *)
(*   exhausted  the last turn is over                                      *)
(*   ensure     the model has finished: governance is about to be ensured  *)
(*   validate   the finish status is about to be decided and written       *)
(*   readback   the final status is in the store, update_incident has not  *)
(*              returned (FirestoreStateManager reads the document back)   *)
(*   failing    _fail has been called                                      *)
(*   done, lost the task has returned, or died with its process            *)
(***************************************************************************)
EXTENDS IncidentStore

CONSTANTS
  MaxTurns,       \* Settings.warden_max_turns
  MaxAttempts,    \* retry.DEFAULT_MAX_ATTEMPTS
  MaxCalls,       \* function calls in one response; the code has no limit
  ToolFailures,   \* how a tool call may fail: by ERROR, by TIMEOUT
  SqlCandidates,  \* what the patch generator may write
  Datasets,       \* what the model may name as dataset_id
  OwnDataset,     \* the dataset of incident.resource_uri
  Labels          \* the labels BigQuery has on each dataset

ASSUME LoopAssumption ==
  /\ MaxTurns \in Nat \ {0}
  /\ MaxAttempts \in Nat \ {0}
  /\ MaxCalls \in Nat \ {0}
  /\ ToolFailures \subseteq {"ERROR", "TIMEOUT"}

ASSUME GovernanceAssumption ==
  /\ SqlCandidates \subseteq Sql
  /\ \A sql \in SqlCandidates : sql.drops_column => sql.destructive
  /\ OwnDataset \in Datasets
  /\ Labels \in [Datasets -> TableMetadata]

VARIABLE orch

NoVerdict == "none"

WorkingPCs == {"created", "scheduled", "model", "call", "tool", "result",
               "turn_end", "exhausted", "ensure", "validate"}
EndPCs == {"readback", "failing", "done", "lost"}

ToolResult == [status  : StepStatus,
               verdict : GovernanceVerdict \cup {NoVerdict}]

OrchestratorTypeOK ==
  orch \in [pc      : WorkingPCs \cup EndPCs,
            turn    : Nat,      \* turns started
            attempt : Nat,      \* model calls made in this turn
            ids     : Nat,      \* step ids taken: next_id has counted this far
            calls   : Nat,      \* function calls of this turn still to finish
            blocked : BOOLEAN,
            result  : ToolResult,
            error   : Errors]   \* what _fail is to write

NoResult == [status |-> "OK", verdict |-> NoVerdict]

OrchestratorStart ==
  [pc |-> "created", turn |-> 0, attempt |-> 0, ids |-> 0, calls |-> 0,
   blocked |-> FALSE, result |-> NoResult, error |-> "none"]

OrchestratorInit == orch = OrchestratorStart

Goto(pc) == orch' = [orch EXCEPT !.pc = pc]

\* The coroutine of _run_loop is over, and its local variables with it; what
\* is left is whether a BLOCK verdict stopped it.
EndRun(pc, error) ==
  orch' = [OrchestratorStart EXCEPT !.pc = pc, !.blocked = orch.blocked,
                                    !.error = error]

FailWith(error) == EndRun("failing", error)

\* Firestore's update_incident awaits once more after the write.
AfterFinalUpdate == IF Mode = "cloud" THEN "readback" ELSE "done"

\* Mutant: the turn reuses the id the last entry was logged under.
StartTurnWithoutId(turn) ==
  orch' = [OrchestratorStart EXCEPT !.pc = "model", !.turn = turn,
                                    !.attempt = 1, !.ids = orch.ids]

\* The next turn takes one step id for its MODEL_TURN entry.
StartTurn(turn) ==
  orch' = [OrchestratorStart EXCEPT !.pc = "model", !.turn = turn,
                                    !.attempt = 1, !.ids = orch.ids + 1]

-----------------------------------------------------------------------------
(* Starting *)

RunInBackground ==
  /\ orch.pc = "created"
  /\ Goto("scheduled")
  /\ UNCHANGED storeVars

StartRun ==
  /\ orch.pc = "scheduled"
  /\ SetStatus("DIAGNOSING")
  /\ StartTurn(1)
  /\ UNCHANGED <<steps, patches, audits>>

-----------------------------------------------------------------------------
(* One model turn: _call_model_turn and call_with_retry *)

\* Mutant: a retry does not count as an attempt.
ModelRetryUncounted ==
  /\ orch.pc = "model" /\ orch.attempt < MaxAttempts
  /\ AppendStep(orch.ids, "MODEL_TURN", "ERROR")
  /\ UNCHANGED <<orch, incident, patches, audits>>

\* A retryable error: on_retry logs it under the turn's own id.
ModelRetry ==
  /\ orch.pc = "model" /\ orch.attempt < MaxAttempts
  /\ AppendStep(orch.ids, "MODEL_TURN", "ERROR")
  /\ orch' = [orch EXCEPT !.attempt = orch.attempt + 1]
  /\ UNCHANGED <<incident, patches, audits>>

\* The turn timeout is not retried, and run takes it for the incident's.
ModelTimesOut ==
  /\ orch.pc = "model"
  /\ AppendStep(orch.ids, "MODEL_TURN", "TIMEOUT")
  /\ FailWith("incident_timeout_exceeded")
  /\ UNCHANGED <<incident, patches, audits>>

\* An error that is not retryable, or the last attempt's.
ModelFails ==
  /\ orch.pc = "model"
  /\ AppendStep(orch.ids, "MODEL_TURN", "ERROR")
  /\ FailWith("exception")
  /\ UNCHANGED <<incident, patches, audits>>

ModelConcludes ==
  /\ orch.pc = "model"
  /\ AppendStep(orch.ids, "MODEL_TURN", "OK")
  /\ Goto("ensure")
  /\ UNCHANGED <<incident, patches, audits>>

ModelCallsTools ==
  /\ orch.pc = "model"
  /\ AppendStep(orch.ids, "MODEL_TURN", "OK")
  /\ \E n \in 1..MaxCalls :
       orch' = [orch EXCEPT !.pc = "call", !.calls = n]
  /\ UNCHANGED <<incident, patches, audits>>

-----------------------------------------------------------------------------
(* One function call: _call_tool *)

\* Two ids are taken, one for the call and one for its result.
BeginCall ==
  /\ orch.pc = "call"
  /\ AppendStep(orch.ids + 1, "TOOL_CALL", "RUNNING")
  /\ orch' = [orch EXCEPT !.pc = "tool", !.ids = orch.ids + 2]
  /\ UNCHANGED <<incident, patches, audits>>

ToolReturns(status, verdict) ==
  orch' = [orch EXCEPT !.pc = "result",
                       !.result = [status |-> status, verdict |-> verdict]]

\* A tool whose write reached the store may still be cut off by the tool
\* timeout or raise before it returns: its caller then sees no result.
WriteOutcomes == {"OK"} \cup (IF Mode = "cloud" THEN ToolFailures ELSE {})

\* Investigation, an unknown tool name, and whatever ends before its write.
ToolWritesNothing ==
  /\ orch.pc = "tool"
  /\ \E status \in {"OK"} \cup ToolFailures : ToolReturns(status, NoVerdict)
  /\ UNCHANGED storeVars

GenerateAndTestPatch ==
  /\ orch.pc = "tool"
  /\ \E sql \in SqlCandidates, allow_destructive \in BOOLEAN :
       \E validation \in SandboxOutcomes(Mode, sql, allow_destructive) :
         WritePatch(sql, validation)
  /\ \E status \in WriteOutcomes : ToolReturns(status, NoVerdict)
  /\ UNCHANGED <<incident, steps, audits>>

MetadataOf(dataset) ==
  IF Mode = "cloud" THEN Labels[dataset] ELSE DefaultMetadata

AuditVerdict(p, dataset) == Verdict(patches[p].sql, MetadataOf(dataset))

\* patch and dataset_id are the model's arguments; the envelope carries the
\* verdict only when the tool gets to return it.
VerifyGovernancePolicy ==
  /\ orch.pc = "tool"
  /\ \E p \in 1..Len(patches), dataset \in Datasets :
       LET verdict == AuditVerdict(p, dataset) IN
       /\ WriteAudit(p, verdict)
       /\ \E status \in WriteOutcomes :
            ToolReturns(status, IF status = "OK" THEN verdict ELSE NoVerdict)
  /\ UNCHANGED <<incident, steps, patches>>

\* Mutant: only the verdict of the turn's last call counts.
EndCallForgetsBlock ==
  /\ orch.pc = "result"
  /\ AppendStep(orch.ids, "TOOL_RESULT", orch.result.status)
  /\ orch' = [orch EXCEPT
                !.pc = IF orch.calls = 1 THEN "turn_end" ELSE "call",
                !.calls = orch.calls - 1,
                !.blocked = orch.result.verdict = "BLOCK",
                !.result = NoResult]
  /\ UNCHANGED <<incident, patches, audits>>

\* The result is logged; the remaining calls of the turn still run after a
\* BLOCK verdict.
EndCall ==
  /\ orch.pc = "result"
  /\ AppendStep(orch.ids, "TOOL_RESULT", orch.result.status)
  /\ orch' = [orch EXCEPT
                !.pc = IF orch.calls = 1 THEN "turn_end" ELSE "call",
                !.calls = orch.calls - 1,
                !.blocked = orch.blocked \/ orch.result.verdict = "BLOCK",
                !.result = NoResult]
  /\ UNCHANGED <<incident, patches, audits>>

-----------------------------------------------------------------------------
(* The end of a turn, and of the run *)

StopBlocked ==
  /\ orch.pc = "turn_end" /\ orch.blocked
  /\ UpdateIncident("REJECTED", incident.error, orch.turn)
  /\ EndRun(AfterFinalUpdate, "none")
  /\ UNCHANGED <<steps, patches, audits>>

NextTurn ==
  /\ orch.pc = "turn_end" /\ ~orch.blocked
  /\ UpdateIncident(incident.status, incident.error, orch.turn)
  /\ IF orch.turn < MaxTurns THEN StartTurn(orch.turn + 1)
                             ELSE Goto("exhausted")
  /\ UNCHANGED <<steps, patches, audits>>

\* Mutant: the loop ends without a word.
ExhaustBudgetSilently ==
  /\ orch.pc = "exhausted"
  /\ EndRun("done", "none")
  /\ UNCHANGED storeVars

ExhaustBudget ==
  /\ orch.pc = "exhausted"
  /\ UpdateIncident("FAILED", "turn_budget_exhausted", MaxTurns)
  /\ EndRun(AfterFinalUpdate, "none")
  /\ UNCHANGED <<steps, patches, audits>>

NeedsGovernance ==
  /\ IsPatch(LatestPatch)
  /\ patches[LatestPatch].validation_status \in {"SANDBOX_PASS", "DRY_RUN_ONLY"}
  /\ AuditsOf(LatestPatch) = {}

\* _ensure_governance_if_needed audits the latest patch against the
\* incident's own dataset ...
EnsureGovernance ==
  /\ orch.pc = "ensure" /\ NeedsGovernance
  /\ WriteAudit(LatestPatch, AuditVerdict(LatestPatch, OwnDataset))
  /\ Goto("validate")
  /\ UNCHANGED <<incident, steps, patches>>

\* ... and does nothing when that is not needed, when the resource_uri does
\* not parse, and when the audit fails (its exception is swallowed).
SkipGovernance ==
  /\ orch.pc = "ensure"
  /\ Goto("validate")
  /\ UNCHANGED storeVars

\* Mutant: every final turn is ready for approval.
FinishUnvalidated == [status |-> "AWAITING_APPROVAL", error |-> "none"]

\* Mutant: the last audit counts, whichever patch it is of.
FinishOnLastAudit ==
  IF audits = <<>> \/ ~IsPatch(LatestPatch)
  THEN [status |-> "FAILED", error |-> "orchestrator_finished_without_patch"]
  ELSE IF audits[Len(audits)].verdict = "BLOCK"
  THEN [status |-> "REJECTED", error |-> "none"]
  ELSE [status |-> "AWAITING_APPROVAL", error |-> "none"]

ValidatedFinishStatus ==
  IF ~IsPatch(LatestPatch)
  THEN [status |-> "FAILED", error |-> "orchestrator_finished_without_patch"]
  ELSE IF AuditsOf(LatestPatch) = {}
  THEN [status |-> "FAILED",
        error |-> "orchestrator_finished_without_governance_audit"]
  ELSE IF LatestVerdictIs(LatestPatch, "BLOCK")
  THEN [status |-> "REJECTED", error |-> "none"]
  ELSE [status |-> "AWAITING_APPROVAL", error |-> "none"]

Finish ==
  /\ orch.pc = "validate"
  /\ LET finish == ValidatedFinishStatus IN
       UpdateIncident(finish.status, finish.error, orch.turn)
  /\ EndRun(AfterFinalUpdate, "none")
  /\ UNCHANGED <<steps, patches, audits>>

ReadBack ==
  /\ orch.pc = "readback"
  /\ EndRun("done", "none")
  /\ UNCHANGED storeVars

-----------------------------------------------------------------------------
(* What may end the run early *)

\* The awaits that really suspend the task: all of them on Firestore, those
\* on the model and on a tool in memory.
SuspendedPCs ==
  IF Mode = "cloud" THEN (WorkingPCs \cup {"readback"}) \ {"created"}
                    ELSE {"model", "tool", "ensure"}

\* wait_for(_run_loop, warden_incident_timeout_s) expires, or a store call
\* raises: either way run calls _fail.
Interrupted ==
  /\ orch.pc \in SuspendedPCs
  /\ \/ FailWith("incident_timeout_exceeded")
     \/ StoreFaults /\ FailWith("exception")
  /\ UNCHANGED storeVars

\* Mutant: a failed run ends without its status being written.
FailUnmarked ==
  /\ orch.pc = "failing"
  /\ EndRun("done", "none")
  /\ UNCHANGED storeVars

Fail ==
  /\ orch.pc = "failing"
  /\ UpdateIncident("FAILED", orch.error, incident.turn_count)
  /\ EndRun("done", "none")
  /\ UNCHANGED <<steps, patches, audits>>

\* _fail swallows the exception of its own update.
FailIsSwallowed ==
  /\ orch.pc = "failing" /\ StoreFaults
  /\ EndRun("done", "none")
  /\ UNCHANGED storeVars

\* The instance dies, or is scaled in, and nothing restarts the task; or the
\* route's create_incident raises after its write, and nothing starts it.
TaskLost ==
  /\ orch.pc \notin {"done", "lost"}
  /\ Crashes \/ (StoreFaults /\ orch.pc = "created")
  /\ EndRun("lost", "none")
  /\ UNCHANGED storeVars

-----------------------------------------------------------------------------
ModelTurn == \/ ModelRetry \/ ModelTimesOut \/ ModelFails
             \/ ModelConcludes \/ ModelCallsTools

ToolCall == \/ BeginCall \/ ToolWritesNothing \/ GenerateAndTestPatch
            \/ VerifyGovernancePolicy \/ EndCall

Conclude == \/ StopBlocked \/ NextTurn \/ ExhaustBudget \/ EnsureGovernance
            \/ SkipGovernance \/ Finish \/ ReadBack

\* What the task does while its process lives.
Run == \/ RunInBackground \/ StartRun \/ ModelTurn \/ ToolCall \/ Conclude
       \/ Interrupted \/ Fail \/ FailIsSwallowed
=============================================================================
