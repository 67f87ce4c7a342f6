--------------------------- MODULE WardenIncident ---------------------------
(***************************************************************************)
(* One incident from ingestion to decision: the orchestrator's task and    *)
(* the humans' requests on the same store documents.  Incidents share      *)
(* nothing but the store's collections, so one stands for all.             *)
(***************************************************************************)
EXTENDS WardenOrchestrator, RemediationExecutor, FiniteSets

vars == <<storeVars, orch, executorVars>>

TypeOK == StoreTypeOK /\ OrchestratorTypeOK /\ ExecutorTypeOK

Init == StoreInit /\ OrchestratorInit /\ ExecutorInit

\* In memory neither the store nor the local backend ever suspends, so a
\* handler that has started runs to its end before anything else does.
MayRun(actor) ==
  Mode = "local" => \A r \in Requests \ {actor} : req[r].pc \in RestingPCs

Orchestrate == MayRun("orchestrator") /\ Run /\ UNCHANGED executorVars

Decide(r) == MayRun(r) /\ Serve(r) /\ UNCHANGED orch

Request(r) == MayRun(r) /\ Receive(r) /\ UNCHANGED orch

Crash ==
  \/ TaskLost /\ UNCHANGED executorVars
  \/ \E r \in Requests : RequestLost(r) /\ UNCHANGED orch

\* Nothing is left to do: the task is over and all requests are answered.
Quiescent ==
  /\ orch.pc \in {"done", "lost"}
  /\ \A r \in Requests : req[r].pc \in {"done", "lost"}

Settled == Quiescent /\ UNCHANGED vars

Next ==
  \/ Orchestrate
  \/ \E r \in Requests : Decide(r) \/ Request(r)
  \/ Crash
  \/ Settled

Spec == Init /\ [][Next]_vars

-----------------------------------------------------------------------------
(* Safety *)

\* Past the status check, and therefore acting on what it read then.
AdmittedPCs == {"pick", "load", "audit"} \cup ApprovedPCs

Governed(p) == /\ IsPatch(p)
               /\ AuditsOf(p) # {}
               /\ ~LatestVerdictIs(p, "BLOCK")

\* An incident never awaits approval without something safe to approve: its
\* latest patch has been audited and the latest audit of it is not BLOCK
\* (_validated_finish_status).
AwaitingIsGoverned ==
  incident.status = "AWAITING_APPROVAL" => Governed(LatestPatch)

\* Production SQL only ever comes from a patch that was audited and whose
\* latest audit is not BLOCK, whichever patch a client names, however requests
\* interleave and whatever crashes (execute_incident).
GovernedExecution ==
  \A i \in 1..Len(prodRuns) : Governed(prodRuns[i])

\* No column of a table tagged pii is dropped while every audit is of the
\* incident's own dataset (governance.py: "Blocks DROP COLUMN on tables tagged
\* pii=true"): the model, which names the dataset, may choose another one.
NoPiiColumnIsDropped ==
  Datasets = {OwnDataset} =>
    \A i \in 1..Len(prodRuns) :
      ~(/\ patches[prodRuns[i]].sql.drops_column
        /\ MetadataOf(OwnDataset).pii_tagged)

\* While the agents are at work nothing is written to production, however
\* early a request comes in (execute_incident, _run_loop).
NoRunBeforeConclusion == prodRuns # <<>> => orch.pc \in EndPCs

\* Executing the patch the server picks never meets the checks the executor
\* calls defence in depth: the incident has a patch, the patch an audit, and
\* the audit is not BLOCK (executor.py's docstring).
BackstopIsUnreachable ==
  \A r \in Requests :
    ~req[r].named => req[r].answer \notin {"NoPatchAvailable", "PatchNotFound",
                                           "NoGovernanceAudit", "GovernanceBlock"}

\* Step ids on Firestore have no gap and no repetition: the orchestrator's
\* counter and the executor's len(steps) + 1 agree although each retry of a
\* model turn logs once more and requests number their entries concurrently.
FirestoreTrailHasNoGap ==
  Mode = "cloud" => \A i \in 1..Len(steps) : steps[i].step_id = i

\* No entry of the agents' trail is ever replaced by a human's decision or by
\* an execution, or the other way round (append_step, _next_step_sequence).
AgentKinds == {"MODEL_TURN", "TOOL_CALL", "TOOL_RESULT"}

AgentTrailIsKept ==
  [][\A i \in DOMAIN steps :
       /\ i \in DOMAIN steps'
       /\ \/ steps[i].kind \in AgentKinds \/ steps'[i].kind \in AgentKinds
          => steps'[i].kind = steps[i].kind]_vars

\* A run that is over leaves the incident to a human or in a terminal status,
\* never in flight, with an error exactly when it says why it failed (run,
\* _fail), if the store took its last write.
RunEndLeavesFlight ==
  orch.pc = "done" /\ ~StoreFaults =>
    /\ incident.status \notin InFlight
    /\ incident.status = "FAILED" => incident.error # "none"

\* A BLOCK verdict that reached the loop is final: no later call of the same
\* turn, such as an audit against other labels, no later patch and no late
\* timeout ever brings the incident before a human (_run_loop's blocked).
BlockIsFinal ==
  [](orch.result.verdict = "BLOCK" => [](incident.status # "AWAITING_APPROVAL"))

StepsOf(kind) == {i \in 1..Len(steps) : steps[i].kind = kind}

\* In memory each production run stands between its own decision and its own
\* execution in the trail (append_step in execute_incident).
LocalTrailTellsRuns ==
  Mode = "local" =>
    \A i \in 1..Len(prodRuns) :
      \E d \in StepsOf("USER_DECISION") :
        /\ \A j \in 1..Len(steps) : steps[j].step_id = steps[d].step_id => j = d
        /\ incident.status = "RESOLVED" =>
             \E e \in StepsOf("EXECUTION") :
               steps[e].step_id = steps[d].step_id + 1

\* An incident is RESOLVED only if production SQL took effect for it, whatever
\* raises and whoever decides meanwhile (execute_incident).
ResolvedWasRun == incident.status = "RESOLVED" => prodRuns # <<>>

\* Production SQL takes effect once per request at most, whatever is retried,
\* lost or raised: there are no more runs than requests that have come past
\* their one call of the backend (execute_incident).
OneRunPerRequest ==
  Len(prodRuns) <=
    Cardinality({r \in Requests : req[r].pc \in {"log", "settle", "done", "lost"}})

\* The task is over, nobody's decision is being carried out and none is asked
\* for: from there on the incident keeps its status and nothing more is run
\* for it, whatever requests still arrive (_require_awaiting_approval).
Closed ==
  /\ orch.pc \in {"done", "lost"} /\ incident.status # "AWAITING_APPROVAL"
  /\ \A r \in Requests : req[r].pc \notin AdmittedPCs

ClosedIsFinal ==
  [][Closed => Closed' /\ UNCHANGED <<incident.status, prodRuns>>]_vars

\* SQL that took effect does not go unnoticed: while the incident still awaits
\* approval some request is about to report it, or has died or been answered
\* with an error (execute_incident's try block).
UnreportedRunsAreExcused ==
  incident.status = "AWAITING_APPROVAL" /\ prodRuns # <<>> =>
    \E r \in Requests :
      \/ req[r].pc \in {"log", "settle"} /\ req[r].kind = "execute"
      \/ req[r].pc = "lost" \/ req[r].answer = "raised"

-----------------------------------------------------------------------------
(* The inductive invariant behind them *)

\* The counters are set when they are used.
CountersAreSet ==
  /\ orch.pc \in {"model", "call", "tool", "result"} => orch.ids > 0
  /\ orch.pc \in {"call", "tool", "result"} => orch.calls > 0
  /\ \A r \in Requests : req[r].pc \in {"decide", "run", "log"} => req[r].step > 0

\* While the agents work no request is admitted and nothing is run; from the
\* moment one may be, they write no patch and no audit any more.
DecisionsFollowConclusion ==
  orch.pc \in WorkingPCs =>
    /\ incident.status # "AWAITING_APPROVAL"
    /\ prodRuns = <<>>
    /\ \A r \in Requests : req[r].pc \notin AdmittedPCs

\* What an admitted request holds: rejecting needs no patch, executing goes
\* through the checks, and the server's own choice passes all of them.
AdmittedAreGoverned ==
  \A r \in Requests :
    /\ req[r].pc \in {"pick", "load", "audit", "run", "log"} =>
         req[r].kind = "execute"
    /\ req[r].pc = "pick" => Governed(LatestPatch)
    /\ req[r].pc \in {"load", "audit"} /\ ~req[r].named => Governed(req[r].patch)
    /\ req[r].pc = "audit" => IsPatch(req[r].patch)
    /\ req[r].pc \in ApprovedPCs /\ req[r].kind = "execute" =>
         Governed(req[r].patch)

\* A request is answered once, at its end.
UnansweredUntilDone == \A r \in Requests : req[r].pc # "done" => req[r].answer = "none"

IndInv ==
  /\ TypeOK
  /\ UnansweredUntilDone
  /\ CountersAreSet
  /\ DecisionsFollowConclusion
  /\ AdmittedAreGoverned
  /\ AwaitingIsGoverned
  /\ GovernedExecution
  /\ BackstopIsUnreachable

-----------------------------------------------------------------------------
(* Refinement *)

Lifecycle == INSTANCE IncidentLifecycle
               WITH status <- incident.status, runs <- Len(prodRuns)

\* In local mode the whole system keeps the promise of IncidentLifecycle.
KeepsLifecycle == Lifecycle!Spec

\* How far a request has come, q being its state.
Stage(q) ==
  CASE q.pc \in {"idle", "check"}   -> "waiting"
    [] q.pc \in {"done", "lost"}    -> "over"
    [] q.pc \in AdmittedPCs /\ q.kind = "reject"    -> "rejecting"
    [] q.pc \in {"log", "settle"} /\ q.kind = "execute" ->
         IF q.succeeded THEN "written" ELSE "unsure"
    [] OTHER -> "executing"

Decisions == INSTANCE DecisionProtocol
               WITH status  <- incident.status,
                    agents  <- orch.pc \notin {"done", "lost"},
                    request <- [r \in Requests |-> Stage(req[r])],
                    runs    <- Len(prodRuns)

\* In both modes, whatever the store loses and whichever instance dies, the
\* system keeps to DecisionProtocol: requests are admitted while approval is
\* awaited, run their SQL once at most and report what they did.
KeepsDecisions == Decisions!Spec

-----------------------------------------------------------------------------
(* Bounds *)

\* More than one turn takes: its attempts, and three steps of each call.
TurnWork == MaxAttempts + 3 * MaxCalls + 2

TurnsLeft == (MaxTurns - orch.turn) * TurnWork

\* How many steps the task may still take at its pc.
StepsLeft ==
  CASE orch.pc = "created"   -> 6 + MaxTurns * TurnWork
    [] orch.pc = "scheduled" -> 5 + MaxTurns * TurnWork
    [] orch.pc = "model"     -> 5 + TurnsLeft + 3 * MaxCalls + 2
                                  + (MaxAttempts - orch.attempt)
    [] orch.pc = "call"      -> 5 + TurnsLeft + 3 * orch.calls + 1
    [] orch.pc = "tool"      -> 5 + TurnsLeft + 3 * orch.calls
    [] orch.pc = "result"    -> 5 + TurnsLeft + 3 * orch.calls - 1
    [] orch.pc = "turn_end"  -> 5 + TurnsLeft + 1
    [] orch.pc = "ensure"    -> 4
    [] orch.pc \in {"validate", "exhausted"} -> 3
    [] orch.pc = "readback"  -> 2
    [] orch.pc = "failing"   -> 1
    [] orch.pc \in {"done", "lost"} -> 0

\* How many calls a request may still make.
CallsLeft(pc) ==
  CASE pc = "check"  -> 9
    [] pc = "pick"   -> 8
    [] pc = "load"   -> 7
    [] pc = "audit"  -> 6
    [] pc = "number" -> 5
    [] pc = "decide" -> 4
    [] pc = "run"    -> 3
    [] pc = "log"    -> 2
    [] pc = "settle" -> 1
    [] pc \in RestingPCs -> 0

\* No step of a run or of a request is taken for ever: the turn budget, the
\* retries and the calls of a turn are used up by whatever the task does, and
\* a request goes through its calls once (_run_loop, call_with_retry,
\* execute_incident).  A task that is scheduled in time therefore ends.
StepsAreBounded ==
  [][/\ Orchestrate => StepsLeft' \in 0 .. (StepsLeft - 1)
     /\ \A r \in Requests :
          Decide(r) => CallsLeft(req'[r].pc) \in 0 .. (CallsLeft(req[r].pc) - 1)]_vars

-----------------------------------------------------------------------------
(* Liveness *)

\* Every run comes to an end for the human: the incident leaves flight, unless
\* the run dies with its instance (run, the timeouts and the turn budget).
RunSettles == <>[](incident.status \notin InFlight \/ orch.pc = "lost")

\* Every request that was received is answered, unless its instance dies
\* (execute_incident, reject_incident).
RequestsAreAnswered ==
  \A r \in Requests : req[r].pc = "check" ~> req[r].pc \in {"done", "lost"}

-----------------------------------------------------------------------------
(* What the documents say and the code does not keep in cloud mode *)

\* executor.py:10-12, "refuses to run unless the incident is
\* AWAITING_APPROVAL": once a human's decision is settled, by this executor or
\* by another request, no production SQL takes effect any more.
NoRunAfterDecision ==
  [][prodRuns' # prodRuns => incident.status \notin {"RESOLVED", "REJECTED"}]_vars

\* executor.py:122-125, the executor marks the incident RESOLVED and "on any
\* failure the incident is marked FAILED": once its production SQL has taken
\* effect and no request is under way, the incident awaits no approval.
RunsAreReported ==
  (\A r \in Requests : req[r].pc \in RestingPCs) /\ prodRuns # <<>>
    => incident.status # "AWAITING_APPROVAL"

\* README.md:3-5, "tests SQL/DDL patches in a BigQuery sandbox, and waits for a
\* human before any production write": a patch that runs has passed its test.
RunsAreSandboxTested ==
  \A i \in 1..Len(prodRuns) :
    patches[prodRuns[i]].validation_status # "SANDBOX_FAIL"
=============================================================================
