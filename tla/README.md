# DataMesh Warden: TLA+ models, model checking and proofs

DataMesh Warden lets a fleet of model-driven agents diagnose a data incident,
write a SQL patch, test it in a sandbox and audit it, and then waits for a human
before anything touches production. These modules model that path from the
ingested event to the human's decision, check it with TLC and prove its central
safety properties with TLAPS.

## 1. Inventory

| Component | Code | State | Operations | Interacts by |
|---|---|---|---|---|
| Orchestrator | `app/agents/orchestrator.py`, `retry.py` | one coroutine per incident: turn, attempt, step counter, calls left, `blocked` | `run`, model turn, tool call, finish, fail | store calls; tools; started by the API |
| Patch generation and sandbox | `tools/patch.py`, `bq_sandbox.py` | the call's locals; one sandbox dataset per incident | generate, clone, run, read back, dry run, store | Gemini and BigQuery, by threads; reads production |
| Investigation | `tools/investigate.py` | none | classify the incident's logs | reads the incident, writes a finding |
| Governance policy | `tools/governance.py` | none | four checks, one verdict | reads dataset labels |
| Executor | `app/agents/executor.py` | one coroutine per request | execute, reject | reads everything back from the store, runs BigQuery |
| State manager | `app/persistence/*.py` | root document, steps, findings, patches, audits | update, append, write, list, stream | shared by everything |
| HTTP API | `app/api/*.py` | set of background tasks | ingest, check a pipeline, read, execute, reject | starts the orchestrator, calls the executor |
| War room | `ui/*.py` | what is on the page | poll, approve, reject | HTTP, 10 s client timeout |
| Pipeline check | `app/agents/pipeline_health.py` | none | check | opens incidents |

What is hard about it:

* **Two backends, two kinds of concurrency.** In memory (`WARDEN_MODE=local`)
  neither the store nor the executor's backend ever suspends, so a request handler
  runs from its start to its end. On Firestore every store call is a round trip;
  other requests, the orchestrator and a second Cloud Run instance run meanwhile,
  and nothing is done in a transaction.
* **The page is older than the incident.** The war room's script runs anew for every
  click and every tick, reads status and audits by separate calls, and its buttons stay
  clickable until the next run draws others. Its client gives up after 10 s, BigQuery
  does not.
* **Check and act are several calls apart.** The executor checks the status, then
  makes five more calls before it runs the SQL, and settles the incident two calls
  after that.
* **Failure.** A tool can write its document and be cut off by the tool timeout
  before its caller sees it. The incident timeout can strike at any await, during
  the last update too. Model calls are retried. Firestore may raise anywhere. The
  service scales to zero and nothing resumes a task.
* **A cancelled tool is not a stopped one.** The tool timeout cancels the coroutine; the
  thread that talks to BigQuery goes on, and every test of an incident uses the same
  sandbox dataset. The statement that is tested is the production statement after two
  textual replacements, and the production statement is a text that Gemini wrote or that
  a preset put together from the posted event.
* **What is classified is a quotation.** The check quotes one line of a log that the job
  goes on writing, and the agents classify that line alone, by the first pattern that
  matches.
* **Two writers number one trail.** The orchestrator counts, the executor takes
  `len(steps) + 1`; on Firestore the number is the document's name.

What makes it correct: only a governed patch (audited, latest audit not BLOCK)
is ever approved or run; a BLOCK is final; nothing runs before the agents are done;
the trail tells what happened; every run settles and every request is answered; a
button that can be clicked is one the server honours, and a page that is left open
ends up showing the outcome; what a pipeline check reports is true of the execution it
reports, and a failure it saw is opened and worked on; what the agents make of it is what the failed
execution logged; testing a patch leaves production alone, and its verdict is of the table
it is for.

`PROJECT.json` lists every component with its status, every hazard with the
properties that watch it, and for every definition the lines it translates.

## 2. Modules

| Module | What it is |
|---|---|
| `GovernancePolicy` | The policy checks and verdict as pure operators over an abstract statement (its kind and which of the regular expressions match) and the three dataset labels; the outcomes a sandbox test may store. |
| `IncidentStore` | The store as one incident sees it: `incident`, `steps`, `patches`, `audits`, their reads and writes, on both backends (`Mode`). |
| `WardenOrchestrator` | The background task. `orch.pc` names the await it is suspended in, the other fields are its local variables. |
| `RemediationExecutor` | The human's requests. `req[r].pc` names the store or BigQuery call request `r` makes next; `prodRuns` records the patches whose SQL took effect in production. |
| `WardenIncident` | The composition: the orchestrator's task, any number of requests and crashes over one store. Properties and the inductive invariant are here. |
| `IncidentLifecycle` | The abstract specification of local mode: what an incident promises its users. |
| `DecisionProtocol` | The abstract specification of both modes, failures included: status, agents, how far each request has come, how often SQL ran. |
| `PatchTool` | The abstract specification of the patch tool: a call stores one outcome or nothing. Its one writing step is the `GenerateAndTestPatch` of `WardenOrchestrator`. |
| `WarRoom` | `WardenIncident` with its requests coming from one page of the war room. `page.pc` names the call the script makes next, the other fields what is on the screen and the click it has not acted on. |
| `PipelineHealth` | The check of a Cloud Run Job while the job runs, fails and logs: a module of its own, since what a check opens is an incident like any other. `check[c].pc` names the call check `c` makes next. |
| `PipelineDiagnosis` | `PipelineHealth` with the investigation of what its checks opened: patterns, classification, `findings`. |
| `PatchSandbox` | `generate_and_test_patch` and both sandbox executors. `pc` names the call it waits for, `sandbox` is the incident's dataset, `late` what calls that were given up may still do. In `WardenOrchestrator` the same tool is one step; `IsOneTool` is why it may be. |
| `MCWardenIncident`, `MCWarRoom`, `MCPipelineHealth`, `MCPatchSandbox` | Small values for the constants. |
| `WardenIncidentProofs`, `WardenEndProofs`, `LifecycleProofs` | Theorems of `WardenIncident`: the inductive invariant; how runs end and in how many steps, what is final and the Firestore trail; local mode. |
| `DecisionProtocolProofs`, `DecisionProofs` | Theorems of `DecisionProtocol`; that `WardenIncident` implements it, and what follows. |
| `WarRoomProofs` | Theorems of `WarRoom`: any page; a page whose posts were answered. |
| `PipelineDiagnosisProofs` | Theorems of `PipelineHealth` and `PipelineDiagnosis`. |
| `PatchSandboxProofs` | Theorems of `PatchSandbox`. |

One incident stands for all: incidents share no document.

### How actions correspond to the code

An action is the code from one await to the next at which something else can
happen. `AppendStep` in the same action as the assignment that follows it is one
store call and the local computation after it. A store call that raises after
the write is the write followed by a failure at the next await; only after the
last write of a coroutine is there no next await, and there the read-back of
`update_incident` is a state of its own (`readback`) or a choice of the answer
(`Settle`).

* `ModelRetry`, `ModelTimesOut`, `ModelFails`, `ModelConcludes`,
  `ModelCallsTools` are the ways `_call_model_turn` with `call_with_retry` can go
  on. A turn timeout is raised as `TimeoutError` and `run` takes it for the
  incident's.
* `BeginCall` logs a call, `ToolWritesNothing`, `GenerateAndTestPatch` and
  `VerifyGovernancePolicy` are what the tool does, `EndCall` logs its result. The
  model chooses the tool, the patch and the dataset freely: nothing in the code
  ties the `dataset_id` of an audit to the incident. A tool's write may reach the
  store although the tool ends in TIMEOUT or ERROR (`WriteOutcomes`).
* `EnsureGovernance` audits the latest patch when the model forgot to;
  `SkipGovernance` is every way it does nothing, swallowed exceptions included.
* `Finish` decides the status from the store and writes it, `StopBlocked` and
  `ExhaustBudget` are the loop's other ends, `Interrupted` is the incident
  timeout or an exception anywhere else, `Fail` what `_fail` writes.
* The executor's actions are its calls in order: `RequireAwaitingApproval`,
  `PickLatestPatch`, `LoadPatch`, `CheckLatestAudit`, `NextStepSequence`,
  `LogDecision`, `RunProductionSql`, `LogExecution`, `Settle`. `StoreRaises` is an
  exception of the store (only the backend's is caught), at any call and before or after
  it took effect, `RequestLost` a crash. The answer `incident` is a 200: the document as
  read back, which another request may have settled meanwhile.
* `TaskLost` is a task that died with its instance, or that was never started because
  `create_incident` raised after its write.
* `RunProductionSql` may raise although the statement took effect: BigQuery
  finishes a job whether or not its result can be fetched.
* `MayRun` keeps local requests atomic.
* The page: `Restart` is a run of the script that leaves the one under way, by a widget
  (`Reload`) or the timer (`Autorefresh`). `Click` restarts it with the click, or waits
  until the post the script is blocked in is over. `LoadIncident` to `RenderFooter` is
  the run up to the buttons; only there is a click acted on, so it meets the status
  just read. `Send` is the arrival of the post, `Answered` and `GivesUp` its ends:
  after an error that nobody clicked past, the script ends with the footer it drew.
* The check: `ListLatest`, `FetchErrorLine`, `CreateIncident` are its three calls;
  `CheckRaises` is an exception of any, and `create_incident` may have written by then: the
  incident is there and no task is (`task`). `LineArrives` puts an entry anywhere in the
  order of timestamps, `EntriesOf` is the newest `MaxResults` of an execution. `SecondPass`
  is the Google client's iterator: it is a generator, and yields nothing to a second loop.
  Execution `n` is the `n`-th the job
  started; it counts as failed once a task of it has.
* What a line says is the set of phrases of the error patterns that occur in it
  (`Phrases`): *column* stands for `column x does not exist`, *column of relation* for
  the form that names both, and so on. `InvestigateIncidentLogs` is one action: it reads a
  document that never changes and writes one. A finding has the drift type of the first
  pattern that matches, and names what its group `col` caught.
* The patch test: the actions of `CallStep` are the calls of `generate_and_test_patch` in
  order. A statement is its operation, its column and the way it names its table
  (`Refs`); `Rewritten` says for each whether `rewrite_sql_for_dataset` replaces it.
  `CallRaises`, `SandboxStepRaises` and `DryRunRaises` are exceptions outside `validate`'s
  two try blocks, in the first, in the second. A call that raises or is timed out may have
  made the dataset or stored its patch all the same, or leaves a clone or a statement in
  `late` (`LeftBehind`); `ThreadFinishes` lets that take effect at any later time.
  `Proposals` is free for Gemini and for the presets, which paste a value of the posted
  event into their text as it is (`patch.py:382-391`); only the offline heuristic takes a
  name by its pattern. A text of several statements is modelled by one of them, so the
  effects of two on one test are not combined.
  `seen`, `disturbed` and `faulted` are history only: nothing reads them but properties.

Patches are named by their place in creation order: their ids are ULIDs, which
sort that way, and one task writes them all, a network call or more apart.

Definitions whose comment starts with *Mutant* are not used by any
specification: each is a plausible bug of the definition next to it, and
`PROJECT.json` pairs each property with the mutant that violates it.

## 3. Runs

| Run | Shows |
|---|---|
| `cloud_decisions` | Firestore with store failures and crashes, two requests (symmetric), three attempts per model call, tools that fail both ways. Types; the executor's refusals are unreachable for a request that names no patch (`BackstopIsUnreachable`); nothing runs before the agents are done; no column is dropped from a table tagged pii while audits are of the incident's own dataset; step ids have no gap; no entry of the agents is replaced by one of a human or the other way round. The composition implements `DecisionProtocol` (`KeepsDecisions`): SQL takes effect once per request at most, a run that is not reported has a crash or a failed call to excuse it, an incident that is closed stays as it is, and each step uses up some of a bounded number. |
| `long_run` | Four turns and two datasets: patches and audits pile up in every order, and one request may name any of them. `AwaitingIsGoverned`, `GovernedExecution`, `RunEndLeavesFlight`. |
| `block_is_final` | Two calls per turn, so that calls follow a BLOCK in the same turn. |
| `local_lifecycle` | In local mode the composition implements `IncidentLifecycle`, although two requests race; each production run has its own decision in the trail and, once resolved, its own execution. |
| `decided_twice` | **Violation.** On Firestore SQL can run after the incident was resolved or rejected by another request. |
| `unreported_run` | **Violation.** A store failure after the SQL leaves an incident that asks for the same approval again. |
| `untested_patch` | **Violation.** A patch that failed its sandbox test can be approved and executed. |
| `war_room` | The whole path on Firestore with a human at one page: reads fail, posts are lost or given up on, instances die. An enabled button is always one the server honours (`EnabledIsGoverned`). As long as every post was answered, whatever the human clicks on a stale footer or a running script, SQL ran once at most and no decision came too late (`OnePageRunsOnce`, `OnePageIsNotRefused`); once one was given up on, both fail, which is what `decided_twice` shows of two requests. Unless an instance dies, every run settles, every received request is answered and the page does not stay in flight. |
| `pipeline_checks` | Two checks, a job that starts twice and logs lines of four kinds, which arrive in any order and may be more than a check fetches, and the investigation of what the checks open. Each incident is about an execution that failed and quotes a line of it or none; a failure that was seen is opened with a task to work on it, unless a call raises; a finding names a column, a table or a permission only if the failed execution's log says so. |
| `lost_log_line` | **Violation.** Without a SYNC FAILED line no line is quoted at all. |
| `sandbox_tests` | Two patches tested one after the other in one dataset, all generators, both modes, calls that raise, time out, take effect all the same or finish late, and a production table that changes meanwhile. Testing a statement that names its table as instructed leaves production alone; a verdict is of a schema production had during the test; seen from outside, each call is the one step of `PatchTool`. |
| `stray_statement` | **Violation.** A statement that names its table otherwise, or another table, is run on production by its own sandbox test. |

`war_room` uses `MCWarRoom`, the check's runs `MCPipelineHealth`, the sandbox's
`MCPatchSandbox`, all others `MCWardenIncident`. The five violations are findings: each
property quotes a document or comment of the repository, and the counterexample is what
the code does.

Two properties have a precondition that needs a word. `VerdictIsOfProduction` is of calls
that nothing left over disturbed: the thread of a call that timed out may replace the clone, or
run its statement on it, in the middle of the next test of the incident, whose verdict is
then of neither table (`patch.py:198` says "isolated", the dataset is shared by all calls of
an incident). `OnePageRunsOnce` is of a store that takes its writes: a 500 after the
SQL leaves an incident to approve again, which `unreported_run` shows.

Smaller divergences have no run:

* `docs/architecture.md:74` says the executor re-validates `verdict == "PASS"` while it
  accepts WARN too (`executor.py:138`); `:418` shows a status EXECUTING that no code
  sets, and no code writes DRY_RUN_ONLY; `:282-283` says a tool "retries
  once on transient `ServiceUnavailable`" and no tool does.
* A failed read of the incident ends the page's polling (`streamlit_app.py:105-110`)
  although `docs/architecture.md:403-404` has it redraw while the incident is in flight;
  `PageFollows` counts that error as an end.
* `can_execute` looks at the last audit of the incident, the server at the last of its
  latest patch, so Approve is disabled after a late BLOCK on an older patch although the
  server would execute; the other direction is `EnabledIsGoverned`, which holds.
* The trail is append-only (`app/models/state.py:80`), but on Firestore each retry of a model call
  writes the same document again, so the entries of failed attempts are lost.
* The dataset whose labels an audit reads is the model's argument, so the guard of
  `governance.py:150` is of that dataset; `NoPiiColumnIsDropped` needs it to be the
  incident's own. `allow_destructive` is the model's argument too.
* `rewrite_sql_for_dataset` also renames a table whose name begins with the target's, so a
  good patch that reads one fails in the sandbox, where no such table is.
* `contains_destructive_statement` knows DROP TABLE, DROP COLUMN and TRUNCATE TABLE
  (`bq_sandbox.py:34-36`), the docstring at `patch.py:290` says "any DROP/TRUNCATE".
* A patch without a column in its finding falls back to a fixed one
  (`patch.py:382-388`), a finding without one says `unknown_column`
  (`investigate.py:113`); where only a relation is missing its name is listed as a column.
* An incident that a check opened has a `postgres://` resource, which the patch tool
  answers with INVALID_RESOURCE_URI: such an incident is diagnosed and never patched.

### Bounds

* `MaxTurns` is 8 in the code. Two turns hold a patch and its audit, three a later
  patch, and four a later audit too: the shortest history in which the latest audit of
  the incident and the latest audit of the patch differ both ways. Every turn starts
  alike (`StartTurn` forgets all but the counters), so more turns add length, not
  kinds of steps.
* `MaxAttempts` is the code's 3 where retries matter and 1 where they do not.
* `MaxCalls`: the code has no limit; two calls let one follow a BLOCK.
* Two requests, since the races are between two; they are interchangeable, so
  `cloud_decisions` uses symmetry (it checks no liveness).
* `SqlCandidates`: a statement that is always fine and one that a PII label
  blocks; the local run adds one that draws WARN. Two datasets with different
  labels, one of them the incident's own.
* Step ids are bounded by the turns and calls.
* `war_room` has two turns, for a patch and an audit, which is what the page shows. The
  number of clicks that are posted is bounded by `Requests` (`CanBePosted`): two, for a
  second click on what the first one is doing.
* `MaxExecutions` 2: a failure, and one that comes between two calls of a check.
  `MaxLines` 3 and `MaxResults` 2 (50 in the code): an execution may have a line more than
  are fetched, among which the one with the marker need not be the newest. `SomeTexts` has
  a line for each pattern, one for the two that overlap, and one without the marker;
  `lost_log_line` has plain lines only. The bounds end the job and each check runs once, so
  `pipeline_checks` and `lost_log_line` say `CHECK_DEADLOCK FALSE`.
* `PatchSandbox`: one column, which a schema has or has not; every operation; a way of naming
  the target for each answer of the rewriting, one table with a longer name and one of
  another dataset. `MaxCalls` 2, so that a call meets what an earlier one left, and
  `MaxDrifts` 1. When they are used up the module stops, hence `CHECK_DEADLOCK FALSE`.
  `stray_statement` has one call and no failures: the test alone does it.

### Fairness

`WarRoomFairSpec` assumes weak fairness of the orchestrator as a whole, of each
request as a whole, and of what the page does by itself (`PageRuns`: the script, its timer,
its posts). The event loop resumes every coroutine whose await is over, and every await
ends: model calls and tools under `wait_for`, store and BigQuery calls by the deadlines of
their clients. A browser that is left open runs the timer, and httpx ends every call. Which
of its possible steps a coroutine takes is not assumed, nor anything of the human. The
liveness properties excuse a task or request that was lost (with its instance, which
`war_room` lets happen), since nothing restarts it, and are checked without store failures
(`_fail` swallows the failure of its own write, so a store that fails then leaves an
incident in flight too).

`PipelineSpec` and `DiagnosisSpec` assume that the calls of a check return or raise, and
nothing of the job or of the agents. `SandboxSpec` states no fairness: its properties are
safety.

## 4. Proofs

The theorems hold for every set of requests, every bound of the loop, every set of
statements, datasets and labels, both modes, with and without store failures and crashes;
for any number of checks and any log; for any number of sandbox tests and of changes to
production.

| Module | Theorem | Statement |
|---|---|---|
| `WardenIncidentProofs` | `IndInvHolds` | `Spec => []IndInv` |
| | `TypeCorrect` | `Spec => []TypeOK` |
| | `ApprovalIsGoverned` | `Spec => []AwaitingIsGoverned` |
| | `ExecutionIsGoverned` | `Spec => []GovernedExecution` |
| | `RunsFollowConclusion` | `Spec => []NoRunBeforeConclusion` |
| | `BackstopHolds` | `Spec => []BackstopIsUnreachable` |
| `WardenEndProofs` | `BlockVerdictIsFinal` | `Spec => BlockIsFinal` |
| | `RunEndIsSaid` | `Spec => []RunEndLeavesFlight` |
| | `PiiIsGuarded` | `Spec => []NoPiiColumnIsDropped` |
| | `FirestoreTrailIsGapless` | `Spec => []FirestoreTrailHasNoGap` |
| | `AgentsTrailIsKept` | `Spec => AgentTrailIsKept` |
| | `StepsBounded` | `Spec => StepsAreBounded` |
| `DecisionProtocolProofs` | `ProtocolInvHolds` | `Spec => []ProtocolInv` (of `DecisionProtocol`, as the next two) |
| | `ProtocolEnds` | `Spec => OverIsFinal` |
| | `AloneDecidesLast` | one request implies `Spec => NoLateRun` |
| `DecisionProofs` | `DecisionsAreKept` | `Spec => KeepsDecisions` |
| | `ResolvedMeansRun` | `Spec => []ResolvedWasRun` |
| | `RunsAreRequested` | finitely many requests imply `Spec => []OneRunPerRequest` |
| | `ClosedStays` | `Spec => ClosedIsFinal` |
| | `UnreportedIsExcused` | `Spec => []UnreportedRunsAreExcused` |
| | `ReportedWithoutFaults` | no store failures, no crashes imply `Spec => []RunsAreReported` |
| | `AloneRunsFirst` | one request implies `Spec => NoRunAfterDecision` |
| `LifecycleProofs` | `LifecycleIsKept` | `Mode = "local"` implies `Spec => KeepsLifecycle` |
| | `TrailTellsRuns` | `Spec => []LocalTrailTellsRuns` |
| `WarRoomProofs` | `WarRoomInvHolds` | `WarRoomSpec => []WarRoomInv` |
| | `WarRoomTypeCorrect` | `WarRoomSpec => []WarRoomTypeOK` |
| | `EnabledButtonIsHonoured` | `WarRoomSpec => []EnabledIsGoverned` |
| | `WarRoomRunsGoverned` | `WarRoomSpec => []GovernedExecution` |
| | `OnePageInvHolds` | `WarRoomSpec => []OnePageInv` |
| | `OnePageRefusals` | `WarRoomSpec => []OnePageIsNotRefused` |
| | `OnePageRuns` | `WarRoomSpec => []OnePageRunsOnce` |
| `PipelineDiagnosisProofs` | `PipelineTypeCorrect` | `PipelineSpec => []PipelineTypeOK` |
| | `EvidenceHolds` | `PipelineSpec => []EvidenceIsOfTheFailure` |
| | `DiagnosisHolds` | `DiagnosisSpec => []DiagnosisIsOfTheFailure` |
| `PatchSandboxProofs` | `SandboxTypeCorrect` | `SandboxSpec => []SandboxTypeOK` |
| | `InstructedTestsAreIsolated` | `SandboxSpec => InstructedTestsLeaveProduction` |
| | `VerdictsAreOfProduction` | `SandboxSpec => []VerdictIsOfProduction` |
| | `InstructedStatementsStayInSandbox` | all statements instructed implies `SandboxSpec => TestsLeaveProduction` |
| | `SandboxIsOneTool` | `SandboxSpec => IsOneTool` |

The assumptions are those of the modules: `ModeAssumption`, `LoopAssumption`,
`GovernanceAssumption`, `PageAssumption`, `PipelineAssumption`, `SandboxConstants`. TLC
evaluates them in every run. `RunsAreRequested` counts the members of a set that is a
constant and so assumes it finite, which the requests an incident receives always are. Four
more have a hypothesis of their own (`ReportedWithoutFaults`, `AloneDecidesLast`,
`AloneRunsFirst`, `InstructedStatementsStayInSandbox`): they say when a promise holds that the code breaks in general; see the end of this section.
What is strengthened below was checked by TLC on the instance
of its run before it was proved.

**Governance.** `GovernedExecution` is not inductive: the executor checks the audit
and runs the SQL three calls later, and what it checked could have changed. It does
not, because agents write patches and audits only inside the loop
(`OrchestratorControl`), and no request passes the status check before the loop is
over. That is `DecisionsFollowConclusion`: while `orch.pc` is in `WorkingPCs` the incident
does not await approval, no request is past its check and nothing has run. So what an
admitted request has read stays true, which `AdmittedAreGoverned` says for each
place it can be in. `CountersAreSet` and `UnansweredUntilDone` carry the rest: a step
id is positive when used, an answer is given once.

`InitIndInv` and `NextIndInv` are the two halves. The orchestrator's half
(`OrchestratorStep`) splits into types, counters and control; the requests' half
(`RequestStep`) describes one request by `RequestOK` and shows for each action that it
leaves one request in an allowed state (`RequestEffect`) and what it writes
(`RequestWrites`).

**A BLOCK and the run's end.** `BlockStopsLoop` says where the task can be once `blocked` is
set: still among the calls of that turn, or out of the loop. From there on `Barred` is
kept: the incident does not await approval, and no way back into the loop exists.
`EndIsSaid` says that the loop's last write precedes its end and that `_fail` always
has an error to report.

**PII.** An audit is of one patch and one dataset's labels, and its verdict is what the checks
make of the two (`AuditsAreHonest`); patches are never rewritten. With
`GovernedExecution` the patch that ran has an audit that is not BLOCK, and when all audits
are of the incident's dataset it is one that looked for the pii label.

**The trail.** `NoGap` needs to know what number each writer holds: at each await the task's
counter is that of the last entry or of the next (`TaskNumbers`), and the number a
request took is at most one past the end (`RequestNumbers`). It may be an old one by the
time it is used, and then it replaces an entry; `EntriesAreApart` says whose: a
request takes its number after the agents are done, so it is above every entry of theirs.

**Local mode.** `LocalInv` says that one handler at most is under way and holds what it
read (`OneAtATime`, `Acts`), that the task's position tells the status (`TaskShowsStatus`),
and which numbers the trail has (`StepIdsFit`, `TaskIdsFit`), so that the entries of the one
production run are the ones a reader of the trail takes for it (`RunIsOne`). Every step then
is a step of `IncidentLifecycle` under the mapping of `WardenIncident`, or a stutter.

**The decision protocol.** Most of `IncidentLifecycle` is lost on Firestore: that runs exclude
each other and precede every decision, and that the trail tells them. `DecisionProtocol` is
what is left, and it is proved for both modes with
every failure. The mapping reads an admitted request's *stage* off its place in the executor
(`Stage`): it is *executing* until the SQL's call has returned, then *written* or, when that
call raised, *unsure*; a request that is answered or lost is *over*. What has to be known of a
state for its next step to be one of the protocol is what status the task
has written, `WorkShowsStatus`; `TaskTakes` sums up all actions of the task in the four
ways they touch the status, and `RequestDecides` has one step per action of the executor.
`NextDecides` puts them together. A crash is `AgentsEnd` or `Abandon`.

What the protocol promises is proved of its four variables alone and then holds of
the system: `Protocol` instantiates the theorems of `DecisionProtocolProofs` under the mapping and
`SameProtocol` says that it is the same specification. `ResolvedMeansRun` comes from
`ResolvedIsRun`, `ClosedStays` from `ProtocolEnds`, `AloneRunsFirst` from `AloneDecidesLast`. The
way back from a number of runs to the runs is `RunsGrow`: every step keeps those there were.

`OneRunPerRequest` counts: in the protocol, a step that adds a run adds a request to those that
are past their one call, and no step takes one back (`SpentGrows`). `UnreportedRunsAreExcused` is the answer to `unreported_run`:
each request that ran SQL accounts for it (`Accounts`), and leaves off only by settling the
incident, which takes it out of AWAITING_APPROVAL, by an exception or by dying
(`AccountsGoOn`).

**Bounded steps.** `StepsLeft` bounds the steps the task may still take at each of its places, by
the turns, calls and attempts left; `CallsLeft` the calls of a request. Every step of either uses some
up (`TaskUsesUp`, `RequestUsesUp`), and `LoopBounds` says that the counters stay
within their bounds. Together with `RunEndLeavesFlight`, by which a task at its end has taken the
incident out of flight, that is the safety core of `RunSettles`: what fairness adds is that a
step is taken while one is possible.

**The page.** A page may be arbitrarily old, so `EnabledIsGoverned` needs to know that
nothing it depends on changes any more. `WarRoomIsIncident` shows that every step of the war
room is a step of the incident or leaves it alone, so `IndInv` is kept; `ConclusionIsFinal`
that once the loop is over no step writes a patch or an audit. Then `ShownIsGoverned` is
inductive: whoever was ever shown an incident awaiting approval was shown it after
the loop. That the page looks at the last audit of the incident and the server at the last of
the patch cannot matter in this direction.

**One page.** While no post was given up on, a request that is served is the one the script is
blocked in (`WaitsForItsRequest`), and a script that goes from its reads to a click
has just read a status that nothing but a late `_fail` changes before its post arrives
(`ActsOnAwaiting`, `StillAwaiting`). So a refusal is one that will stand
(`RefusedForGood`), and a run is followed by a status that admits no other (`RunIsShown`).

**The check and the diagnosis.** `EvidenceIsOfTheFailure` rests on `ChecksSawAFailure`:
between its calls a check holds an execution that has failed and a line of it or none
(`ErrorLineIsAnEntry`). The job's steps preserve it because a failed execution stays failed
(`JobStep`). `DiagnosisInv` adds that an incident quotes a line of the log
(`LinesAreLogged`) and that a finding is what triage makes of its incident
(`FindingsAreTriaged`); both are kept because incidents only grow and a log that takes a
line anywhere keeps those it has (`WithLineKeepsLines`).

The modules that compose keep the theorems of what they compose: `WarRoomIsIncident` and
`DiagnosisIsPipeline` show that each step of theirs is one of `WardenIncident` or of
`PipelineHealth`, or leaves its variables alone.

**The sandbox.** That instructed tests are isolated follows from the step alone
(`InstructedStayInSandbox`, `OnlyStrayStatementsWrite`): a statement reaches
production's data only where rewriting left its name. That a verdict is of production is
`CallSound`: it says for each place of the call what the clone, the two schemas read around
the statement and the errors so far have to do with the schemas production had, as long as
nothing left over from an earlier call wrote to the dataset.

That a call is one step for the orchestrator is the refinement of `PatchTool`: only its last
write stores anything, whether it returns, raises or is cut off, and what it stores is one of the `SandboxOutcomes` that
`WardenOrchestrator` chooses from (`NextIsOneTool`). That needs `ErrorsAreOfTheMode`: by
the time a patch is stored, one that was refused has an error, and in local mode no other has.

**When the broken promises hold.** Three of the findings are bounded by theorems. `unreported_run`
needs a store failure or a crash (`ReportedWithoutFaults`); `decided_twice` needs two requests
(`AloneRunsFirst`); `stray_statement` needs a statement that names its table otherwise than
Gemini is instructed to (`InstructedStatementsStayInSandbox`), which may be Gemini's or a
preset's. Nothing in the code sees to the last: the offline heuristic alone keeps to it.

**Only model-checked:** the liveness properties `RunSettles`, `RequestsAreAnswered`,
`PageFollows` and `SeenFailureIsOpened`. Liveness under fairness is out of the prover's
reach. The five violations are counterexamples, which need no proof.

## 5. Not modelled

* What Gemini and Gemma answer: the model's turns are free choices, a generated statement
  is any of the configured ones, and the Gemma service is not a backend of the modelled
  investigation.
* The demo scenarios: their canned findings and the texts of the presets. Rationales,
  summaries, latencies, tool arguments other than those named above: nothing decides on them.
* The text of SQL and of log lines: which patterns a text matches is an input of the
  models.
* Prompts, client construction, the tool registry, configuration and logging: they keep no
  state that an incident's course depends on.
* The deployment scripts and `scripts/render_architecture.py`, which draws a picture.
* The step stream (`stream_steps`): nothing in the application calls it.
* The history view, the contents of the tabs, and more than one page on an incident:
  several pages are several requests, which `WardenIncident` covers.
* Several incidents for one failure: each is an incident like any other, and no code relates
  them. Other hazards without a property are in `PROJECT.json`, with the reason.

## 6. Plan

Done:

1. `GovernancePolicy`, `IncidentStore`, `WardenOrchestrator`: the agents' side.
2. `RemediationExecutor`, `WardenIncident`: decisions, races, crashes.
3. `IncidentLifecycle` and the refinement in local mode.
4. `WardenIncidentProofs`: the inductive invariant.
5. `WarRoom` over `WardenIncident`, `PipelineHealth`, and their proofs.
6. `PatchSandbox`: rewriting, the two executors, late threads.
7. `PipelineDiagnosis`: what the agents make of a log line.
8. Proofs of every safety property of the passing runs.
9. `DecisionProtocol` and `PatchTool`: what the system promises in both modes, and what the tool
   promises the loop, with their refinements proved; theorems that say when the promises of
   three findings hold.

To do:

10. The trail on Firestore: which entries a human's may replace, as a refinement of an
    append-only log with overwriting, and the page's reads of it.
11. The two outcomes of `WriteOutcomes` derived from a store that is called through threads, as
    `PatchTool` is from its calls.
12. Ingestion with two incidents of one failure, from repeated deliveries and repeated
    checks, once the code says what should become of the second.
13. The history view over a changing list of incidents.
14. `stream_steps`, once something calls it.
