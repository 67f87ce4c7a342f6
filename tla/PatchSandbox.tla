---------------------------- MODULE PatchSandbox ----------------------------
(***************************************************************************)
(* generate_and_test_patch (app/agents/tools/patch.py) and the BigQuery    *)
(* sandbox it tests in (app/agents/bq_sandbox.py), for one incident.  The  *)
(* orchestrator runs one tool at a time, so the incident has one call;     *)
(* each action is the code up to and including one awaited call.           *)
(*                                                                         *)
(* pc names what the call waits for:                                       *)
(*   idle      no call                 before  get_table_schema            *)
(*   generate  the generator           run     run_sandbox_statement       *)
(*   locate    get_dataset_location    after   get_table_schema            *)
(*   ensure    ensure_sandbox_dataset  dry     dry_run_bytes_processed     *)
(*   clone     clone_table_to_sandbox  store   write_patch                 *)
(*                                                                         *)
(* WARDEN_TOOL_TIMEOUT_S cancels the coroutine, not the thread that        *)
(* asyncio.to_thread gave the BigQuery call to, and a job whose result the *)
(* client failed to get goes on: what was asked for is in late until it    *)
(* takes effect, if it ever does.                                          *)
(*                                                                         *)
(* A schema is the set of the columns a patch may be about.  Three tables  *)
(* of production: the target, one of the same dataset whose name begins    *)
(* with the target's, and one of another dataset.                          *)
(***************************************************************************)
EXTENDS Naturals, Sequences

CONSTANTS
  Columns,
  Statements,     \* what a generator may come up with
  ToolTimeouts,   \* a call may exceed its timeout
  Faults,         \* BigQuery, Gemini or Firestore may raise for reasons of their own
  MaxCalls, MaxDrifts

Tables == {"target", "longer", "other"}

\* `p.d.t` and `d.t`, and `p`.`d`.`t` with each part quoted.
Refs == [table : Tables, form : {"qualified", "dataset", "parts"}]

\* add: ADD COLUMN; ensure: ADD COLUMN IF NOT EXISTS; drop: DROP COLUMN;
\* use: any statement that needs the column and leaves the schema alone.
SQL == [op : {"add", "ensure", "drop", "use"}, column : Columns, ref : Refs]

Schemas == SUBSET Columns

Settings == [mode      : {"local", "cloud"},                 \* WARDEN_MODE
             generator : {"heuristic", "free"},  \* free: Gemini, or a preset
             resource  : {"bigquery", "unsupported"}]        \* the incident's URI

ASSUME SandboxConstants ==
  /\ Statements \subseteq SQL
  /\ {ToolTimeouts, Faults} \subseteq BOOLEAN
  /\ {MaxCalls, MaxDrifts} \subseteq Nat

VARIABLES
  setting,     \* the process's settings and the incident, which do not change
  production,  \* the schema of each production table
  sandbox,     \* the incident's sandbox dataset and the target's clone in it
  late,        \* what calls that were given up may still do
  pc, sql, allow_destructive, before_schema, after_schema, errors,  \* the call
  patches,     \* the incident's patches, in the order written
  seen,        \* history: the target's schemas since the call began
  disturbed,   \* history: a late thread took effect since the call's own clone
  faulted,     \* history: a BigQuery call of this call failed by itself
  calls, drifts

callVars == <<pc, sql, allow_destructive, before_schema, after_schema, errors>>
history  == <<seen, disturbed, faulted>>
vars == <<setting, production, sandbox, late, callVars, patches, history,
          calls, drifts>>

Patch == [sql : SQL, tested : {"rejected", "text", "bigquery"},
          validation_status : {"SANDBOX_PASS", "SANDBOX_FAIL"},
          before_schema : Schemas, after_schema : Schemas,
          seen : SUBSET Schemas, disturbed : BOOLEAN, faulted : BOOLEAN]

Jobs == [call : Nat, pc : {"clone", "run"}, sql : SQL]

\* What a call has no use for yet holds the value of the call before it, or
\* at first that of any statement.
SandboxTypeOK ==
  /\ setting \in Settings
  /\ production \in [Tables -> Schemas]
  /\ sandbox \in [dataset : BOOLEAN, cloned : BOOLEAN, columns : Schemas]
  /\ late \in SUBSET Jobs
  /\ pc \in {"idle", "generate", "locate", "ensure", "clone", "before", "run",
             "after", "dry", "store"}
  /\ sql \in SQL
  /\ allow_destructive \in BOOLEAN
  /\ before_schema \in Schemas /\ after_schema \in Schemas
  /\ errors \in BOOLEAN
  /\ patches \in Seq(Patch)
  /\ seen \in SUBSET Schemas
  /\ disturbed \in BOOLEAN /\ faulted \in BOOLEAN
  /\ calls \in Nat /\ drifts \in Nat

SandboxInit ==
  /\ setting \in Settings
  /\ production \in [Tables -> Schemas]
  /\ sandbox = [dataset |-> FALSE, cloned |-> FALSE, columns |-> {}]
  /\ late = {}
  /\ pc = "idle" /\ sql \in Statements /\ allow_destructive = FALSE
  /\ before_schema = {} /\ after_schema = {} /\ errors = FALSE
  /\ patches = <<>>
  /\ seen = {} /\ disturbed = FALSE /\ faulted = FALSE
  /\ calls = 0 /\ drifts = 0

-----------------------------------------------------------------------------
(* Statements *)

\* contains_destructive_statement
Destructive(s) == s.op = "drop"

\* Mutant: only the fully qualified name is replaced.
RewrittenQualifiedOnly(ref) ==
  ref.table \in {"target", "longer"} /\ ref.form = "qualified"

\* rewrite_sql_for_dataset: two textual replacements, of p.d.t and of d.t.
\* Neither asks what follows t, so that the longer name is renamed as well.
Rewritten(ref) ==
  ref.table \in {"target", "longer"} /\ ref.form \in {"qualified", "dataset"}

\* parse_added_columns
AddedColumns(s) == IF s.op \in {"add", "ensure"} THEN {s.column} ELSE {}

\* BigQuery accepts the statement on a table with this schema.
Possible(s, schema) ==
  /\ s.op = "add" => s.column \notin schema
  /\ s.op \in {"drop", "use"} => s.column \in schema

Effect(s, schema) ==
  (schema \cup AddedColumns(s)) \ (IF s.op = "drop" THEN {s.column} ELSE {})

\* The sandbox holds a clone of the target and of nothing else.
SandboxAccepts(s) ==
  IF Rewritten(s.ref)
  THEN s.ref.table = "target" /\ sandbox.cloned /\ Possible(s, sandbox.columns)
  ELSE Possible(s, production[s.ref.table])

SetProduction(table, schema) ==
  /\ production' = [production EXCEPT ![table] = schema]
  /\ seen' = seen \cup {production'["target"]}

\* The rewritten statement takes effect, in the sandbox or where it was not
\* rewritten in production.
SandboxRuns(s) ==
  IF Rewritten(s.ref)
  THEN /\ sandbox' = [sandbox EXCEPT !.columns = Effect(s, @)]
       /\ UNCHANGED <<production, seen>>
  ELSE /\ SetProduction(s.ref.table, Effect(s, production[s.ref.table]))
       /\ UNCHANGED sandbox

-----------------------------------------------------------------------------
(* The call *)

\* get_incident; an unsupported resource is answered INVALID_RESOURCE_URI.
Start ==
  /\ pc = "idle" /\ calls < MaxCalls
  /\ calls' = calls + 1
  /\ allow_destructive' \in BOOLEAN
  /\ pc' = IF setting.resource = "bigquery" THEN "generate" ELSE "idle"
  /\ seen' = {production["target"]} /\ faulted' = FALSE
  /\ UNCHANGED <<setting, production, sandbox, late, sql, before_schema,
                 after_schema, errors, patches, disturbed, drifts>>

\* The offline heuristic names the target as it should, with the column that
\* its pattern takes for one.  A preset pastes filter_column or dropped_column
\* of the posted event into its statement as it stands, so that its text is as
\* free as Gemini's answer.
Proposals ==
  IF setting.generator = "heuristic"
  THEN {s \in Statements : /\ s.op \in {"ensure", "use"}
                           /\ s.ref = [table |-> "target", form |-> "qualified"]}
  ELSE Statements

\* A destructive statement is not tested unless allowed; the local executor
\* passes everything, with the schemas it reads off the text.
Generate ==
  /\ pc = "generate"
  /\ \E s \in Proposals :
       /\ sql' = s
       /\ \/ /\ Destructive(s) /\ ~allow_destructive
             /\ pc' = "store" /\ errors' = TRUE
             /\ before_schema' = {} /\ after_schema' = {}
          \/ /\ ~Destructive(s) \/ allow_destructive
             /\ setting.mode = "local"
             /\ pc' = "store" /\ errors' = FALSE
             /\ before_schema' = {} /\ after_schema' = AddedColumns(s)
          \/ /\ ~Destructive(s) \/ allow_destructive
             /\ setting.mode = "cloud"
             /\ pc' = "locate" /\ errors' = FALSE
             /\ UNCHANGED <<before_schema, after_schema>>
  /\ UNCHANGED <<setting, production, sandbox, late, allow_destructive, patches,
                 history, calls, drifts>>

GetDatasetLocation ==
  /\ pc = "locate" /\ pc' = "ensure"
  /\ UNCHANGED <<setting, production, sandbox, late, sql, allow_destructive,
                 before_schema, after_schema, errors, patches, history, calls, drifts>>

\* exists_ok=True
EnsureSandboxDataset ==
  /\ pc = "ensure" /\ pc' = "clone"
  /\ sandbox' = [sandbox EXCEPT !.dataset = TRUE]
  /\ UNCHANGED <<setting, production, late, sql, allow_destructive,
                 before_schema, after_schema, errors, patches, history, calls, drifts>>

\* Mutant: CREATE TABLE IF NOT EXISTS ... CLONE
CloneOnce(box) ==
  IF box.cloned THEN box
  ELSE [box EXCEPT !.cloned = TRUE, !.columns = production["target"]]

\* CREATE OR REPLACE TABLE ... CLONE
CloneOf(box) == [box EXCEPT !.cloned = TRUE, !.columns = production["target"]]

CloneTableToSandbox ==
  /\ pc = "clone" /\ sandbox.dataset /\ pc' = "before"
  /\ sandbox' = CloneOf(sandbox)
  /\ disturbed' = FALSE
  /\ UNCHANGED <<setting, production, late, sql, allow_destructive, before_schema,
                 after_schema, errors, patches, seen, faulted, calls, drifts>>

\* after_schema = before_schema until the statement has run.
GetSchemaBefore ==
  /\ pc = "before" /\ pc' = "run"
  /\ before_schema' = sandbox.columns /\ after_schema' = sandbox.columns
  /\ UNCHANGED <<setting, production, sandbox, late, sql, allow_destructive,
                 errors, patches, history, calls, drifts>>

\* Refused by BigQuery: no second look at the schema.
RunSandboxStatement ==
  /\ pc = "run"
  /\ \/ /\ SandboxAccepts(sql) /\ SandboxRuns(sql)
        /\ pc' = "after" /\ UNCHANGED errors
     \/ /\ ~SandboxAccepts(sql)
        /\ pc' = "dry" /\ errors' = TRUE
        /\ UNCHANGED <<sandbox, production, seen>>
  /\ UNCHANGED <<setting, late, sql, allow_destructive, before_schema, after_schema,
                 patches, disturbed, faulted, calls, drifts>>

GetSchemaAfter ==
  /\ pc = "after" /\ pc' = "dry"
  /\ after_schema' = sandbox.columns
  /\ UNCHANGED <<setting, production, sandbox, late, sql, allow_destructive,
                 before_schema, errors, patches, history, calls, drifts>>

\* The dry run may refuse what would fail on production, and nothing else.
DryRun ==
  /\ pc = "dry" /\ pc' = "store"
  /\ \/ UNCHANGED errors
     \/ ~Possible(sql, production[sql.ref.table]) /\ errors' = TRUE
  /\ UNCHANGED <<setting, production, sandbox, late, sql, allow_destructive,
                 before_schema, after_schema, patches, history, calls, drifts>>

\* Mutant: a patch whose sandbox run failed keeps what the dry run says.
VerdictByDryRun ==
  IF ~errors THEN "SANDBOX_PASS"
  ELSE IF before_schema = after_schema THEN "DRY_RUN_ONLY" ELSE "SANDBOX_FAIL"

Verdict == IF errors THEN "SANDBOX_FAIL" ELSE "SANDBOX_PASS"

Tested == IF Destructive(sql) /\ ~allow_destructive THEN "rejected"
          ELSE IF setting.mode = "cloud" THEN "bigquery" ELSE "text"

PatchPayload ==
  [sql |-> sql, tested |-> Tested, validation_status |-> Verdict,
   before_schema |-> before_schema, after_schema |-> after_schema,
   seen |-> seen, disturbed |-> disturbed, faulted |-> faulted]

WritePatch ==
  /\ pc = "store" /\ pc' = "idle"
  /\ patches' = Append(patches, PatchPayload)
  /\ UNCHANGED <<setting, production, sandbox, late, sql, allow_destructive,
                 before_schema, after_schema, errors, history, calls, drifts>>

-----------------------------------------------------------------------------
(* What goes wrong *)

\* A BigQuery job or thread that nobody waits for any more.
Detached == [call |-> calls, pc |-> pc, sql |-> sql]

\* What the call asked for before it was given up: nothing that lasts, or a
\* write, done by the time it is (the dataset, the patch) or left to a job.
LeftBehind ==
  \/ UNCHANGED <<sandbox, late, patches>>
  \/ /\ pc = "ensure"
     /\ sandbox' = [sandbox EXCEPT !.dataset = TRUE]
     /\ UNCHANGED <<late, patches>>
  \/ /\ pc \in {"clone", "run"}
     /\ late' = late \cup {Detached}
     /\ UNCHANGED <<sandbox, patches>>
  \/ /\ pc = "store"
     /\ patches' = Append(patches, PatchPayload)
     /\ UNCHANGED <<sandbox, late>>

\* Nothing catches an exception outside validate's two try blocks.
CallRaises ==
  /\ Faults /\ pc \in {"generate", "locate", "ensure", "clone", "before", "store"}
  /\ pc' = "idle"
  /\ LeftBehind
  /\ UNCHANGED <<setting, production, sql, allow_destructive, before_schema,
                 after_schema, errors, history, calls, drifts>>

\* In the first block; a statement whose result was lost may have run, or may
\* run later.
SandboxStepRaises ==
  /\ Faults /\ pc \in {"run", "after"}
  /\ pc' = "dry" /\ errors' = TRUE /\ faulted' = TRUE
  /\ \/ UNCHANGED <<sandbox, production, seen, late>>
     \/ /\ pc = "run" /\ SandboxAccepts(sql) /\ SandboxRuns(sql)
        /\ UNCHANGED late
     \/ /\ pc = "run" /\ late' = late \cup {Detached}
        /\ UNCHANGED <<sandbox, production, seen>>
  /\ UNCHANGED <<setting, sql, allow_destructive, before_schema, after_schema,
                 patches, disturbed, calls, drifts>>

\* In the second.
DryRunRaises ==
  /\ Faults /\ pc = "dry"
  /\ pc' = "store" /\ errors' = TRUE /\ faulted' = TRUE
  /\ UNCHANGED <<setting, production, sandbox, late, sql, allow_destructive,
                 before_schema, after_schema, patches, seen, disturbed, calls, drifts>>

\* asyncio.wait_for gives the call up.
ToolTimeout ==
  /\ ToolTimeouts /\ pc # "idle"
  /\ pc' = "idle"
  /\ LeftBehind
  /\ UNCHANGED <<setting, production, sql, allow_destructive, before_schema,
                 after_schema, errors, history, calls, drifts>>

ThreadFinishes(job) ==
  /\ late' = late \ {job}
  /\ disturbed' = TRUE
  /\ \/ /\ job.pc = "clone" /\ sandbox.dataset
        /\ sandbox' = CloneOf(sandbox)
        /\ UNCHANGED <<production, seen>>
     \/ /\ job.pc = "run" /\ SandboxAccepts(job.sql) /\ SandboxRuns(job.sql)
     \/ /\ job.pc = "run" /\ ~SandboxAccepts(job.sql)
        /\ UNCHANGED <<sandbox, production, seen>>
  /\ UNCHANGED <<setting, callVars, patches, faulted, calls, drifts>>

\* Other jobs, and the patches of other incidents, change the target.
Drift ==
  /\ drifts < MaxDrifts /\ drifts' = drifts + 1
  /\ \E schema \in Schemas \ {production["target"]} : SetProduction("target", schema)
  /\ UNCHANGED <<setting, sandbox, late, callVars, patches, disturbed, faulted, calls>>

-----------------------------------------------------------------------------
CallStep ==
  \/ Start \/ Generate \/ GetDatasetLocation \/ EnsureSandboxDataset
  \/ CloneTableToSandbox \/ GetSchemaBefore \/ RunSandboxStatement
  \/ GetSchemaAfter \/ DryRun \/ WritePatch

Trouble ==
  \/ CallRaises \/ SandboxStepRaises \/ DryRunRaises \/ ToolTimeout
  \/ \E job \in late : ThreadFinishes(job)
  \/ Drift

SandboxNext == CallStep \/ Trouble

SandboxSpec == SandboxInit /\ [][SandboxNext]_vars

-----------------------------------------------------------------------------
(* Properties *)

\* The names rewrite_sql_for_dataset is written for: the generators are told
\* to use them, and nothing checks that what they return does.
Instructed(s) == s.ref.table = "target" /\ s.ref.form \in {"qualified", "dataset"}

\* The statements BigQuery may be running for the incident.
Running == (IF pc = "run" THEN {sql} ELSE {})
           \cup {job.sql : job \in {j \in late : j.pc = "run"}}

\* Testing a statement that names the target as instructed leaves production
\* alone, whatever else fails, times out or finishes late.
InstructedTestsLeaveProduction ==
  [][production' # production =>
       \/ drifts' # drifts
       \/ \E s \in Running : ~Instructed(s)]_vars

\* README.md: patches are tested "in a BigQuery sandbox" and a human comes
\* "before any production write".
TestsLeaveProduction == [][production' # production => drifts' # drifts]_vars

\* The verdict on a patch is of the table it is for: the test began on a
\* schema production had during the call, a pass is a statement BigQuery
\* accepts there with the effect shown, and a failure that is not a fault of
\* BigQuery's is a statement that some schema of production did not accept.
VerdictIsOf(p) ==
  /\ p.before_schema \in p.seen
  /\ p.validation_status = "SANDBOX_PASS" =>
       /\ Possible(p.sql, p.before_schema)
       /\ p.after_schema = Effect(p.sql, p.before_schema)
  /\ p.validation_status = "SANDBOX_FAIL" /\ ~p.faulted =>
       \E schema \in p.seen : ~Possible(p.sql, schema)

\* So it is for every patch that ran in BigQuery under the names it should
\* use, unless a job that had been given up took effect in the middle.
VerdictIsOfProduction ==
  \A i \in DOMAIN patches :
    /\ patches[i].tested = "bigquery" /\ Instructed(patches[i].sql)
    /\ ~patches[i].disturbed
    => VerdictIsOf(patches[i])

-----------------------------------------------------------------------------
(* Refinement *)

Tool == INSTANCE PatchTool
          WITH mode   <- setting.mode,
               busy   <- pc # "idle",
               stored <- [i \in DOMAIN patches |->
                            [destructive       |-> Destructive(patches[i].sql),
                             validation_status |-> patches[i].validation_status]]

\* Whatever the sandbox goes through, for the rest of the system a call is one
\* step that stores a patch with one of SandboxOutcomes, or stores nothing.
IsOneTool == Tool!Spec
=============================================================================
