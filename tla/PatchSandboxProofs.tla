------------------------- MODULE PatchSandboxProofs -------------------------
(***************************************************************************)
(* What the sandbox shows of a patch, for all statements, any number of    *)
(* calls and of changes to production: a statement that names its target   *)
(* as instructed is tested off production, and its verdict is of the       *)
(* schemas production had during the call.                                 *)
(***************************************************************************)
EXTENDS PatchSandbox, TLAPS, SequenceTheorems

-----------------------------------------------------------------------------
(* Types *)

\* What a statement makes of a schema is a schema.
LEMMA EffectType ==
  ASSUME NEW s \in SQL, NEW schema \in Schemas
  PROVE  Effect(s, schema) \in Schemas
BY DEF SQL, Schemas, Effect, AddedColumns

\* A statement that runs keeps the tables well-typed.
LEMMA SandboxRunsType ==
  ASSUME SandboxTypeOK, NEW s \in SQL, SandboxRuns(s)
  PROVE  /\ sandbox' \in [dataset : BOOLEAN, cloned : BOOLEAN, columns : Schemas]
         /\ production' \in [Tables -> Schemas]
         /\ seen' \in SUBSET Schemas
<1>1. CASE Rewritten(s.ref)
  BY <1>1, EffectType DEF SandboxTypeOK, SandboxRuns
<1>2. CASE ~Rewritten(s.ref)
  <2>1. s.ref.table \in Tables
    BY DEF SQL, Refs
  <2>2. production[s.ref.table] \in Schemas
    BY <2>1 DEF SandboxTypeOK
  <2> DEFINE schema == Effect(s, production[s.ref.table])
  <2>3. schema \in Schemas
    BY <2>2, EffectType
  <2>4. /\ production' = [production EXCEPT ![s.ref.table] = schema]
        /\ seen' = seen \cup {production'["target"]}
        /\ sandbox' = sandbox
    BY <1>2 DEF SandboxRuns, SetProduction
  <2> HIDE DEF schema
  <2>5. production' \in [Tables -> Schemas]
    BY <2>1, <2>3, <2>4 DEF SandboxTypeOK
  <2> QED
    BY <2>4, <2>5 DEF SandboxTypeOK, Tables
<1> QED
  BY <1>1, <1>2

\* Before the first call the variables have their types.
LEMMA InitSandboxType == SandboxInit => SandboxTypeOK
<1> SUFFICES ASSUME SandboxInit PROVE SandboxTypeOK
  OBVIOUS
<1> USE DEF SandboxInit
<1>1. {} \in Schemas /\ {} \in SUBSET Schemas
  BY DEF Schemas
<1>2. sandbox \in [dataset : BOOLEAN, cloned : BOOLEAN, columns : Schemas]
  BY <1>1
<1>3. sql \in SQL /\ late \in SUBSET Jobs /\ patches \in Seq(Patch)
  BY SandboxConstants
<1> QED
  BY <1>1, <1>2, <1>3 DEF SandboxTypeOK

\* A patch is a patch, and a job that is left to itself is a job.
LEMMA PatchPayloadType == SandboxTypeOK => PatchPayload \in Patch
BY DEF SandboxTypeOK, PatchPayload, Patch, Tested, Verdict

LEMMA DetachedType ==
  SandboxTypeOK /\ pc \in {"clone", "run"} => Detached \in Jobs
BY DEF SandboxTypeOK, Detached, Jobs

\* What a call leaves behind is of the types.
LEMMA LeftBehindType ==
  ASSUME SandboxTypeOK, LeftBehind
  PROVE  /\ sandbox' \in [dataset : BOOLEAN, cloned : BOOLEAN, columns : Schemas]
         /\ late' \in SUBSET Jobs
         /\ patches' \in Seq(Patch)
<1>1. PatchPayload \in Patch /\ patches \in Seq(Patch)
  BY PatchPayloadType DEF SandboxTypeOK
<1>2. patches' \in Seq(Patch)
  BY <1>1 DEF LeftBehind
<1>3. late' \in SUBSET Jobs
  BY DetachedType DEF LeftBehind, SandboxTypeOK
<1>4. sandbox' \in [dataset : BOOLEAN, cloned : BOOLEAN, columns : Schemas]
  BY DEF LeftBehind, SandboxTypeOK
<1> QED
  BY <1>2, <1>3, <1>4

\* Every step of a call, a late thread or production keeps the types.
LEMMA NextSandboxType ==
  ASSUME SandboxTypeOK, [SandboxNext]_vars
  PROVE  SandboxTypeOK'
<1> USE DEF SandboxTypeOK
<1>1. CASE Start
  <2>1. production["target"] \in Schemas
    BY DEF Tables
  <2>2. calls' \in Nat
    BY <1>1 DEF Start
  <2>3. pc' \in {"idle", "generate"}
    BY <1>1 DEF Start
  <2>4. seen' = {production["target"]} /\ faulted' = FALSE
    BY <1>1 DEF Start
  <2>5. allow_destructive' \in BOOLEAN
    BY <1>1 DEF Start
  <2> QED
    BY <1>1, <2>1, <2>2, <2>3, <2>4, <2>5 DEF Start
<1>2. CASE Generate
  <2>1. PICK s \in Proposals : Generate!2!(s)
    BY <1>2 DEF Generate
  <2>2. s \in SQL
    BY SandboxConstants DEF Proposals
  <2>3. AddedColumns(s) \in Schemas /\ {} \in Schemas
    BY <2>2 DEF AddedColumns, SQL, Schemas
  <2> QED
    BY <1>2, <2>1, <2>2, <2>3 DEF Generate, history
<1>3. CASE GetDatasetLocation \/ EnsureSandboxDataset
  BY <1>3 DEF GetDatasetLocation, EnsureSandboxDataset, history
<1>4. CASE CloneTableToSandbox
  BY <1>4 DEF CloneTableToSandbox, CloneOf, Tables
<1>5. CASE GetSchemaBefore \/ GetSchemaAfter
  BY <1>5 DEF GetSchemaBefore, GetSchemaAfter, history
<1>6. CASE RunSandboxStatement
  BY <1>6, SandboxRunsType DEF RunSandboxStatement
<1>7. CASE DryRun
  BY <1>7 DEF DryRun, history
<1>8. CASE WritePatch
  BY <1>8, PatchPayloadType DEF WritePatch, history
<1>9. CASE SandboxStepRaises
  <2>1. late' \in SUBSET Jobs
    BY <1>9, DetachedType DEF SandboxStepRaises
  <2> QED
    BY <1>9, <2>1, SandboxRunsType DEF SandboxStepRaises
<1>10. CASE DryRunRaises
  BY <1>10 DEF DryRunRaises
<1>11. CASE CallRaises \/ ToolTimeout
  BY <1>11, LeftBehindType DEF CallRaises, ToolTimeout, history
<1>12. ASSUME NEW job \in late, ThreadFinishes(job) PROVE SandboxTypeOK'
  <2>1. job \in Jobs /\ job.sql \in SQL
    BY DEF Jobs
  <2>2. CASE job.pc = "clone" /\ sandbox' = CloneOf(sandbox) /\ UNCHANGED <<production, seen>>
    BY <1>12, <2>2 DEF ThreadFinishes, callVars, CloneOf, Tables
  <2>3. CASE SandboxRuns(job.sql)
    BY <1>12, <2>1, <2>3, SandboxRunsType DEF ThreadFinishes, callVars
  <2>4. CASE UNCHANGED <<sandbox, production, seen>>
    BY <1>12, <2>4 DEF ThreadFinishes, callVars
  <2> QED
    BY <1>12, <2>2, <2>3, <2>4 DEF ThreadFinishes
<1>13. CASE Drift
  BY <1>13 DEF Drift, SetProduction, callVars, Tables
<1>14. CASE UNCHANGED vars
  BY <1>14 DEF vars, callVars, history
<1> QED
  BY <1>1, <1>2, <1>3, <1>4, <1>5, <1>6, <1>7, <1>8, <1>9, <1>10, <1>11, <1>12,
     <1>13, <1>14
  DEF SandboxNext, CallStep, Trouble

\* Every reachable state of the sandbox is well-typed: no schema, verdict or
\* pending job outside what the code can hold.
THEOREM SandboxTypeCorrect == SandboxSpec => []SandboxTypeOK
BY InitSandboxType, NextSandboxType, PTL DEF SandboxSpec

-----------------------------------------------------------------------------
(* Production *)

\* A statement under its instructed name is rewritten, wherever it runs.
LEMMA InstructedStayInSandbox ==
  ASSUME NEW s \in SQL, Instructed(s), SandboxRuns(s)
  PROVE  production' = production
BY DEF Instructed, Rewritten, SandboxRuns

\* Production changes only by its own drift or by a statement that does not name
\* its table as instructed.
LEMMA OnlyStrayStatementsWrite ==
  ASSUME SandboxTypeOK, SandboxNext, production' # production, drifts' = drifts
  PROVE  \E s \in Running : ~Instructed(s)
<1> USE DEF SandboxTypeOK
<1>1. CASE RunSandboxStatement \/ SandboxStepRaises
  <2>1. pc = "run" /\ SandboxRuns(sql)
    BY <1>1 DEF RunSandboxStatement, SandboxStepRaises
  <2> QED
    BY <2>1, InstructedStayInSandbox DEF Running
<1>2. ASSUME NEW job \in late, ThreadFinishes(job)
      PROVE  \E s \in Running : ~Instructed(s)
  <2>1. SandboxRuns(job.sql) /\ job.pc = "run"
    BY <1>2 DEF ThreadFinishes
  <2>2. job.sql \in SQL /\ job.sql \in Running
    BY <2>1 DEF Jobs, Running
  <2> QED
    BY <2>1, <2>2, InstructedStayInSandbox
<1>3. CASE Drift
  BY <1>3 DEF Drift
<1> QED
  BY <1>1, <1>2, <1>3
  DEF SandboxNext, CallStep, Trouble, Start, Generate, GetDatasetLocation,
      EnsureSandboxDataset, CloneTableToSandbox, GetSchemaBefore, GetSchemaAfter,
      DryRun, WritePatch, CallRaises, DryRunRaises, ToolTimeout

\* A test changes production only through a statement that does not name the
\* target as instructed, whatever fails, times out or finishes late.
THEOREM InstructedTestsAreIsolated == SandboxSpec => InstructedTestsLeaveProduction
<1>1. SandboxTypeOK /\ [SandboxNext]_vars =>
        [production' # production =>
           \/ drifts' # drifts
           \/ \E s \in Running : ~Instructed(s)]_vars
  BY OnlyStrayStatementsWrite
<1> QED
  BY <1>1, SandboxTypeCorrect, PTL DEF SandboxSpec, InstructedTestsLeaveProduction

-----------------------------------------------------------------------------
(* The verdict *)

\* What holds of the call at each of its steps, so that its verdict will be of
\* production: the clone is of a schema seen, the statement ran on the clone
\* as it was read, and what was read afterwards is the statement's effect.
CallSound ==
  /\ pc # "idle" => production["target"] \in seen
  /\ pc \in {"locate", "ensure", "clone", "before", "run", "after"} => errors = FALSE
  /\ ~disturbed /\ Instructed(sql) =>
       /\ pc \in {"before", "run", "after"} => sandbox.cloned
       /\ pc = "before" => sandbox.columns \in seen
       /\ pc = "run" => sandbox.columns = before_schema /\ after_schema = before_schema
       /\ pc \in {"run", "after"} => before_schema \in seen
       /\ pc = "after" => /\ Possible(sql, before_schema)
                         /\ sandbox.columns = Effect(sql, before_schema)
       /\ pc = "dry" \/ (pc = "store" /\ Tested = "bigquery") =>
            VerdictIsOf(PatchPayload)

SandboxInv == SandboxTypeOK /\ CallSound /\ VerdictIsOfProduction

\* A statement that runs under an instructed name runs on the clone.
LEMMA InstructedRun ==
  ASSUME NEW s \in SQL, Instructed(s)
  PROVE  /\ SandboxAccepts(s) <=> sandbox.cloned /\ Possible(s, sandbox.columns)
         /\ SandboxRuns(s) =>
              /\ sandbox' = [sandbox EXCEPT !.columns = Effect(s, @)]
              /\ UNCHANGED <<production, seen>>
BY DEF Instructed, Rewritten, SandboxAccepts, SandboxRuns

\* However a table of production changes, the target's schema has been seen.
LEMMA CurrentIsSeen ==
  ASSUME CallSound, SandboxTypeOK, pc # "idle",
         \/ UNCHANGED <<production, seen>>
         \/ \E s \in SQL : SandboxRuns(s)
         \/ \E schema \in Schemas : SetProduction("target", schema)
  PROVE  production'["target"] \in seen' /\ seen \subseteq seen'
BY DEF CallSound, SandboxRuns, SetProduction

\* The written patches stay what they are; the new one is sound if it is.
LEMMA VerdictsKept ==
  ASSUME SandboxTypeOK, VerdictIsOfProduction,
         \/ UNCHANGED patches
         \/ /\ patches' = Append(patches, PatchPayload)
            /\ Tested = "bigquery" /\ Instructed(sql) /\ ~disturbed
                 => VerdictIsOf(PatchPayload)
  PROVE  VerdictIsOfProduction'
<1>1. CASE UNCHANGED patches
  BY <1>1 DEF VerdictIsOfProduction, VerdictIsOf, Instructed, Possible, Effect, AddedColumns
<1>2. CASE /\ patches' = Append(patches, PatchPayload)
           /\ Tested = "bigquery" /\ Instructed(sql) /\ ~disturbed
                => VerdictIsOf(PatchPayload)
  <2> DEFINE ok(p) == p.tested = "bigquery" /\ Instructed(p.sql) /\ ~p.disturbed
                      => VerdictIsOf(p)
  <2>1. ok(PatchPayload)
    BY <1>2 DEF PatchPayload
  <2>2. \A i \in DOMAIN patches : ok(patches[i])
    BY DEF VerdictIsOfProduction
  <2>3. patches \in Seq(Patch)
    BY DEF SandboxTypeOK
  <2>4. \A i \in DOMAIN patches' :
          \/ patches'[i] = patches[i] /\ i \in DOMAIN patches
          \/ patches'[i] = PatchPayload
    BY <1>2, <2>3
  <2>5. \A i \in DOMAIN patches' : ok(patches'[i])
    BY <2>1, <2>2, <2>4
  <2> QED
    BY <2>5 DEF VerdictIsOfProduction, VerdictIsOf, Instructed, Possible, Effect,
                AddedColumns
<1> QED
  BY <1>1, <1>2

\* What a call has found out so far stays true of what production was during it.
LEMMA NextCallSound ==
  ASSUME SandboxTypeOK, CallSound, [SandboxNext]_vars
  PROVE  CallSound'
<1> USE DEF CallSound
<1>1. CASE Start
  BY <1>1 DEF Start
<1>2. CASE Generate
  <2>1. /\ pc' \in {"store", "locate"} /\ UNCHANGED <<production, seen>>
        /\ pc' = "locate" => errors' = FALSE
        /\ pc' = "store" => Tested' # "bigquery"
    BY <1>2 DEF Generate, Tested, history, Destructive
  <2> QED
    BY <1>2, <2>1 DEF Generate
<1>3. CASE GetDatasetLocation \/ EnsureSandboxDataset
  BY <1>3 DEF GetDatasetLocation, EnsureSandboxDataset, history
<1>4. CASE CloneTableToSandbox
  BY <1>4 DEF CloneTableToSandbox, CloneOf, SandboxTypeOK
<1>5. CASE GetSchemaBefore
  BY <1>5 DEF GetSchemaBefore, history
<1>6. CASE RunSandboxStatement
  <2>1. production'["target"] \in seen' /\ seen \subseteq seen'
    BY <1>6, CurrentIsSeen DEF RunSandboxStatement, SandboxTypeOK
  <2>2. CASE disturbed \/ ~Instructed(sql)
    BY <1>6, <2>1, <2>2 DEF RunSandboxStatement
  <2>3. CASE ~disturbed /\ Instructed(sql) /\ SandboxAccepts(sql)
    BY <1>6, <2>1, <2>3, InstructedRun DEF RunSandboxStatement, SandboxTypeOK
  <2>4. CASE ~disturbed /\ Instructed(sql) /\ ~SandboxAccepts(sql)
    <3>1. ~Possible(sql, before_schema) /\ before_schema \in seen
      BY <1>6, <2>4, InstructedRun DEF RunSandboxStatement, SandboxTypeOK
    <3> QED
      BY <1>6, <2>1, <2>4, <3>1
      DEF RunSandboxStatement, VerdictIsOf, PatchPayload, Verdict, Possible
  <2> QED
    BY <2>2, <2>3, <2>4
<1>7. CASE GetSchemaAfter
  BY <1>7 DEF GetSchemaAfter, history, VerdictIsOf, PatchPayload, Verdict,
              Possible, Effect, AddedColumns
<1>8. CASE DryRun
  <2>1. ~Possible(sql, production[sql.ref.table]) /\ Instructed(sql)
          => \E schema \in seen : ~Possible(sql, schema)
    BY <1>8 DEF DryRun, Instructed
  <2> QED
    BY <1>8, <2>1 DEF DryRun, history, VerdictIsOf, PatchPayload, Verdict,
                      Possible, Effect, AddedColumns
<1>9. CASE WritePatch \/ CallRaises \/ ToolTimeout
  BY <1>9 DEF WritePatch, CallRaises, ToolTimeout, history
<1>10. CASE SandboxStepRaises
  <2>1. production'["target"] \in seen' /\ seen \subseteq seen'
    BY <1>10, CurrentIsSeen DEF SandboxStepRaises, SandboxTypeOK
  <2> QED
    BY <1>10, <2>1 DEF SandboxStepRaises, VerdictIsOf, PatchPayload, Verdict
<1>11. CASE DryRunRaises
  BY <1>11 DEF DryRunRaises, VerdictIsOf, PatchPayload, Verdict
<1>12. ASSUME NEW job \in late, ThreadFinishes(job) PROVE CallSound'
  <2>1. pc # "idle" => production'["target"] \in seen' /\ seen \subseteq seen'
    <3>1. job.sql \in SQL
      BY DEF SandboxTypeOK, Jobs
    <3> QED
      BY <1>12, <3>1, CurrentIsSeen DEF ThreadFinishes
  <2> QED
    BY <1>12, <2>1 DEF ThreadFinishes, callVars
<1>13. CASE Drift
  <2>1. pc # "idle" => production'["target"] \in seen' /\ seen \subseteq seen'
    BY <1>13, CurrentIsSeen DEF Drift
  <2> QED
    BY <1>13, <2>1 DEF Drift, callVars, VerdictIsOf, PatchPayload, Verdict, Tested,
       Possible, Effect, AddedColumns, Instructed
<1>14. CASE UNCHANGED vars
  BY <1>14 DEF vars, callVars, history, VerdictIsOf, PatchPayload, Verdict, Tested,
     Possible, Effect, AddedColumns, Instructed
<1> QED
  BY <1>1, <1>2, <1>3, <1>4, <1>5, <1>6, <1>7, <1>8, <1>9, <1>10, <1>11, <1>12,
     <1>13, <1>14
  DEF SandboxNext, CallStep, Trouble

\* A stored verdict is that of a sound call, and is never changed.
LEMMA NextVerdict ==
  ASSUME SandboxTypeOK, CallSound, VerdictIsOfProduction, [SandboxNext]_vars
  PROVE  VerdictIsOfProduction'
<1>1. CASE pc = "store" /\ patches' = Append(patches, PatchPayload)
  BY <1>1, VerdictsKept DEF CallSound
<1>2. CASE UNCHANGED patches
  BY <1>2, VerdictsKept
<1>3. CASE WritePatch \/ CallRaises \/ ToolTimeout
  <2>1. \/ UNCHANGED patches
        \/ pc = "store" /\ patches' = Append(patches, PatchPayload)
    BY <1>3 DEF WritePatch, CallRaises, ToolTimeout, LeftBehind
  <2> QED
    BY <1>1, <1>2, <2>1
<1>4. CASE ~(WritePatch \/ CallRaises \/ ToolTimeout)
  <2>1. UNCHANGED patches
    BY <1>4
    DEF SandboxNext, CallStep, Trouble, Start, Generate, GetDatasetLocation,
        EnsureSandboxDataset, CloneTableToSandbox, GetSchemaBefore,
        RunSandboxStatement, GetSchemaAfter, DryRun, SandboxStepRaises,
        DryRunRaises, ThreadFinishes, Drift, vars
  <2> QED
    BY <1>2, <2>1
<1> QED
  BY <1>3, <1>4

\* A verdict the sandbox reached undisturbed, on a statement that names its
\* target as instructed, is one about schemas production had during the test.
THEOREM VerdictsAreOfProduction == SandboxSpec => []VerdictIsOfProduction
<1>1. SandboxInit => SandboxInv
  BY InitSandboxType
  DEF SandboxInit, SandboxInv, CallSound, VerdictIsOfProduction
<1>2. SandboxInv /\ [SandboxNext]_vars => SandboxInv'
  BY NextSandboxType, NextCallSound, NextVerdict DEF SandboxInv
<1>3. SandboxInv => VerdictIsOfProduction
  BY DEF SandboxInv
<1> QED
  BY <1>1, <1>2, <1>3, PTL DEF SandboxSpec

-----------------------------------------------------------------------------
(* Whose statements run *)

\* What a call or a late thread of one runs was proposed by the generator.
RunsProposals ==
  /\ pc \notin {"idle", "generate"} => sql \in Statements
  /\ \A job \in late : job.sql \in Statements

\* Nothing is run that was not proposed.
LEMMA NextRunsProposals ==
  ASSUME SandboxTypeOK, RunsProposals, [SandboxNext]_vars
  PROVE  RunsProposals'
<1> USE DEF RunsProposals
<1>1. CASE Generate
  <2>1. PICK s \in Proposals : sql' = s
    BY <1>1 DEF Generate
  <2>2. s \in Statements
    BY DEF Proposals
  <2> QED
    BY <1>1, <2>1, <2>2 DEF Generate
<1>2. CASE CallRaises \/ ToolTimeout \/ SandboxStepRaises
  <2>1. /\ UNCHANGED sql
        /\ pc' \notin {"idle", "generate"} => pc = "run" \/ pc = "after"
        /\ late' = late \/ (pc \in {"clone", "run"} /\ late' = late \cup {Detached})
    <3>1. CASE CallRaises \/ ToolTimeout
      <4>1. /\ sql' = sql /\ pc' = "idle" /\ LeftBehind
        BY <3>1 DEF CallRaises, ToolTimeout
      <4> QED
        BY ONLY <4>1 DEF LeftBehind
    <3>2. CASE SandboxStepRaises
      BY ONLY <3>2 DEF SandboxStepRaises
    <3> QED
      BY <1>2, <3>1, <3>2
  <2>2. CASE late' = late
    BY <2>1, <2>2
  <2>3. CASE pc \in {"clone", "run"} /\ late' = late \cup {Detached}
    <3>1. Detached.sql \in Statements
      BY <2>3 DEF Detached
    <3> QED
      BY <2>1, <2>3, <3>1
  <2> QED
    BY <2>1, <2>2, <2>3
<1>3. ASSUME NEW job \in late, ThreadFinishes(job) PROVE RunsProposals'
  BY <1>3 DEF ThreadFinishes, callVars
<1>4. CASE \/ Start \/ GetDatasetLocation \/ EnsureSandboxDataset
           \/ CloneTableToSandbox \/ GetSchemaBefore \/ RunSandboxStatement
           \/ GetSchemaAfter \/ DryRun \/ WritePatch \/ DryRunRaises \/ Drift
           \/ UNCHANGED vars
  <2>1. /\ UNCHANGED <<sql, late>>
        /\ pc' \notin {"idle", "generate"} => pc \notin {"idle", "generate"}
    BY <1>4
    DEF Start, GetDatasetLocation, EnsureSandboxDataset, CloneTableToSandbox,
        GetSchemaBefore, RunSandboxStatement, GetSchemaAfter, DryRun, WritePatch,
        DryRunRaises, Drift, vars, callVars
  <2> QED
    BY <2>1
<1> QED
  BY <1>1, <1>2, <1>3, <1>4 DEF SandboxNext, CallStep, Trouble

\* Only what the generator proposed ever runs.
LEMMA RunsProposalsHolds == SandboxSpec => []RunsProposals
<1>1. SandboxInit => RunsProposals
  BY DEF SandboxInit, RunsProposals
<1> QED
  BY <1>1, NextRunsProposals, SandboxTypeCorrect, PTL DEF SandboxSpec

\* A statement that strays into production was proposed.
LEMMA StraysAreProposals ==
  ASSUME SandboxTypeOK, RunsProposals, SandboxNext,
         production' # production, drifts' = drifts
  PROVE  \E s \in Statements : ~Instructed(s)
BY OnlyStrayStatementsWrite DEF RunsProposals, Running

\* Whoever writes the statements, if all of them name the target as Gemini is
\* told to, the tests leave production alone: the promise that stray_statement
\* refutes fails for those that do not, of Gemini's or of a preset's, and for no
\* other reason.
THEOREM InstructedStatementsStayInSandbox ==
  ASSUME \A s \in Statements : Instructed(s)
  PROVE  SandboxSpec => TestsLeaveProduction
<1>1. SandboxTypeOK /\ RunsProposals /\ [SandboxNext]_vars =>
        [production' # production => drifts' # drifts]_vars
  BY StraysAreProposals
<1> QED
  BY <1>1, RunsProposalsHolds, SandboxTypeCorrect, PTL
  DEF SandboxSpec, TestsLeaveProduction

-----------------------------------------------------------------------------
(* One step for the rest of the system *)

\* What a call has decided by the time its patch is stored.
Refused == Destructive(sql) /\ ~allow_destructive

ErrorsAreOfTheMode ==
  /\ pc \in {"locate", "ensure", "clone", "before", "run", "after", "dry"} =>
       setting.mode = "cloud" /\ ~Refused
  /\ pc = "store" =>
       /\ Refused => errors
       /\ setting.mode = "local" /\ ~Refused => ~errors

\* A refused statement has failed; the local executor fails none.
LEMMA NextErrors ==
  ASSUME SandboxTypeOK, ErrorsAreOfTheMode, [SandboxNext]_vars
  PROVE  ErrorsAreOfTheMode'
<1> USE DEF ErrorsAreOfTheMode, Refused
<1>1. CASE Generate
  <2>1. PICK s \in Proposals : Generate!2!(s)
    BY <1>1 DEF Generate
  <2>2. setting' = setting /\ allow_destructive' = allow_destructive
    BY <1>1 DEF Generate
  <2> QED
    BY <2>1, <2>2 DEF Destructive
<1>2. ASSUME NEW job \in late, ThreadFinishes(job) PROVE ErrorsAreOfTheMode'
  BY <1>2 DEF ThreadFinishes, callVars, Destructive
<1>3. CASE Start \/ WritePatch \/ CallRaises \/ ToolTimeout
  BY <1>3 DEF Start, WritePatch, CallRaises, ToolTimeout
<1>4. CASE GetDatasetLocation \/ EnsureSandboxDataset \/ CloneTableToSandbox
           \/ GetSchemaBefore \/ RunSandboxStatement \/ GetSchemaAfter \/ DryRun
           \/ SandboxStepRaises \/ DryRunRaises
  <2>1. /\ pc \in {"locate", "ensure", "clone", "before", "run", "after", "dry"}
        /\ UNCHANGED <<setting, sql, allow_destructive>>
    BY <1>4
    DEF GetDatasetLocation, EnsureSandboxDataset, CloneTableToSandbox,
        GetSchemaBefore, RunSandboxStatement, GetSchemaAfter, DryRun,
        SandboxStepRaises, DryRunRaises
  <2> QED
    BY <2>1 DEF Destructive
<1>5. CASE Drift \/ UNCHANGED vars
  BY <1>5 DEF Drift, vars, callVars, Destructive
<1> QED
  BY <1>1, <1>2, <1>3, <1>4, <1>5 DEF SandboxNext, CallStep, Trouble

\* The patch as the tool's abstraction has it.
Outcome(p) == [destructive       |-> Destructive(p.sql),
               validation_status |-> p.validation_status]

Outcomes(s) == [i \in DOMAIN s |-> Outcome(s[i])]

\* A patch more is an outcome more.
LEMMA OutcomesAppend ==
  ASSUME NEW s \in Seq(Patch), NEW p \in Patch
  PROVE  Outcomes(Append(s, p)) = Append(Outcomes(s), Outcome(p))
<1> DEFINE T == {Outcome(q) : q \in Patch}
<1> DEFINE t == Append(s, p)
<1>1. /\ t \in Seq(Patch) /\ Len(t) = Len(s) + 1 /\ t[Len(s) + 1] = p
      /\ \A i \in 1..Len(s) : t[i] = s[i]
      /\ DOMAIN t = 1..(Len(s) + 1) /\ DOMAIN s = 1..Len(s) /\ Len(s) \in Nat
  BY LenProperties, AppendProperties
<1> HIDE DEF t
<1>2. Outcomes(s) \in Seq(T) /\ Len(Outcomes(s)) = Len(s) /\ Outcome(p) \in T
  <2>1. Outcomes(s) \in [1..Len(s) -> T]
    BY <1>1, ElementOfSeq DEF Outcomes
  <2> QED
    BY <1>1, <2>1, SeqDef, LenProperties DEF Outcomes
<1> DEFINE u == Append(Outcomes(s), Outcome(p))
<1> HIDE DEF T
<1>3. /\ u \in Seq(T) /\ Len(u) = Len(s) + 1 /\ u[Len(s) + 1] = Outcome(p)
      /\ \A i \in 1..Len(s) : u[i] = Outcomes(s)[i]
  BY <1>2, AppendProperties
<1> HIDE DEF u
<1>4. DOMAIN u = 1..(Len(s) + 1) /\ u = [i \in 1..(Len(s) + 1) |-> u[i]]
  BY <1>1, <1>3, LenProperties
<1>5. Outcomes(t) = [i \in 1..(Len(s) + 1) |-> Outcome(t[i])]
  BY <1>1 DEF Outcomes
<1>6. ASSUME NEW i \in 1..(Len(s) + 1) PROVE Outcome(t[i]) = u[i]
  <2>1. CASE i = Len(s) + 1
    BY <1>1, <1>3, <2>1
  <2>2. CASE i # Len(s) + 1
    <3>1. i \in 1..Len(s)
      BY <1>1, <2>2
    <3> QED
      BY <1>1, <1>3, <3>1 DEF Outcomes
  <2> QED
    BY <2>1, <2>2
<1>7. Outcomes(t) = u
  BY <1>4, <1>5, <1>6, Zenon
<1> QED
  BY <1>7 DEF t, u

\* Each step of the sandbox is a step of the tool, or none.
LEMMA NextIsOneTool ==
  ASSUME SandboxTypeOK, ErrorsAreOfTheMode, [SandboxNext]_vars
  PROVE  [Tool!Next]_(Tool!vars)
<1>1. CASE /\ patches' = Append(patches, PatchPayload)
           /\ pc = "store" /\ pc' = "idle" /\ setting' = setting
  <2> DEFINE p == PatchPayload
  <2>1. /\ patches' = Append(patches, p) /\ pc = "store" /\ pc' = "idle"
        /\ setting' = setting
    BY <1>1
  <2>2. p \in Patch /\ patches \in Seq(Patch)
    BY PatchPayloadType DEF SandboxTypeOK
  <2>3. Outcome(p) = [destructive |-> Destructive(sql), validation_status |-> Verdict]
    BY DEF PatchPayload, Outcome
  <2>4. Verdict \in Tool!SandboxOutcomes(setting.mode,
                      [destructive |-> Destructive(sql)], allow_destructive)
    BY <2>1 DEF Tool!SandboxOutcomes, Verdict, ErrorsAreOfTheMode, Refused,
                SandboxTypeOK, Settings
  <2> HIDE DEF p
  <2>5. Outcomes(patches') = Append(Outcomes(patches), Outcome(p))
    BY <2>1, <2>2, OutcomesAppend
  <2>6. Destructive(sql) \in BOOLEAN /\ allow_destructive \in BOOLEAN
    BY DEF SandboxTypeOK, Destructive
  <2>7. Tool!GenerateAndTestPatch
    BY <2>1, <2>3, <2>4, <2>5, <2>6
    DEF Tool!GenerateAndTestPatch, Outcomes, Outcome
  <2> QED
    BY <2>7 DEF Tool!Next
<1>2. CASE Start
  BY <1>2 DEF Start, Tool!Next, Tool!BeginCall, Tool!vars
<1>3. CASE UNCHANGED <<patches, setting>> /\ pc # "idle" /\ pc' = "idle"
  BY <1>3 DEF Tool!Next, Tool!ToolWritesNothing, Tool!vars
<1>4. CASE UNCHANGED <<setting, patches>> /\ (pc # "idle" <=> pc' # "idle")
  BY <1>4 DEF Tool!vars
<1>5. CASE WritePatch \/ CallRaises \/ ToolTimeout
  <2>1. /\ pc # "idle" /\ pc' = "idle" /\ setting' = setting
        /\ \/ UNCHANGED patches
           \/ pc = "store" /\ patches' = Append(patches, PatchPayload)
    BY <1>5 DEF WritePatch, CallRaises, ToolTimeout, LeftBehind
  <2> QED
    BY <1>1, <1>3, <2>1
<1>6. CASE ~(WritePatch \/ Start \/ CallRaises \/ ToolTimeout)
  <2>1. UNCHANGED <<setting, patches>> /\ (pc # "idle" <=> pc' # "idle")
    BY <1>6
    DEF SandboxNext, CallStep, Trouble, Generate, GetDatasetLocation,
        EnsureSandboxDataset, CloneTableToSandbox, GetSchemaBefore,
        RunSandboxStatement, GetSchemaAfter, DryRun, SandboxStepRaises,
        DryRunRaises, ThreadFinishes, Drift, vars, callVars
  <2> QED
    BY <1>4, <2>1
<1> QED
  BY <1>2, <1>5, <1>6

\* The sandbox implements the tool the orchestrator's model calls: the one step
\* GenerateAndTestPatch stands for all the calls, faults, timeouts and late
\* threads of the real one.
THEOREM SandboxIsOneTool == SandboxSpec => IsOneTool
<1>1. SandboxInit => ErrorsAreOfTheMode /\ Tool!Init
  BY DEF SandboxInit, Settings, ErrorsAreOfTheMode, Tool!Init
<1> QED
  BY <1>1, NextErrors, NextIsOneTool, SandboxTypeCorrect, PTL
  DEF SandboxSpec, IsOneTool, Tool!Spec
=============================================================================
