-------------------------- MODULE GovernancePolicy --------------------------
(***************************************************************************)
(* The deterministic governance rules (app/agents/tools/governance.py) and *)
(* the sandbox verdict a patch is stored with (app/agents/tools/patch.py). *)
(*                                                                         *)
(* A statement is abstracted to what the two files read off its text: the  *)
(* kind the patch generator declared for it, and which of the four regular *)
(* expressions match.  A table's metadata is the three dataset labels.     *)
(***************************************************************************)
EXTENDS Integers

PatchKind == {"DDL", "DML", "BOTH"}

Sql == [patch_kind    : PatchKind,
        destructive   : BOOLEAN,  \* _DESTRUCTIVE_PATTERN: DROP or TRUNCATE TABLE, DROP COLUMN
        drops_column  : BOOLEAN,  \* DROP\s+COLUMN
        has_where     : BOOLEAN,  \* \bWHERE\b, anywhere in the text
        pii_like      : BOOLEAN]  \* _PII_NAME_PATTERN

TableMetadata == [pii_tagged         : BOOLEAN,
                  sensitivity        : {"low", "high"},
                  data_steward_bound : BOOLEAN]

\* LocalHeuristicMetadataProvider: the pydantic defaults.
DefaultMetadata == [pii_tagged |-> FALSE, sensitivity |-> "low",
                    data_steward_bound |-> FALSE]

PolicyIds == {"pii-drop-guard", "data-steward-binding",
              "broad-dml-guard", "pii-taxonomy-crosscheck"}

GovernanceVerdict == {"PASS", "WARN", "BLOCK"}

ValidationStatus == {"SANDBOX_PASS", "SANDBOX_FAIL", "DRY_RUN_ONLY"}

\* Mutant: no policy blocks.
SeverityWarn(policy) == "WARN"

\* What a policy reports when its condition holds of the statement.
Severity(policy) == IF policy = "pii-drop-guard" THEN "FAIL" ELSE "WARN"

\* The condition of each policy: the IFs of _evaluate_policy_checks.
Triggered(policy, sql, metadata) ==
  CASE policy = "pii-drop-guard" ->
         sql.drops_column /\ metadata.pii_tagged
    [] policy = "data-steward-binding" ->
         metadata.sensitivity = "high" /\ ~metadata.data_steward_bound
    [] policy = "broad-dml-guard" ->
         sql.patch_kind \in {"DML", "BOTH"} /\ ~sql.has_where
    [] policy = "pii-taxonomy-crosscheck" ->
         sql.pii_like /\ ~metadata.pii_tagged

PolicyChecks(sql, metadata) ==
  [policy \in PolicyIds |->
     IF Triggered(policy, sql, metadata) THEN Severity(policy) ELSE "PASS"]

VerdictFromChecks(checks) ==
  IF \E policy \in DOMAIN checks : checks[policy] = "FAIL" THEN "BLOCK"
  ELSE IF \E policy \in DOMAIN checks : checks[policy] = "WARN" THEN "WARN"
  ELSE "PASS"

Verdict(sql, metadata) == VerdictFromChecks(PolicyChecks(sql, metadata))

\* The statuses generate_and_test_patch can store a statement with.  A
\* destructive statement is refused before the sandbox unless the model asked
\* for it; the local sandbox passes everything; BigQuery may report errors.
SandboxOutcomes(mode, sql, allow_destructive) ==
  IF sql.destructive /\ ~allow_destructive THEN {"SANDBOX_FAIL"}
  ELSE IF mode = "local" THEN {"SANDBOX_PASS"}
  ELSE {"SANDBOX_PASS", "SANDBOX_FAIL"}
=============================================================================
