--------------------------- MODULE IncidentStore ---------------------------
(***************************************************************************)
(* The StateManager as one incident sees it (app/persistence): the root    *)
(* document and its subcollections steps, patches and audits.              *)
(*                                                                         *)
(* Mode is Settings.warden_mode.  "cloud" is Firestore: every call is a    *)
(* round trip during which other coroutines and the second Cloud Run       *)
(* instance run, and a step is written to the document its id names.       *)
(* "local" is InMemoryStateManager: no call ever suspends, and a step is   *)
(* appended to a list whatever its id.                                     *)
(*                                                                         *)
(* A patch is named by its place in creation order (its ULID sorts that    *)
(* way), so patches[Len(patches)] is list_patches(...)[-1]; audits are     *)
(* listed in creation order too.                                           *)
(***************************************************************************)
EXTENDS GovernancePolicy, Sequences

CONSTANTS
  Mode,         \* Settings.warden_mode
  StoreFaults,  \* whether Firestore calls may raise
  Crashes       \* whether a Cloud Run instance may die

\* Only Firestore raises, and only Cloud Run keeps state across a crash.
ASSUME ModeAssumption ==
  /\ Mode \in {"local", "cloud"}
  /\ StoreFaults \in BOOLEAN
  /\ Crashes \in BOOLEAN
  /\ Mode = "local" => ~StoreFaults /\ ~Crashes

VARIABLES incident, steps, patches, audits

storeVars == <<incident, steps, patches, audits>>

IncidentStatus == {"INGESTED", "DIAGNOSING", "PATCHING", "AWAITING_APPROVAL",
                   "EXECUTING", "RESOLVED", "REJECTED", "FAILED"}

InFlight == {"INGESTED", "DIAGNOSING", "PATCHING", "EXECUTING"}

Errors == {"none", "turn_budget_exhausted", "incident_timeout_exceeded",
           "orchestrator_finished_without_patch",
           "orchestrator_finished_without_governance_audit",
           "exception", "execution_failed"}

StepKind == {"MODEL_TURN", "TOOL_CALL", "TOOL_RESULT",
             "USER_DECISION", "EXECUTION"}

StepStatus == {"RUNNING", "OK", "ERROR", "TIMEOUT"}

Step == [step_id : Nat \ {0}, kind : StepKind, status : StepStatus]

Patch == [sql : Sql, validation_status : ValidationStatus]

Audit == [linked_patch_id : Nat \ {0}, verdict : GovernanceVerdict]

StoreTypeOK ==
  /\ incident \in [status : IncidentStatus, error : Errors, turn_count : Nat]
  /\ steps \in Seq(Step)
  /\ patches \in Seq(Patch)
  /\ audits \in Seq(Audit)

\* Right after create_incident.
StoreInit ==
  /\ incident = [status |-> "INGESTED", error |-> "none", turn_count |-> 0]
  /\ steps = <<>>
  /\ patches = <<>>
  /\ audits = <<>>

-----------------------------------------------------------------------------
(* Reads *)

IsPatch(p) == p \in 1..Len(patches)

LatestPatch == Len(patches)

AuditsOf(p) == {i \in 1..Len(audits) : audits[i].linked_patch_id = p}

\* [a for a in list_audits() if a.linked_patch_id == p][-1].verdict == verdict
LatestVerdictIs(p, verdict) ==
  \E i \in AuditsOf(p) :
    /\ audits[i].verdict = verdict
    /\ \A j \in AuditsOf(p) : j <= i

-----------------------------------------------------------------------------
(* Writes *)

UpdateIncident(status, error, turn_count) ==
  incident' = [status |-> status, error |-> error, turn_count |-> turn_count]

SetStatus(status) ==
  UpdateIncident(status, incident.error, incident.turn_count)

\* Firestore: document(step_id).set(...) replaces the document of that id.
\* In memory: list.append, whatever the id.
AppendStep(id, kind, status) ==
  LET step == [step_id |-> id, kind |-> kind, status |-> status] IN
  steps' = IF Mode = "cloud" /\ \E i \in DOMAIN steps : steps[i].step_id = id
           THEN [i \in DOMAIN steps |->
                   IF steps[i].step_id = id THEN step ELSE steps[i]]
           ELSE Append(steps, step)

WritePatch(sql, validation_status) ==
  patches' = Append(patches, [sql |-> sql,
                              validation_status |-> validation_status])

WriteAudit(p, verdict) ==
  audits' = Append(audits, [linked_patch_id |-> p, verdict |-> verdict])
=============================================================================
