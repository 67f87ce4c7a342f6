------------------------- MODULE PipelineDiagnosis -------------------------
(***************************************************************************)
(* What the agents make of an incident that a check opened: while the job  *)
(* goes on, each incident's own task calls investigate_incident_logs       *)
(* (app/agents/tools/investigate.py), which classifies the line the        *)
(* incident quotes with the local triage backend and stores a finding.     *)
(*                                                                         *)
(* The tool reads raw_event, which never changes, and writes one document: *)
(* its awaits are one action, which happens not at all when the tool times *)
(* out, and again whenever the model asks again.                           *)
(***************************************************************************)
EXTENDS PipelineHealth

VARIABLE findings   \* of all incidents, by what they say

diagnosisVars == <<pipelineVars, findings>>

\* A pattern matches a text with one of its phrases; the group called col is
\* a column in one of them, a table in the other, and missing in the rest.
MissingColumn == [phrases |-> {"column", "column of relation"},
                  drift_type |-> "SCHEMA_DRIFT", col |-> "column"]
MissingRelation == [phrases |-> {"relation", "column of relation"},
                    drift_type |-> "SCHEMA_DRIFT", col |-> "table"]
PermissionDenied == [phrases |-> {"permission"},
                     drift_type |-> "PERMISSION", col |-> "none"]
NoConnection == [phrases |-> {"connection"},
                 drift_type |-> "BROKEN_JOB", col |-> "none"]

\* Mutant: the shorter pattern first.
RelationPatternFirst ==
  <<MissingRelation, MissingColumn, PermissionDenied, NoConnection>>

\* _REAL_ERROR_PATTERNS: the first that matches counts.
RealErrorPatterns ==
  <<MissingColumn, MissingRelation, PermissionDenied, NoConnection>>

Matches(says) ==
  {i \in DOMAIN RealErrorPatterns : RealErrorPatterns[i].phrases \cap says # {}}

FirstMatch(says) ==
  CHOOSE i \in Matches(says) : \A j \in Matches(says) : i <= j

\* _real_pipeline_failure_finding; confident is 0.72 for 0.55.
Triage(says) ==
  IF Matches(says) = {}
  THEN [drift_type |-> "BROKEN_JOB", affected |-> "none", confident |-> FALSE]
  ELSE [drift_type |-> RealErrorPatterns[FirstMatch(says)].drift_type,
        affected   |-> RealErrorPatterns[FirstMatch(says)].col,
        confident  |-> TRUE]

\* By the task of the incident.  An incident without a line has a text that
\* matches no pattern.
InvestigateIncidentLogs(i) ==
  LET triaged == Triage(incidents[i].line.says) IN
  /\ incidents[i].task
  /\ findings' = findings \cup
       {[incident   |-> i,
         drift_type |-> triaged.drift_type,
         affected   |-> triaged.affected,
         confident  |-> triaged.confident]}
  /\ UNCHANGED pipelineVars

DiagnosisInit == PipelineInit /\ findings = {}

DiagnosisNext ==
  \/ PipelineNext /\ UNCHANGED findings
  \/ \E i \in DOMAIN incidents : InvestigateIncidentLogs(i)

DiagnosisSpec ==
  /\ DiagnosisInit /\ [][DiagnosisNext]_diagnosisVars
  /\ \A c \in Checks : WF_pipelineVars(Answer(c) \/ CheckRaises(c))

-----------------------------------------------------------------------------
(* Properties *)

\* What the execution that incident i is about has logged of its failure.
SaidOf(i) ==
  UNION {log[j].says : j \in LinesOf(incidents[i].execution)}

\* A finding is about the execution that failed, whatever the job did between
\* the check's calls and since: it names a column, a table, or a permission
\* only if that execution's log says so, it takes no column of a relation for
\* the relation (the comment on _REAL_ERROR_PATTERNS), and where it is not
\* confident nothing it quotes said anything.
DiagnosisIsOfTheFailure ==
  \A f \in findings :
    /\ f.affected = "column" =>
         SaidOf(f.incident) \cap {"column", "column of relation"} # {}
    /\ f.affected = "table" => "relation" \in SaidOf(f.incident)
    /\ f.drift_type = "PERMISSION" => "permission" \in SaidOf(f.incident)
    /\ f.confident => SaidOf(f.incident) # {}
    /\ ~f.confident => incidents[f.incident].line.says = {}

\* What makes it so: an incident's line is still in the log it was read from,
\* and a finding is what the patterns make of the line.
LinesAreLogged ==
  /\ \A i \in DOMAIN incidents :
       incidents[i].line = NoLine \/ \E j \in DOMAIN log : log[j] = incidents[i].line
  /\ \A c \in Checks :
       check[c].line = NoLine \/ \E j \in DOMAIN log : log[j] = check[c].line

FindingsAreTriaged ==
  \A f \in findings :
    /\ f.incident \in DOMAIN incidents
    /\ LET triaged == Triage(incidents[f.incident].line.says) IN
       /\ f.drift_type = triaged.drift_type
       /\ f.affected = triaged.affected
       /\ f.confident = triaged.confident

DiagnosisInv == PipelineInv /\ LinesAreLogged /\ FindingsAreTriaged
=============================================================================
