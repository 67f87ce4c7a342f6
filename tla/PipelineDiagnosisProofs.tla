---------------------- MODULE PipelineDiagnosisProofs ----------------------
(***************************************************************************)
(* What a check reports is true of the execution it reports, and a finding *)
(* on an incident that it opened is about the failure it saw: PipelineInv  *)
(* and DiagnosisInv are inductive, for any number of checks, executions,   *)
(* log lines and calls of the tool.                                        *)
(***************************************************************************)
EXTENDS PipelineDiagnosis, SequenceTheorems, TLAPS

-----------------------------------------------------------------------------
(* The checks *)

\* A line that _fetch_error_line returns is one of the entries it was given.
LEMMA ErrorLineIsAnEntry ==
  ASSUME PipelineTypeOK, NEW execution,
         NEW line \in ErrorLine(EntriesOf(execution))
  PROVE  /\ line \in Entry \cup {NoLine}
         /\ line # NoLine => line.execution = execution
<1>1. \A i \in EntriesOf(execution) :
        log[i] \in Entry /\ log[i].execution = execution
  BY ElementOfSeq DEF PipelineTypeOK, EntriesOf, Newest, LinesOf
<1> QED
  BY <1>1 DEF ErrorLine, NewestOfKind, SecondPass

\* The log with a line more is a log, with every line it had.
LEMMA WithLineKeepsLines ==
  ASSUME log \in Seq(Entry), NEW line \in Entry, NEW k \in 1..(Len(log) + 1)
  PROVE  /\ WithLine(k, line) \in Seq(Entry)
         /\ \A i \in DOMAIN log :
              \E j \in DOMAIN WithLine(k, line) : WithLine(k, line)[j] = log[i]
<1>1. Len(log) \in Nat /\ DOMAIN log = 1..Len(log)
  BY LenProperties
<1>2. \A i \in 1..Len(log) : log[i] \in Entry
  BY ElementOfSeq
<1> DEFINE longer == WithLine(k, line)
<1>3. longer = [j \in 1..(Len(log) + 1) |->
                  IF j < k THEN log[j] ELSE IF j = k THEN line ELSE log[j - 1]]
  BY DEF WithLine
<1>4. longer \in [1..(Len(log) + 1) -> Entry]
  <2>1. ASSUME NEW j \in 1..(Len(log) + 1), ~(j < k), j # k
        PROVE  j - 1 \in 1..Len(log)
    BY <1>1, <2>1
  <2>2. ASSUME NEW j \in 1..(Len(log) + 1), j < k
        PROVE  j \in 1..Len(log)
    BY <1>1, <2>2
  <2> HIDE DEF longer
  <2> QED
    BY <1>2, <1>3, <2>1, <2>2
<1> HIDE DEF longer
<1>5. longer \in Seq(Entry)
  BY <1>1, <1>4, SeqDef
<1>6. ASSUME NEW i \in DOMAIN log
      PROVE  \E j \in DOMAIN longer : longer[j] = log[i]
  <2>1. CASE i < k
    <3>1. i \in DOMAIN longer /\ longer[i] = log[i]
      BY <1>1, <1>3, <2>1
    <3> QED
      BY <3>1
  <2>2. CASE ~(i < k)
    <3>1. i + 1 \in DOMAIN longer /\ longer[i + 1] = log[(i + 1) - 1]
      BY <1>1, <1>3, <2>2
    <3>2. (i + 1) - 1 = i
      BY <1>1
    <3> QED
      BY <3>1, <3>2
  <2> QED
    BY <2>1, <2>2
<1> QED
  BY <1>5, <1>6 DEF longer

\* The job's own steps: a failed execution stays there and stays failed.
LEMMA JobStep ==
  ASSUME PipelineInv, Job
  PROVE  /\ executions' \in Seq(ExecutionState) /\ log' \in Seq(Entry)
         /\ UNCHANGED <<check, incidents>>
         /\ \A e \in DOMAIN executions :
              /\ e \in DOMAIN executions'
              /\ executions[e] = "failed" => executions'[e] = "failed"
         /\ \A i \in DOMAIN log : \E j \in DOMAIN log' : log'[j] = log[i]
<1>1. executions \in Seq(ExecutionState) /\ log \in Seq(Entry)
  BY DEF PipelineInv, PipelineTypeOK
<1>2. DOMAIN executions = 1..Len(executions) /\ Len(executions) \in Nat
  BY <1>1, LenProperties
<1>3. CASE JobStarts
  <2>1. "running" \in ExecutionState
    BY DEF ExecutionState
  <2>2. /\ executions' = Append(executions, "running")
        /\ executions' \in Seq(ExecutionState)
        /\ DOMAIN executions' = 1..(Len(executions) + 1)
        /\ \A e \in 1..Len(executions) : executions'[e] = executions[e]
    BY <1>1, <1>3, <2>1, AppendProperties, LenProperties DEF JobStarts
  <2> QED
    BY <1>1, <1>2, <1>3, <2>2 DEF JobStarts
<1>4. CASE JobEnds
  <2>1. PICK e \in DOMAIN executions, state \in {"succeeded", "failed"} :
          /\ executions[e] = "running"
          /\ executions' = [executions EXCEPT ![e] = state]
    BY <1>4 DEF JobEnds
  <2>2. state \in ExecutionState
    BY DEF ExecutionState
  <2>3. executions' \in Seq(ExecutionState)
    BY <1>1, <2>1, <2>2, ExceptSeq
  <2> QED
    BY <1>1, <1>4, <2>1, <2>3 DEF JobEnds
<1>5. CASE LineArrives
  <2>1. PICK e \in DOMAIN executions, text \in Texts, k \in 1..(Len(log) + 1) :
          log' = WithLine(k, [execution |-> e, kind |-> text.kind, says |-> text.says])
    BY <1>5 DEF LineArrives
  <2>2. [execution |-> e, kind |-> text.kind, says |-> text.says] \in Entry
    BY <1>2, <2>1, PipelineAssumption DEF Entry
  <2>3. /\ log' \in Seq(Entry)
        /\ \A i \in DOMAIN log : \E j \in DOMAIN log' : log'[j] = log[i]
    BY <1>1, <2>1, <2>2, WithLineKeepsLines
  <2> QED
    BY <1>1, <1>5, <2>3 DEF LineArrives
<1> QED
  BY <1>3, <1>4, <1>5 DEF Job

\* ChecksSawAFailure, of one check.
SawAFailure(state) ==
  /\ state.pc \in {"idle", "list"} => state.line = NoLine
  /\ state.pc \in {"logs", "create"} =>
       /\ state.execution \in DOMAIN executions
       /\ executions[state.execution] = "failed"
       /\ state.line # NoLine => state.line.execution = state.execution

\* A check's steps change nothing of the job, leave the check where it may be,
\* and open no incident but one of what it holds.
LEMMA CheckStep ==
  ASSUME PipelineInv, NEW c \in Checks,
         CheckPipeline(c) \/ Answer(c) \/ CheckRaises(c)
  PROVE  /\ UNCHANGED <<executions, log>>
         /\ \E state \in CheckState :
              check' = [check EXCEPT ![c] = state] /\ SawAFailure(state)
         /\ \/ UNCHANGED incidents
            \/ check[c].pc = "create" /\ \E task \in BOOLEAN : incidents' = Opened(c, task)
<1>1. /\ check \in [Checks -> CheckState] /\ check[c] \in CheckState
      /\ executions \in Seq(ExecutionState)
      /\ SawAFailure(check[c])
  BY DEF PipelineInv, PipelineTypeOK, ChecksSawAFailure, SawAFailure
<1>2. DOMAIN executions = 1..Len(executions) /\ Len(executions) \in Nat
  BY <1>1, LenProperties
<1>3. CASE CheckPipeline(c)
  <2> DEFINE state == [check[c] EXCEPT !.pc = "list"]
  <2>1. check[c].pc = "idle"
    BY <1>3 DEF CheckPipeline
  <2>2. state \in CheckState /\ SawAFailure(state)
    BY <1>1, <2>1 DEF CheckState, SawAFailure
  <2>3. check' = [check EXCEPT ![c] = state]
    BY <1>1, <1>3 DEF CheckPipeline
  <2> QED
    BY <1>3, <2>2, <2>3 DEF CheckPipeline
<1>4. CASE ListLatest(c)
  <2> DEFINE latest == Len(executions)
             healthy == latest = 0 \/ executions[latest] # "failed"
             state == IF healthy THEN [check[c] EXCEPT !.pc = "healthy"]
                      ELSE [check[c] EXCEPT !.pc = "logs", !.execution = latest]
  <2>1. state \in CheckState
    BY <1>1, <1>2 DEF CheckState
  <2>2. SawAFailure(state)
    <3>1. CASE healthy
      BY <1>1, <3>1 DEF CheckState, SawAFailure
    <3>2. CASE ~healthy
      <4>1. latest \in DOMAIN executions /\ executions[latest] = "failed"
        BY <1>2, <3>2
      <4>2. check[c].pc = "list"
        BY <1>4 DEF ListLatest
      <4>3. check[c].line = NoLine
        BY <1>1, <4>2 DEF SawAFailure
      <4> QED
        BY <1>1, <3>2, <4>1, <4>3 DEF CheckState, SawAFailure
    <3> QED
      BY <3>1, <3>2
  <2>3. check' = [check EXCEPT ![c] = state]
    BY <1>1, <1>4 DEF ListLatest
  <2> QED
    BY <1>4, <2>1, <2>2, <2>3 DEF ListLatest
<1>5. CASE FetchErrorLine(c)
  <2>1. PICK line \in ErrorLine(EntriesOf(check[c].execution)) :
          check' = [check EXCEPT ![c].pc = "create", ![c].line = line]
    BY <1>5 DEF FetchErrorLine
  <2> DEFINE state == [check[c] EXCEPT !.pc = "create", !.line = line]
  <2>2. /\ line \in Entry \cup {NoLine}
        /\ line # NoLine => line.execution = check[c].execution
    BY <2>1, ErrorLineIsAnEntry DEF PipelineInv
  <2>3. check[c].pc = "logs"
    BY <1>5 DEF FetchErrorLine
  <2>4. state \in CheckState /\ SawAFailure(state)
    BY <1>1, <2>2, <2>3 DEF CheckState, SawAFailure
  <2>5. check' = [check EXCEPT ![c] = state]
    BY <1>1, <2>1
  <2> QED
    BY <1>5, <2>4, <2>5 DEF FetchErrorLine
<1>6. CASE CreateIncident(c)
  <2> DEFINE state == [check[c] EXCEPT !.pc = "opened"]
  <2>1. state \in CheckState /\ SawAFailure(state)
    BY <1>1 DEF CheckState, SawAFailure
  <2>2. check' = [check EXCEPT ![c] = state]
    BY <1>1, <1>6 DEF CreateIncident
  <2> QED
    BY <1>6, <2>1, <2>2 DEF CreateIncident
<1>7. CASE CheckRaises(c)
  <2> DEFINE state == [check[c] EXCEPT !.pc = "raised"]
  <2>1. state \in CheckState /\ SawAFailure(state)
    BY <1>1 DEF CheckState, SawAFailure
  <2>2. check' = [check EXCEPT ![c] = state]
    BY <1>1, <1>7 DEF CheckRaises
  <2> QED
    BY <1>7, <2>1, <2>2 DEF CheckRaises
<1> QED
  BY <1>3, <1>4, <1>5, <1>6, <1>7 DEF Answer

\* No check has begun, and nothing is opened.
LEMMA InitPipelineInv == PipelineInit => PipelineInv
<1> SUFFICES ASSUME PipelineInit PROVE PipelineInv
  OBVIOUS
<1>1. PipelineTypeOK
  BY EmptySeq DEF PipelineInit, PipelineTypeOK, CheckState, NoLine
<1> QED
  BY <1>1 DEF PipelineInit, PipelineInv, ChecksSawAFailure,
              IncidentsAreOfExecutions, EvidenceIsOfTheFailure

\* Every step, of the job or of a check, preserves the invariant.
LEMMA NextPipelineInv ==
  ASSUME PipelineInv, [PipelineNext]_pipelineVars
  PROVE  PipelineInv'
<1> USE DEF PipelineInv
<1>1. CASE Job
  BY <1>1, JobStep
  DEF PipelineTypeOK, ChecksSawAFailure, IncidentsAreOfExecutions,
      EvidenceIsOfTheFailure
<1>2. ASSUME NEW c \in Checks, CheckPipeline(c) \/ Answer(c) \/ CheckRaises(c)
      PROVE  PipelineInv'
  <2>1. UNCHANGED <<executions, log>>
    BY <1>2, CheckStep
  <2>2. PICK state \in CheckState :
          check' = [check EXCEPT ![c] = state] /\ SawAFailure(state)
    BY <1>2, CheckStep
  <2>3. /\ check \in [Checks -> CheckState]
        /\ executions \in Seq(ExecutionState) /\ log \in Seq(Entry)
        /\ incidents \in Seq(Incident)
    BY DEF PipelineTypeOK
  <2>4. DOMAIN incidents = 1..Len(incidents) /\ Len(incidents) \in Nat
    BY <2>3, LenProperties
  <2>5. check' \in [Checks -> CheckState]
    BY <2>2, <2>3
  <2>6. ChecksSawAFailure'
    BY <2>1, <2>2, <2>3 DEF ChecksSawAFailure, SawAFailure
  <2>7. CASE UNCHANGED incidents
    BY <2>1, <2>3, <2>5, <2>6, <2>7
    DEF PipelineTypeOK, IncidentsAreOfExecutions, EvidenceIsOfTheFailure
  <2>8. ASSUME NEW task \in BOOLEAN, check[c].pc = "create", incidents' = Opened(c, task)
        PROVE  PipelineInv'
    <3> DEFINE opened == [execution |-> check[c].execution, line |-> check[c].line,
                          task |-> task]
    <3>1. /\ check[c].execution \in DOMAIN executions
          /\ executions[check[c].execution] = "failed"
          /\ check[c].line # NoLine =>
               check[c].line.execution = check[c].execution
      BY <2>8 DEF ChecksSawAFailure
    <3>2. check[c].execution \in Nat \ {0} /\ check[c].line \in Entry \cup {NoLine}
      BY <2>3, <3>1, LenProperties DEF CheckState
    <3>3. opened \in Incident
      BY <3>2 DEF Incident
    <3>4. /\ incidents' \in Seq(Incident)
          /\ DOMAIN incidents' = 1..(Len(incidents) + 1)
          /\ \A i \in 1..Len(incidents) : incidents'[i] = incidents[i]
          /\ incidents'[Len(incidents) + 1] = opened
      <4>1. incidents' = Append(incidents, opened)
        BY <2>8 DEF Opened
      <4> HIDE DEF opened
      <4> QED
        BY <2>3, <3>3, <4>1, AppendProperties, LenProperties
    <3>5. IncidentsAreOfExecutions'
      BY <2>1, <2>4, <3>1, <3>4 DEF IncidentsAreOfExecutions
    <3>6. EvidenceIsOfTheFailure'
      BY <2>1, <2>4, <3>1, <3>4 DEF EvidenceIsOfTheFailure
    <3> QED
      BY <2>1, <2>3, <2>5, <2>6, <3>4, <3>5, <3>6 DEF PipelineTypeOK
  <2> QED
    BY <1>2, <2>7, <2>8, CheckStep
<1>3. CASE UNCHANGED pipelineVars
  BY <1>3 DEF pipelineVars, PipelineTypeOK, ChecksSawAFailure,
              IncidentsAreOfExecutions, EvidenceIsOfTheFailure
<1> QED
  BY <1>1, <1>2, <1>3 DEF PipelineNext

-----------------------------------------------------------------------------
(* The theorems *)

\* The job's executions, its log, the checks and what they open keep their
\* types: an incident is opened for an execution that has a name.
THEOREM PipelineTypeCorrect == PipelineSpec => []PipelineTypeOK
<1>1. PipelineInv => PipelineTypeOK
  BY DEF PipelineInv
<1> QED
  BY <1>1, InitPipelineInv, NextPipelineInv, PTL DEF PipelineSpec

\* Every incident a check opens is about an execution that failed, and quotes
\* that execution's log or nothing, however often the job runs meanwhile.
THEOREM EvidenceHolds == PipelineSpec => []EvidenceIsOfTheFailure
<1>1. PipelineInv => EvidenceIsOfTheFailure
  BY DEF PipelineInv
<1> QED
  BY <1>1, InitPipelineInv, NextPipelineInv, PTL DEF PipelineSpec

-----------------------------------------------------------------------------
(* The diagnosis *)

\* The patterns, one by one.
LEMMA PatternsByNumber ==
  /\ DOMAIN RealErrorPatterns = 1..4
  /\ RealErrorPatterns[1] = MissingColumn /\ RealErrorPatterns[2] = MissingRelation
  /\ RealErrorPatterns[3] = PermissionDenied /\ RealErrorPatterns[4] = NoConnection
BY DEF RealErrorPatterns

\* The fields of the four patterns.
LEMMA PatternFields ==
  /\ /\ RealErrorPatterns[1].phrases = {"column", "column of relation"}
     /\ RealErrorPatterns[1].col = "column"
     /\ RealErrorPatterns[1].drift_type = "SCHEMA_DRIFT"
  /\ /\ RealErrorPatterns[2].phrases = {"relation", "column of relation"}
     /\ RealErrorPatterns[2].col = "table"
     /\ RealErrorPatterns[2].drift_type = "SCHEMA_DRIFT"
  /\ /\ RealErrorPatterns[3].phrases = {"permission"}
     /\ RealErrorPatterns[3].col = "none"
     /\ RealErrorPatterns[3].drift_type = "PERMISSION"
  /\ /\ RealErrorPatterns[4].phrases = {"connection"}
     /\ RealErrorPatterns[4].col = "none"
     /\ RealErrorPatterns[4].drift_type = "BROKEN_JOB"
<1>1. /\ MissingColumn.phrases = {"column", "column of relation"}
      /\ MissingColumn.col = "column" /\ MissingColumn.drift_type = "SCHEMA_DRIFT"
  BY DEF MissingColumn
<1>2. /\ MissingRelation.phrases = {"relation", "column of relation"}
      /\ MissingRelation.col = "table" /\ MissingRelation.drift_type = "SCHEMA_DRIFT"
  BY DEF MissingRelation
<1>3. /\ PermissionDenied.phrases = {"permission"}
      /\ PermissionDenied.col = "none" /\ PermissionDenied.drift_type = "PERMISSION"
  BY DEF PermissionDenied
<1>4. /\ NoConnection.phrases = {"connection"}
      /\ NoConnection.col = "none" /\ NoConnection.drift_type = "BROKEN_JOB"
  BY DEF NoConnection
<1> QED
  BY PatternsByNumber, <1>1, <1>2, <1>3, <1>4

\* The pattern that counts matches, and none before it does.
LEMMA FirstMatchIsFirst ==
  ASSUME NEW says, Matches(says) # {}
  PROVE  /\ FirstMatch(says) \in Matches(says)
         /\ \A j \in Matches(says) : FirstMatch(says) <= j
<1>1. Matches(says) \subseteq 1..4
  BY PatternsByNumber DEF Matches
<1>2. \E i \in Matches(says) : \A j \in Matches(says) : i <= j
  <2>1. CASE 1 \in Matches(says)
    BY <1>1, <2>1
  <2>2. CASE 1 \notin Matches(says) /\ 2 \in Matches(says)
    BY <1>1, <2>2
  <2>3. CASE 1 \notin Matches(says) /\ 2 \notin Matches(says) /\ 3 \in Matches(says)
    BY <1>1, <2>3
  <2>4. CASE 1 \notin Matches(says) /\ 2 \notin Matches(says) /\ 3 \notin Matches(says)
    BY <1>1, <2>4
  <2> QED
    BY <2>1, <2>2, <2>3, <2>4
<1> QED
  BY <1>2 DEF FirstMatch

\* What the classification of a text says is in the text.  In particular a
\* table is named only where no column is: the longer pattern comes first.
LEMMA TriageIsOfTheText ==
  ASSUME NEW says
  PROVE  /\ Triage(says).affected = "column" =>
              says \cap {"column", "column of relation"} # {}
         /\ Triage(says).affected = "table" => "relation" \in says
         /\ Triage(says).drift_type = "PERMISSION" => "permission" \in says
         /\ Triage(says).confident => says # {}
         /\ ~Triage(says).confident => says \cap Phrases = {}
<1>1. Matches(says) =
        {i \in 1..4 : RealErrorPatterns[i].phrases \cap says # {}}
  BY PatternsByNumber DEF Matches
<1>2. CASE Matches(says) = {}
  <2>1. /\ Triage(says).affected = "none" /\ Triage(says).drift_type = "BROKEN_JOB"
        /\ ~Triage(says).confident
    BY <1>2 DEF Triage
  <2>2. \A i \in 1..4 : RealErrorPatterns[i].phrases \cap says = {}
    BY <1>1, <1>2
  <2>3. /\ RealErrorPatterns[1].phrases \cap says = {}
        /\ RealErrorPatterns[2].phrases \cap says = {}
        /\ RealErrorPatterns[3].phrases \cap says = {}
        /\ RealErrorPatterns[4].phrases \cap says = {}
    BY <2>2
  <2>4. says \cap Phrases = {}
    BY <2>3, PatternFields DEF Phrases
  <2> QED
    BY <2>1, <2>4
<1>3. CASE Matches(says) # {}
  <2>1. PICK i \in 1..4 : i = FirstMatch(says)
    BY <1>1, <1>3, FirstMatchIsFirst
  <2>2. RealErrorPatterns[i].phrases \cap says # {}
    BY <1>1, <1>3, <2>1, FirstMatchIsFirst
  <2>3. /\ Triage(says).affected = RealErrorPatterns[i].col
        /\ Triage(says).drift_type = RealErrorPatterns[i].drift_type
        /\ Triage(says).confident = TRUE
    BY <1>3, <2>1 DEF Triage
  <2>4. i # 1 => RealErrorPatterns[1].phrases \cap says = {}
    <3>1. 1 \in Matches(says) => i <= 1
      BY <1>3, <2>1, FirstMatchIsFirst
    <3> QED
      BY <1>1, <2>1, <3>1
  <2>5. says # {}
    BY <2>2
  <2>6. CASE i = 1
    BY <2>2, <2>3, <2>6, PatternFields
  <2>7. CASE i = 2
    <3>1. says \cap {"relation", "column of relation"} # {}
      BY <2>2, <2>7, PatternFields
    <3>2. says \cap {"column", "column of relation"} = {}
      BY <2>4, <2>7, PatternFields
    <3>3. "relation" \in says
      BY <3>1, <3>2
    <3> QED
      BY <2>3, <2>5, <2>7, <3>3, PatternFields
  <2>8. CASE i = 3
    BY <2>2, <2>3, <2>8, PatternFields
  <2>9. CASE i = 4
    BY <2>3, <2>5, <2>9, PatternFields
  <2>10. i = 1 \/ i = 2 \/ i = 3 \/ i = 4
    BY <2>1
  <2> QED
    BY ONLY <2>10, <2>6, <2>7, <2>8, <2>9
<1> QED
  BY <1>2, <1>3

-----------------------------------------------------------------------------
(* The invariant *)

\* No line is held and none is quoted.
LEMMA InitDiagnosisInv == DiagnosisInit => DiagnosisInv
BY InitPipelineInv
DEF DiagnosisInit, PipelineInit, DiagnosisInv, LinesAreLogged, FindingsAreTriaged

\* What the steps of the pipeline make of the lines and of the findings.
LEMMA PipelineKeepsDiagnosis ==
  ASSUME DiagnosisInv, PipelineNext, UNCHANGED findings
  PROVE  DiagnosisInv'
<1> DEFINE Logged(line) == line = NoLine \/ \E j \in DOMAIN log : log[j] = line
<1>1. PipelineInv /\ PipelineInv'
  BY NextPipelineInv DEF DiagnosisInv
<1>2. CASE Job
  <2>1. UNCHANGED <<check, incidents>>
    BY <1>1, <1>2, JobStep
  <2>2. \A i \in DOMAIN log : \E j \in DOMAIN log' : log'[j] = log[i]
    BY <1>1, <1>2, JobStep
  <2>3. LinesAreLogged'
    BY <2>1, <2>2 DEF DiagnosisInv, LinesAreLogged
  <2> QED
    BY <1>1, <2>1, <2>3 DEF DiagnosisInv, FindingsAreTriaged
<1>3. ASSUME NEW c \in Checks, CheckPipeline(c) \/ Answer(c) \/ CheckRaises(c)
      PROVE  DiagnosisInv'
  <2>1. /\ UNCHANGED <<executions, log>>
        /\ \/ UNCHANGED incidents
           \/ check[c].pc = "create" /\ \E task \in BOOLEAN : incidents' = Opened(c, task)
    BY <1>1, <1>3, CheckStep
  <2>2. /\ check \in [Checks -> CheckState] /\ log \in Seq(Entry)
        /\ incidents \in Seq(Incident)
        /\ \A d \in Checks : Logged(check[d].line)
        /\ \A i \in DOMAIN incidents : Logged(incidents[i].line)
    BY <1>1 DEF DiagnosisInv, LinesAreLogged, PipelineInv, PipelineTypeOK
  <2>3. \A d \in Checks : Logged(check'[d].line)
    <3>1. CASE FetchErrorLine(c)
      <4>1. PICK line \in ErrorLine(EntriesOf(check[c].execution)) :
              check' = [check EXCEPT ![c].pc = "create", ![c].line = line]
        BY <3>1 DEF FetchErrorLine
      <4>2. Logged(line)
        BY <4>1 DEF ErrorLine, NewestOfKind, SecondPass, EntriesOf, Newest, LinesOf
      <4> HIDE DEF Logged
      <4> QED
        BY <2>2, <4>1, <4>2 DEF CheckState
    <3>2. CASE CheckPipeline(c) \/ ListLatest(c) \/ CreateIncident(c) \/ CheckRaises(c)
      <4>1. SUFFICES ASSUME NEW d \in Checks
                     PROVE  check'[d].line = check[d].line
        BY <2>2
      <4>2. CASE CheckPipeline(c)
        BY <2>2, <4>2 DEF CheckPipeline, CheckState
      <4>3. CASE ListLatest(c)
        <5>1. CASE check' = [check EXCEPT ![c].pc = "healthy"]
          BY <2>2, <5>1 DEF CheckState
        <5>2. CASE \E latest : check' = [check EXCEPT ![c].pc = "logs",
                                                     ![c].execution = latest]
          BY <2>2, <5>2 DEF CheckState
        <5> QED
          BY <4>3, <5>1, <5>2 DEF ListLatest
      <4>4. CASE CreateIncident(c)
        BY <2>2, <4>4 DEF CreateIncident, CheckState
      <4>5. CASE CheckRaises(c)
        BY <2>2, <4>5 DEF CheckRaises, CheckState
      <4> QED
        BY <3>2, <4>2, <4>3, <4>4, <4>5
    <3> QED
      BY <1>3, <3>1, <3>2 DEF Answer
  <2>4. CASE UNCHANGED incidents
    BY <1>1, <2>1, <2>2, <2>3, <2>4 DEF DiagnosisInv, LinesAreLogged, FindingsAreTriaged
  <2>5. ASSUME NEW task \in BOOLEAN, check[c].pc = "create", incidents' = Opened(c, task)
        PROVE  DiagnosisInv'
    <3> DEFINE opened == [execution |-> check[c].execution, line |-> check[c].line,
                          task |-> task]
    <3>1. opened \in Incident
      <4>1. check[c].execution \in DOMAIN executions /\ executions \in Seq(ExecutionState)
        BY <1>1, <2>5 DEF PipelineInv, ChecksSawAFailure, PipelineTypeOK
      <4>2. check[c].execution \in Nat \ {0}
        BY <4>1, LenProperties
      <4> QED
        BY <2>2, <4>2 DEF CheckState, Incident
    <3>2. /\ DOMAIN incidents = 1..Len(incidents) /\ Len(incidents) \in Nat
          /\ DOMAIN incidents' = 1..(Len(incidents) + 1)
          /\ \A i \in 1..Len(incidents) : incidents'[i] = incidents[i]
          /\ incidents'[Len(incidents) + 1] = opened
      <4>1. incidents' = Append(incidents, opened)
        BY <2>5 DEF Opened
      <4> HIDE DEF opened
      <4> QED
        BY <2>2, <3>1, <4>1, AppendProperties, LenProperties
    <3>3. \A i \in DOMAIN incidents' : Logged(incidents'[i].line)
      <4> HIDE DEF Logged
      <4>1. Logged(opened.line)
        BY <2>2
      <4> QED
        BY <2>2, <3>2, <4>1
    <3>4. LinesAreLogged'
      BY <2>1, <2>3, <3>3 DEF LinesAreLogged
    <3>5. FindingsAreTriaged'
      BY <3>2 DEF DiagnosisInv, FindingsAreTriaged
    <3> QED
      BY <1>1, <3>4, <3>5 DEF DiagnosisInv
  <2> QED
    BY <2>1, <2>4, <2>5
<1> QED
  BY <1>2, <1>3 DEF PipelineNext

\* Every step keeps what the findings rest on: the checks', the job's, and an
\* investigation's.
LEMMA NextDiagnosisInv ==
  ASSUME DiagnosisInv, [DiagnosisNext]_diagnosisVars
  PROVE  DiagnosisInv'
<1>1. CASE PipelineNext /\ UNCHANGED findings
  BY <1>1, PipelineKeepsDiagnosis
<1>2. CASE UNCHANGED pipelineVars
  <2>1. PipelineInv' /\ LinesAreLogged'
    BY <1>2, NextPipelineInv DEF DiagnosisInv, pipelineVars, LinesAreLogged
  <2>2. UNCHANGED incidents
    BY <1>2 DEF pipelineVars
  <2>3. CASE UNCHANGED findings
    BY <2>1, <2>2, <2>3 DEF DiagnosisInv, FindingsAreTriaged
  <2>4. ASSUME NEW i \in DOMAIN incidents, InvestigateIncidentLogs(i)
        PROVE  FindingsAreTriaged'
    BY <2>2, <2>4 DEF InvestigateIncidentLogs, DiagnosisInv, FindingsAreTriaged
  <2> QED
    BY <1>1, <2>1, <2>3, <2>4 DEF DiagnosisInv, DiagnosisNext, diagnosisVars
<1> QED
  BY <1>1, <1>2 DEF DiagnosisNext, diagnosisVars, InvestigateIncidentLogs

\* A line of the failed execution, in its log, says what the finding says.
LEMMA DiagnosisFollows == DiagnosisInv => DiagnosisIsOfTheFailure
<1> SUFFICES ASSUME DiagnosisInv, NEW f \in findings
             PROVE  /\ f.affected = "column" =>
                         SaidOf(f.incident) \cap {"column", "column of relation"} # {}
                    /\ f.affected = "table" => "relation" \in SaidOf(f.incident)
                    /\ f.drift_type = "PERMISSION" => "permission" \in SaidOf(f.incident)
                    /\ f.confident => SaidOf(f.incident) # {}
                    /\ ~f.confident => incidents[f.incident].line.says = {}
  BY DEF DiagnosisIsOfTheFailure
<1> DEFINE i == f.incident
           line == incidents[i].line
<1>1. /\ i \in DOMAIN incidents
      /\ f.drift_type = Triage(line.says).drift_type
      /\ f.affected = Triage(line.says).affected
      /\ f.confident = Triage(line.says).confident
  BY DEF DiagnosisInv, FindingsAreTriaged
<1>2. /\ line = NoLine \/ \E j \in DOMAIN log : log[j] = line
      /\ line # NoLine => line.execution = incidents[i].execution
      /\ log \in Seq(Entry)
      /\ line \in Entry \cup {NoLine}
  BY <1>1, ElementOfSeq
  DEF DiagnosisInv, LinesAreLogged, PipelineInv, EvidenceIsOfTheFailure, PipelineTypeOK
<1>3. line.says \subseteq SaidOf(i) /\ line.says \subseteq Phrases
  <2>1. CASE line = NoLine
    BY <2>1 DEF NoLine
  <2>2. CASE line # NoLine
    <3>1. PICK j \in DOMAIN log : log[j] = line
      BY <1>2, <2>2
    <3>2. j \in LinesOf(incidents[i].execution)
      BY <1>2, <2>2, <3>1 DEF LinesOf
    <3>3. line.says \subseteq SaidOf(i)
      BY <3>1, <3>2 DEF SaidOf
    <3> QED
      BY <1>2, <2>2, <3>3 DEF Entry
  <2> QED
    BY <2>1, <2>2
<1> HIDE DEF i, line
<1>4. /\ Triage(line.says).affected = "column" =>
           line.says \cap {"column", "column of relation"} # {}
      /\ Triage(line.says).affected = "table" => "relation" \in line.says
      /\ Triage(line.says).drift_type = "PERMISSION" => "permission" \in line.says
      /\ Triage(line.says).confident => line.says # {}
      /\ ~Triage(line.says).confident => line.says \cap Phrases = {}
  BY TriageIsOfTheText
<1>5. /\ f.affected = "column" => SaidOf(i) \cap {"column", "column of relation"} # {}
      /\ f.affected = "table" => "relation" \in SaidOf(i)
      /\ f.drift_type = "PERMISSION" => "permission" \in SaidOf(i)
      /\ f.confident => SaidOf(i) # {}
      /\ ~f.confident => line.says = {}
  BY <1>1, <1>3, <1>4
<1> QED
  BY <1>5 DEF i, line

-----------------------------------------------------------------------------
(* The theorem *)

\* A finding names a column, a table or a permission only if the log of the
\* execution that failed says so, and never a table for a column.
THEOREM DiagnosisHolds == DiagnosisSpec => []DiagnosisIsOfTheFailure
<1>1. DiagnosisSpec => []DiagnosisInv
  BY InitDiagnosisInv, NextDiagnosisInv, PTL DEF DiagnosisSpec
<1> QED
  BY <1>1, DiagnosisFollows, PTL

\* The checks that the diagnosis goes on beside keep their own theorems: what
\* PipelineSpec promises holds while incidents are investigated.
LEMMA DiagnosisIsPipeline ==
  DiagnosisSpec => PipelineInit /\ [][PipelineNext]_pipelineVars
<1>1. DiagnosisInit => PipelineInit
  BY DEF DiagnosisInit
<1>2. [DiagnosisNext]_diagnosisVars => [PipelineNext]_pipelineVars
  BY DEF DiagnosisNext, InvestigateIncidentLogs, diagnosisVars
<1> QED
  BY <1>1, <1>2, PTL DEF DiagnosisSpec
=============================================================================
