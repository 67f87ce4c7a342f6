--------------------------- MODULE PipelineHealth ---------------------------
(***************************************************************************)
(* The on-demand check of a Cloud Run Job (app/agents/pipeline_health.py   *)
(* and check_pipeline in app/api/routes.py) while the job goes on running: *)
(* each check asks for the latest execution, fetches its log when it has   *)
(* failed, and opens an incident.  The three are calls of their own, and   *)
(* any number of checks may be under way.                                  *)
(*                                                                         *)
(* check[c].pc names the call check c makes next: list (the executions),   *)
(* logs (of the execution it saw), create (the incident).                  *)
(***************************************************************************)
EXTENDS Naturals, Sequences, FiniteSets

CONSTANTS
  Checks,         \* POST /pipelines/{job_name}/check, by name
  MaxExecutions,  \* bounds of the model: executions of the job,
  MaxLines,       \* and lines of its log
  MaxResults,     \* the newest entries a check asks for: 50 in the code
  Texts           \* what the job may log

\* "marker" holds SYNC FAILED, "text" is any other line, "fields" a
\* structured payload without a line to read.
Kinds == {"marker", "text", "fields"}

\* What a line may say of the cause: a column, a column of a relation or a
\* relation "does not exist", a permission is denied, a connection fails.
Phrases == {"column", "column of relation", "relation", "permission", "connection"}

ASSUME PipelineAssumption ==
  /\ MaxExecutions \in Nat /\ MaxLines \in Nat /\ MaxResults \in Nat \ {0}
  /\ Texts \subseteq [kind : Kinds, says : SUBSET Phrases]

VARIABLES
  executions,  \* the job's, oldest first: running, succeeded or failed
  log,         \* Cloud Logging's entries of the job, in order of timestamps
  check,
  incidents    \* those opened by checks

pipelineVars == <<executions, log, check, incidents>>

ExecutionState == {"running", "succeeded", "failed"}

Entry == [execution : Nat \ {0}, kind : Kinds, says : SUBSET Phrases]

\* "no readable log line was found", and what a check holds before it looks.
NoLine == [execution |-> 0, kind |-> "none", says |-> {}]

CheckState == [pc        : {"idle", "list", "logs", "create",
                             "healthy", "opened", "raised"},
               execution : Nat,
               line      : Entry \cup {NoLine}]

\* task: the task of the agents was started (run_in_background).
Incident == [execution : Nat \ {0}, line : Entry \cup {NoLine}, task : BOOLEAN]

PipelineTypeOK ==
  /\ executions \in Seq(ExecutionState)
  /\ log \in Seq(Entry)
  /\ check \in [Checks -> CheckState]
  /\ incidents \in Seq(Incident)

PipelineInit ==
  /\ executions = <<>>
  /\ log = <<>>
  /\ check = [c \in Checks |-> [pc |-> "idle", execution |-> 0, line |-> NoLine]]
  /\ incidents = <<>>

-----------------------------------------------------------------------------
(* The job, Cloud Run and Cloud Logging *)

\* The scheduler starts the job again, whether or not its last execution is over.
JobStarts ==
  /\ Len(executions) < MaxExecutions
  /\ executions' = Append(executions, "running")
  /\ UNCHANGED <<log, check, incidents>>

JobEnds ==
  /\ \E e \in DOMAIN executions, state \in {"succeeded", "failed"} :
       /\ executions[e] = "running"
       /\ executions' = [executions EXCEPT ![e] = state]
  /\ UNCHANGED <<log, check, incidents>>

\* The entries with one more, the k-th in order of timestamps.
WithLine(k, line) ==
  [j \in 1..(Len(log) + 1) |->
     IF j < k THEN log[j] ELSE IF j = k THEN line ELSE log[j - 1]]

\* An entry is ingested, which may be long after it was written and after later
\* ones.  A marker may be that of an attempt of the task that was retried.
LineArrives ==
  /\ Len(log) < MaxLines
  /\ \E e \in DOMAIN executions, text \in Texts, k \in 1..(Len(log) + 1) :
       log' = WithLine(k, [execution |-> e, kind |-> text.kind, says |-> text.says])
  /\ UNCHANGED <<executions, check, incidents>>

-----------------------------------------------------------------------------
(* The check *)

CheckPipeline(c) ==
  /\ check[c].pc = "idle"
  /\ check' = [check EXCEPT ![c].pc = "list"]
  /\ UNCHANGED <<executions, log, incidents>>

\* Mutant: the result of the check does not name the execution.
ListLatestUnnamed(c) ==
  /\ check[c].pc = "list"
  /\ LET latest == Len(executions) IN
     check' = IF latest = 0 \/ executions[latest] # "failed"
              THEN [check EXCEPT ![c].pc = "healthy"]
              ELSE [check EXCEPT ![c].pc = "logs"]
  /\ UNCHANGED <<executions, log, incidents>>

\* An execution has failed when its failed_count is not 0.
ListLatest(c) ==
  /\ check[c].pc = "list"
  /\ LET latest == Len(executions) IN
     check' = IF latest = 0 \/ executions[latest] # "failed"
              THEN [check EXCEPT ![c].pc = "healthy"]
              ELSE [check EXCEPT ![c].pc = "logs", ![c].execution = latest]
  /\ UNCHANGED <<executions, log, incidents>>

\* The newest of the entries given, at most max_results of them.
Newest(entries) ==
  {i \in entries : Cardinality({j \in entries : j > i}) < MaxResults}

LinesOf(execution) == {i \in DOMAIN log : log[i].execution = execution}

\* Mutant: the entries of the job, whichever execution they are of.
EntriesOfJob(execution) == Newest(DOMAIN log)

\* list_entries with the filter on the execution.
EntriesOf(execution) == Newest(LinesOf(execution))

\* What list_entries yields to a loop after another loop has been through it:
\* it is a generator, so nothing.
SecondPass(entries) == {}

\* Entries are listed newest first, so a loop stops at the newest that fits.
NewestOfKind(entries, kind) ==
  {i \in entries : /\ log[i].kind = kind
                   /\ \A j \in entries : log[j].kind = kind => j <= i}

\* The line _fetch_error_line returns: one with the marker if there is one,
\* else one to read.
ErrorLine(entries) ==
  LET marker == NewestOfKind(entries, "marker")
      text   == NewestOfKind(SecondPass(entries), "text")
  IN IF marker # {} THEN {log[i] : i \in marker}
     ELSE IF text # {} THEN {log[i] : i \in text}
     ELSE {NoLine}

FetchErrorLine(c) ==
  /\ check[c].pc = "logs"
  /\ \E line \in ErrorLine(EntriesOf(check[c].execution)) :
       check' = [check EXCEPT ![c].pc = "create", ![c].line = line]
  /\ UNCHANGED <<executions, log, incidents>>

\* create_incident; the caller goes on to run_in_background or does not.
Opened(c, task) == Append(incidents, [execution |-> check[c].execution,
                                      line      |-> check[c].line,
                                      task      |-> task])

\* Mutant: a job needs one incident only.
CreateFirstIncident(c) ==
  /\ check[c].pc = "create"
  /\ incidents' = IF incidents = <<>> THEN Opened(c, TRUE) ELSE incidents
  /\ check' = [check EXCEPT ![c].pc = "opened"]
  /\ UNCHANGED <<executions, log>>

CreateIncident(c) ==
  /\ check[c].pc = "create"
  /\ incidents' = Opened(c, TRUE)
  /\ check' = [check EXCEPT ![c].pc = "opened"]
  /\ UNCHANGED <<executions, log>>

\* Cloud Run, Cloud Logging or the store raises: the check ends in a 500.  The
\* store may have written the incident first, which nobody is then given.
CheckRaises(c) ==
  /\ check[c].pc \in {"list", "logs", "create"}
  /\ check' = [check EXCEPT ![c].pc = "raised"]
  /\ \/ UNCHANGED incidents
     \/ check[c].pc = "create" /\ incidents' = Opened(c, FALSE)
  /\ UNCHANGED <<executions, log>>

-----------------------------------------------------------------------------
Job == JobStarts \/ JobEnds \/ LineArrives

Answer(c) == ListLatest(c) \/ FetchErrorLine(c) \/ CreateIncident(c)

PipelineNext == Job \/ \E c \in Checks : CheckPipeline(c) \/ Answer(c) \/ CheckRaises(c)

\* A check that was asked for is answered: its calls return or raise.
PipelineSpec ==
  /\ PipelineInit /\ [][PipelineNext]_pipelineVars
  /\ \A c \in Checks : WF_pipelineVars(Answer(c) \/ CheckRaises(c))

-----------------------------------------------------------------------------
(* Properties *)

\* An incident tells of an execution that failed, and quotes a line of that
\* execution or none, although the job may have run, failed and logged again
\* between the calls of the check (the filter on execution_name).
EvidenceIsOfTheFailure ==
  \A i \in DOMAIN incidents :
    LET incident == incidents[i] IN
    /\ executions[incident.execution] = "failed"
    /\ incident.line # NoLine => incident.line.execution = incident.execution

\* What makes it so: a check holds an execution that has failed, which it
\* never ceases to have, and a line of that execution or none.
ChecksSawAFailure ==
  \A c \in Checks :
    /\ check[c].pc \in {"idle", "list"} => check[c].line = NoLine
    /\ check[c].pc \in {"logs", "create"} =>
         /\ check[c].execution \in DOMAIN executions
         /\ executions[check[c].execution] = "failed"
         /\ check[c].line # NoLine =>
              check[c].line.execution = check[c].execution

IncidentsAreOfExecutions ==
  \A i \in DOMAIN incidents : incidents[i].execution \in DOMAIN executions

PipelineInv == /\ PipelineTypeOK
               /\ ChecksSawAFailure
               /\ IncidentsAreOfExecutions
               /\ EvidenceIsOfTheFailure

\* A job that keeps running does not hide its failure from a check that has
\* seen it: unless a call raises, an incident of that execution is opened and the
\* agents are set to work on it, whatever other checks have opened meanwhile, with
\* or without a task (check_pipeline).
SeenFailureIsOpened ==
  \A c \in Checks :
    check[c].pc = "logs" ~>
      \/ check[c].pc = "raised"
      \/ \E i \in DOMAIN incidents : /\ incidents[i].execution = check[c].execution
                                    /\ incidents[i].task

\* pipeline_health.py:165-166, "prefer it verbatim over any other stderr noise":
\* without a marker, any line that is among those fetched is quoted.
SomeLineIsQuoted ==
  [][\A c \in Checks :
       /\ check[c].pc = "logs" /\ check'[c].pc = "create"
       /\ \E i \in EntriesOf(check[c].execution) : log[i].kind = "text"
       => check'[c].line # NoLine]_pipelineVars
=============================================================================
