-------------------------- MODULE DecisionProtocol --------------------------
(***************************************************************************)
(* What is left of IncidentLifecycle when the store is Firestore: its      *)
(* calls fail, instances die, and several requests decide on one incident  *)
(* at a time.  The agents diagnose and conclude once; a human's request is *)
(* admitted only while the incident awaits approval; each admitted request *)
(* writes to production once at most, reports what it did once at most,    *)
(* and only one that saw its SQL succeed reports RESOLVED.                 *)
(***************************************************************************)
EXTENDS Naturals

CONSTANT Requests

VARIABLES
  status,   \* IncidentState.status
  agents,   \* whether the agents' task may still change it
  request,  \* how far each request has come
  runs      \* how many times production SQL took effect

vars == <<status, agents, request, runs>>

Admitted == {"executing", "rejecting", "written", "unsure"}
Stages == Admitted \cup {"waiting", "over"}

\* What a request of each stage reports; "unsure" is one whose call raised.
Outcome(stage) == CASE stage = "rejecting" -> "REJECTED"
                    [] stage = "written"   -> "RESOLVED"
                    [] stage = "unsure"    -> "FAILED"

Init ==
  /\ status = "INGESTED" /\ agents = TRUE
  /\ request = [r \in Requests |-> "waiting"]
  /\ runs = 0

Becomes(r, stage) == request' = [request EXCEPT ![r] = stage]

-----------------------------------------------------------------------------
(* The agents *)

Diagnose ==
  /\ agents /\ status = "INGESTED"
  /\ status' = "DIAGNOSING"
  /\ UNCHANGED <<agents, request, runs>>

\* The last write, after which the task may be over or not.
Conclude ==
  /\ agents /\ status = "DIAGNOSING"
  /\ status' \in {"AWAITING_APPROVAL", "REJECTED", "FAILED"}
  /\ agents' \in BOOLEAN
  /\ UNCHANGED <<request, runs>>

\* A timeout or an exception that strikes at any time, during the last write
\* too, ends the task with a status of its own.
GiveUp ==
  /\ agents
  /\ status' = "FAILED" /\ agents' = FALSE
  /\ UNCHANGED <<request, runs>>

AgentsEnd ==
  /\ agents
  /\ agents' = FALSE
  /\ UNCHANGED <<status, request, runs>>

-----------------------------------------------------------------------------
(* The requests *)

Admit(r) ==
  /\ request[r] = "waiting" /\ status = "AWAITING_APPROVAL"
  /\ \E stage \in {"executing", "rejecting"} : Becomes(r, stage)
  /\ UNCHANGED <<status, agents, runs>>

\* The statement took effect, and the call returned or raised.
Write(r) ==
  /\ request[r] = "executing"
  /\ runs' = runs + 1
  /\ \E stage \in {"written", "unsure"} : Becomes(r, stage)
  /\ UNCHANGED <<status, agents>>

\* The call raised and the statement had no effect.
Attempt(r) ==
  /\ request[r] = "executing"
  /\ Becomes(r, "unsure")
  /\ UNCHANGED <<status, agents, runs>>

Settle(r) ==
  /\ request[r] \in Admitted \ {"executing"}
  /\ status' = Outcome(request[r])
  /\ Becomes(r, "over")
  /\ UNCHANGED <<agents, runs>>

\* Refused, failed or lost: whatever it did stays unreported.
Abandon(r) ==
  /\ request[r] # "over"
  /\ Becomes(r, "over")
  /\ UNCHANGED <<status, agents, runs>>

-----------------------------------------------------------------------------
Next ==
  \/ Diagnose \/ Conclude \/ GiveUp \/ AgentsEnd
  \/ \E r \in Requests :
       Admit(r) \/ Write(r) \/ Attempt(r) \/ Settle(r) \/ Abandon(r)

Spec == Init /\ [][Next]_vars

-----------------------------------------------------------------------------
(* What follows from the protocol alone *)

\* An incident that is RESOLVED has had SQL run for it (executor.py:122-125).
ResolvedHasRun == status = "RESOLVED" => runs > 0

\* The requests whose SQL may have run.
Spent == {r \in Requests : request[r] \in {"written", "unsure", "over"}}

\* Once the agents are done, nobody is admitted and the incident does not await
\* approval, neither its status nor production ever changes again.
Over ==
  /\ ~agents /\ status # "AWAITING_APPROVAL"
  /\ \A r \in Requests : request[r] \notin Admitted

OverIsFinal == [][Over => UNCHANGED <<status, runs>> /\ Over']_vars

\* No SQL takes effect once somebody has decided on the incident, which takes
\* more than one request to break.
NoLateRun == [][runs' # runs => status \notin {"RESOLVED", "REJECTED"}]_vars
=============================================================================
