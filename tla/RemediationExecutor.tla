------------------------ MODULE RemediationExecutor ------------------------
(***************************************************************************)
(* The human's decision on one incident (app/agents/executor.py): what     *)
(* POST /incidents/{id}/execute and /reject do.  A request is a coroutine; *)
(* each action is the code up to and including one store or BigQuery call, *)
(* so that on Firestore anything may happen between two of them.           *)
(*                                                                         *)
(* req[r].pc names the call request r makes next:                          *)
(*   idle    not received yet                                              *)
(*   check   _require_awaiting_approval: get_incident                      *)
(*   pick    list_patches, when the client named no patch                  *)
(*   load    get_patch                                                     *)
(*   audit   _latest_audit_for_patch: list_audits                          *)
(*   number  _next_step_sequence: list_steps                               *)
(*   decide  append_step(USER_DECISION)                                    *)
(*   run     backend.execute(production_sql)                               *)
(*   log     append_step(EXECUTION)                                        *)
(*   settle  the final update_incident                                     *)
(*   done    answered;  lost: died with its process                        *)
(***************************************************************************)
EXTENDS IncidentStore

CONSTANT Requests

VARIABLES
  req,       \* the requests, by name
  prodRuns   \* the patches whose production_sql took effect, in order

executorVars == <<req, prodRuns>>

RestingPCs == {"idle", "done", "lost"}
\* execute has passed its pre-flight checks from "number" on.
ApprovedPCs == {"number", "decide", "run", "log", "settle"}
RequestPCs == RestingPCs \cup ApprovedPCs \cup {"check", "pick", "load", "audit"}

Answers == {"none",
            "NotAwaitingApproval", "NoPatchAvailable", "PatchNotFound",
            "NoGovernanceAudit", "GovernanceBlock",        \* 404 and 409
            "incident",   \* 200: as read back, so maybe settled by another request
            "raised"}     \* 500

NoPatchId == 0

RequestState ==
  [pc        : RequestPCs,
   kind      : {"execute", "reject"},
   named     : BOOLEAN,   \* the client named a patch
   patch     : Nat,       \* the patch, NoPatchId until one is known
   step      : Nat,       \* step_sequence, 0 until it is read
   succeeded : BOOLEAN,   \* backend.execute returned
   answer    : Answers]

ExecutorTypeOK ==
  /\ req \in [Requests -> RequestState]
  /\ prodRuns \in Seq(Nat \ {0})

NotReceived == [pc |-> "idle", kind |-> "execute", named |-> FALSE,
                patch |-> NoPatchId, step |-> 0, succeeded |-> FALSE,
                answer |-> "none"]

ExecutorInit ==
  /\ req = [r \in Requests |-> NotReceived]
  /\ prodRuns = <<>>

GoOn(r, pc) == req' = [req EXCEPT ![r].pc = pc]

\* The coroutine is over, and its local variables with it.
EndRequest(r, pc, answer) ==
  req' = [req EXCEPT ![r] = [NotReceived EXCEPT !.pc = pc, !.answer = answer,
                                                !.named = req[r].named]]

Answer(r, answer) == EndRequest(r, "done", answer)

-----------------------------------------------------------------------------
(* The routes: a body may name a patch, which need not exist *)

ReceiveExecute(r) ==
  /\ req[r].pc = "idle"
  /\ \E p \in NoPatchId .. Len(patches) + 1 :
       req' = [req EXCEPT ![r].pc = "check", ![r].kind = "execute",
                          ![r].named = (p # NoPatchId), ![r].patch = p]
  /\ UNCHANGED <<storeVars, prodRuns>>

ReceiveReject(r) ==
  /\ req[r].pc = "idle"
  /\ req' = [req EXCEPT ![r].pc = "check", ![r].kind = "reject"]
  /\ UNCHANGED <<storeVars, prodRuns>>

-----------------------------------------------------------------------------
(* Pre-flight *)

\* Mutant: everything but a failed or rejected incident may be decided on.
RequireNotFailed(r) ==
  /\ req[r].pc = "check"
  /\ IF incident.status \in {"FAILED", "REJECTED"}
     THEN Answer(r, "NotAwaitingApproval")
     ELSE GoOn(r, IF req[r].kind = "reject" THEN "number"
                  ELSE IF req[r].named THEN "load" ELSE "pick")
  /\ UNCHANGED <<storeVars, prodRuns>>

\* Mutant: the request polls for the approval instead of refusing.
PollForApproval(r) ==
  /\ req[r].pc = "check"
  /\ IF incident.status # "AWAITING_APPROVAL"
     THEN UNCHANGED req
     ELSE GoOn(r, IF req[r].kind = "reject" THEN "number"
                  ELSE IF req[r].named THEN "load" ELSE "pick")
  /\ UNCHANGED <<storeVars, prodRuns>>

RequireAwaitingApproval(r) ==
  /\ req[r].pc = "check"
  /\ IF incident.status # "AWAITING_APPROVAL"
     THEN Answer(r, "NotAwaitingApproval")
     ELSE GoOn(r, IF req[r].kind = "reject" THEN "number"
                  ELSE IF req[r].named THEN "load" ELSE "pick")
  /\ UNCHANGED <<storeVars, prodRuns>>

PickLatestPatch(r) ==
  /\ req[r].pc = "pick"
  /\ IF IsPatch(LatestPatch)
     THEN req' = [req EXCEPT ![r].pc = "load", ![r].patch = LatestPatch]
     ELSE Answer(r, "NoPatchAvailable")
  /\ UNCHANGED <<storeVars, prodRuns>>

LoadPatch(r) ==
  /\ req[r].pc = "load"
  /\ IF IsPatch(req[r].patch) THEN GoOn(r, "audit")
                              ELSE Answer(r, "PatchNotFound")
  /\ UNCHANGED <<storeVars, prodRuns>>

\* Mutant: the incident's last audit counts, whichever patch it is of.
CheckLastAuditOfIncident(r) ==
  /\ req[r].pc = "audit"
  /\ IF AuditsOf(req[r].patch) = {} THEN Answer(r, "NoGovernanceAudit")
     ELSE IF audits[Len(audits)].verdict = "BLOCK"
     THEN Answer(r, "GovernanceBlock")
     ELSE GoOn(r, "number")
  /\ UNCHANGED <<storeVars, prodRuns>>

CheckLatestAudit(r) ==
  /\ req[r].pc = "audit"
  /\ IF AuditsOf(req[r].patch) = {} THEN Answer(r, "NoGovernanceAudit")
     ELSE IF LatestVerdictIs(req[r].patch, "BLOCK")
     THEN Answer(r, "GovernanceBlock")
     ELSE GoOn(r, "number")
  /\ UNCHANGED <<storeVars, prodRuns>>

-----------------------------------------------------------------------------
(* The decision *)

\* Mutants: the number of the last step, and one too many.
NumberOfLastStep(r) ==
  /\ req[r].pc = "number"
  /\ req' = [req EXCEPT ![r].pc = "decide", ![r].step = Len(steps)]
  /\ UNCHANGED <<storeVars, prodRuns>>

NumberAfterNext(r) ==
  /\ req[r].pc = "number"
  /\ req' = [req EXCEPT ![r].pc = "decide", ![r].step = Len(steps) + 2]
  /\ UNCHANGED <<storeVars, prodRuns>>

NextStepSequence(r) ==
  /\ req[r].pc = "number"
  /\ req' = [req EXCEPT ![r].pc = "decide", ![r].step = Len(steps) + 1]
  /\ UNCHANGED <<storeVars, prodRuns>>

LogDecision(r) ==
  /\ req[r].pc = "decide"
  /\ AppendStep(req[r].step, "USER_DECISION", "OK")
  /\ GoOn(r, IF req[r].kind = "execute" THEN "run" ELSE "settle")
  /\ UNCHANGED <<incident, patches, audits, prodRuns>>

\* Mutant: a raise is taken for a statement without effect, and retried.
RetryProductionSql(r) ==
  /\ req[r].pc = "run"
  /\ \E effect \in BOOLEAN, succeeded \in BOOLEAN :
       /\ succeeded => effect
       /\ Mode = "local" => succeeded
       /\ prodRuns' = IF effect THEN Append(prodRuns, req[r].patch) ELSE prodRuns
       /\ req' = IF succeeded
                 THEN [req EXCEPT ![r].pc = "log", ![r].succeeded = succeeded]
                 ELSE req
  /\ UNCHANGED storeVars

\* BigQuery runs the statement and the call returns, or it raises.  A raise
\* does not say whether the statement took effect: the job may have finished
\* while its result could not be fetched.  The local backend only succeeds.
RunProductionSql(r) ==
  /\ req[r].pc = "run"
  /\ \E effect \in BOOLEAN, succeeded \in BOOLEAN :
       /\ succeeded => effect
       /\ Mode = "local" => succeeded
       /\ prodRuns' = IF effect THEN Append(prodRuns, req[r].patch) ELSE prodRuns
       /\ req' = [req EXCEPT ![r].pc = "log", ![r].succeeded = succeeded]
  /\ UNCHANGED storeVars

LogExecution(r) ==
  /\ req[r].pc = "log"
  /\ AppendStep(req[r].step + 1, "EXECUTION",
                IF req[r].succeeded THEN "OK" ELSE "ERROR")
  /\ GoOn(r, "settle")
  /\ UNCHANGED <<incident, patches, audits, prodRuns>>

\* Mutant: an approval that was carried out is RESOLVED, raised or not.
ResolvedUnlessRejected(r) ==
  IF req[r].kind = "reject" THEN "REJECTED" ELSE "RESOLVED"

SettledStatus(r) ==
  IF req[r].kind = "reject" THEN "REJECTED"
  ELSE IF req[r].succeeded THEN "RESOLVED" ELSE "FAILED"

\* Mutant: after a raise the incident is left for another try.
SettleUnlessRaised(r) ==
  /\ req[r].pc = "settle"
  /\ IF SettledStatus(r) = "FAILED"
     THEN UNCHANGED incident
     ELSE UpdateIncident(SettledStatus(r), incident.error, incident.turn_count)
  /\ Answer(r, "incident")
  /\ UNCHANGED <<steps, patches, audits, prodRuns>>

\* An error that is already there stays.  On Firestore the update may reach the
\* store and the document fail to be read back.
Settle(r) ==
  /\ req[r].pc = "settle"
  /\ UpdateIncident(SettledStatus(r),
                    IF SettledStatus(r) = "FAILED" THEN "execution_failed"
                                                   ELSE incident.error,
                    incident.turn_count)
  /\ \/ Answer(r, "incident")
     \/ StoreFaults /\ Answer(r, "raised")
  /\ UNCHANGED <<steps, patches, audits, prodRuns>>

-----------------------------------------------------------------------------
\* A Firestore call raises.  Only backend.execute is inside a try, so the
\* request ends there with a 500; before that call, because append_step raised
\* for a decision that had reached the store.
StoreRaises(r) ==
  /\ StoreFaults /\ req[r].pc \notin RestingPCs
  /\ Answer(r, "raised")
  /\ UNCHANGED <<storeVars, prodRuns>>

RequestLost(r) ==
  /\ Crashes /\ req[r].pc \notin RestingPCs
  /\ EndRequest(r, "lost", "none")
  /\ UNCHANGED <<storeVars, prodRuns>>

Receive(r) == ReceiveExecute(r) \/ ReceiveReject(r)

Serve(r) ==
  \/ RequireAwaitingApproval(r) \/ PickLatestPatch(r) \/ LoadPatch(r)
  \/ CheckLatestAudit(r) \/ NextStepSequence(r) \/ LogDecision(r)
  \/ RunProductionSql(r) \/ LogExecution(r) \/ Settle(r) \/ StoreRaises(r)
=============================================================================
