--------------------------- MODULE WarRoomProofs ---------------------------
(***************************************************************************)
(* What the war room may rely on: WarRoomInv is inductive, however the     *)
(* page's calls fail, so an Approve button that can be clicked is one the  *)
(* server would honour.  And what one page does while its posts are        *)
(* answered: it is refused only by an incident that failed meanwhile, and  *)
(* while the store takes what the executor writes it runs SQL once.        *)
(***************************************************************************)
EXTENDS WarRoom, WardenIncidentProofs

\* To the incident the war room is one of the ways its requests arrive.
LEMMA WarRoomIsIncident ==
  ASSUME WarRoomNext
  PROVE  [Next]_vars
<1>1. ASSUME NEW r \in Requests, Send(r) PROVE Request(r)
  BY <1>1 DEF Send, Request, Receive
<1> QED
  BY <1>1 DEF WarRoomNext, PageRuns, Next

\* Once the agents' loop is over it stays over, and with it the patches and
\* the audits.
LEMMA ConclusionIsFinal ==
  ASSUME IndInv, [Next]_vars, orch.pc \notin WorkingPCs
  PROVE  UNCHANGED <<patches, audits>> /\ orch'.pc \notin WorkingPCs
<1>1. OrchestratorTypeOK /\ ExecutorTypeOK /\ StoreTypeOK
  BY DEF IndInv, TypeOK
<1>2. CASE Orchestrate \/ (TaskLost /\ UNCHANGED executorVars)
  BY <1>1, <1>2, OrchestratorControl DEF Orchestrate
<1>3. ASSUME NEW r \in Requests,
             \/ Decide(r) \/ Request(r)
             \/ RequestLost(r) /\ UNCHANGED orch
      PROVE  UNCHANGED <<patches, audits, orch>>
  BY <1>3 DEF Decide, Request, Serve, Receive, RequestLost, ReceiveExecute,
              ReceiveReject, RequireAwaitingApproval, PickLatestPatch, LoadPatch,
              CheckLatestAudit, NextStepSequence, LogDecision, RunProductionSql,
              LogExecution, Settle, StoreRaises, storeVars
<1>4. CASE UNCHANGED vars
  BY <1>4 DEF vars, storeVars
<1> QED
  BY <1>2, <1>3, <1>4 DEF Next, Crash, Settled

\* What the page's own steps make of it: it keeps its type, and it shows an
\* incident awaiting approval only if it did or the incident does.
LEMMA PageStep ==
  ASSUME WarRoomTypeOK, StoreTypeOK, WarRoomNext
  PROVE  /\ WarRoomTypeOK'
         /\ page'.status = "AWAITING_APPROVAL" =>
              \/ page.status = "AWAITING_APPROVAL"
              \/ incident.status = "AWAITING_APPROVAL"
         /\ page'.footer # "none" =>
              page.footer # "none" \/ page.status = "AWAITING_APPROVAL"
<1> USE DEF WarRoomTypeOK, Actions
<1>1. CASE UNCHANGED page
  BY <1>1
<1>2. CASE LoadIncident
  <2> DEFINE polls == IsInFlight(incident.status)
  <2>1. incident.status \in IncidentStatus
    BY DEF StoreTypeOK
  <2>2. polls \in BOOLEAN
    BY SMT DEF IsInFlight, InFlight
  <2>3. page' = [page EXCEPT !.pc = "audits", !.status = incident.status,
                             !.polls = polls]
    BY <1>2 DEF LoadIncident
  <2> HIDE DEF polls
  <2> QED
    BY <2>1, <2>2, <2>3
<1>3. CASE LoadFails \/ ListFails
  BY <1>3 DEF LoadFails, ListFails
<1>4. CASE RenderFooter
  BY <1>4 DEF RenderFooter
<1>5. CASE Answered \/ GivesUp
  BY <1>5 DEF Answered, GivesUp
<1>6. CASE Open \/ Reload \/ Autorefresh
  BY <1>6 DEF Open, Reload, Autorefresh, Restart
<1>7. ASSUME NEW action \in Actions, Click(action)
      PROVE  WarRoomTypeOK' /\ page'.status = page.status
                            /\ page'.footer = page.footer
  BY <1>7 DEF Click
<1>8. ASSUME NEW r \in Requests, Send(r)
      PROVE  WarRoomTypeOK' /\ page'.status = page.status
                            /\ page'.footer = page.footer
  BY <1>8 DEF Send
<1> QED
  BY <1>1, <1>2, <1>3, <1>4, <1>5, <1>6, <1>7, <1>8
  DEF WarRoomNext, PageRuns, Script, Human

\* A page that is not open yet has shown nothing.
LEMMA InitWarRoomInv == WarRoomInit => WarRoomInv
BY InitIndInv DEF WarRoomInit, WarRoomInv, WarRoomTypeOK, ShownIsGoverned

\* Every step of the war room keeps the invariant.
LEMMA NextWarRoomInv ==
  ASSUME WarRoomInv, [WarRoomNext]_warRoomVars
  PROVE  WarRoomInv'
<1> USE DEF WarRoomInv
<1>1. CASE UNCHANGED warRoomVars
  <2>1. [Next]_vars /\ UNCHANGED vars
    BY <1>1 DEF warRoomVars
  <2>2. IndInv'
    BY <2>1, NextIndInv
  <2> QED
    BY <1>1, <2>1, <2>2, GovernedUnchanged
    DEF warRoomVars, vars, storeVars, WarRoomTypeOK, ShownIsGoverned, LatestPatch
<1>2. CASE WarRoomNext
  <2>1. [Next]_vars
    BY <1>2, WarRoomIsIncident
  <2>2. IndInv'
    BY <2>1, NextIndInv
  <2>3. StoreTypeOK
    BY DEF IndInv, TypeOK
  <2>4. WarRoomTypeOK'
    BY <1>2, <2>3, PageStep
  <2>5. ASSUME page'.status = "AWAITING_APPROVAL" \/ page'.footer # "none"
        PROVE  orch.pc \notin WorkingPCs /\ Governed(LatestPatch)
    <3>1. CASE page.status = "AWAITING_APPROVAL" \/ page.footer # "none"
      BY <3>1 DEF ShownIsGoverned
    <3>2. CASE incident.status = "AWAITING_APPROVAL"
      BY <3>2 DEF IndInv, AwaitingIsGoverned, DecisionsFollowConclusion
    <3> QED
      BY <1>2, <2>3, <2>5, <3>1, <3>2, PageStep
  <2>6. ShownIsGoverned'
    <3> SUFFICES ASSUME page'.status = "AWAITING_APPROVAL" \/ page'.footer # "none"
                 PROVE  orch'.pc \notin WorkingPCs /\ Governed(LatestPatch)'
      BY DEF ShownIsGoverned
    <3>1. orch.pc \notin WorkingPCs /\ Governed(LatestPatch)
      BY <2>5
    <3>2. UNCHANGED <<patches, audits>> /\ orch'.pc \notin WorkingPCs
      BY <2>1, <3>1, ConclusionIsFinal
    <3> QED
      BY <3>1, <3>2 DEF Governed, LatestPatch, IsPatch, AuditsOf, LatestVerdictIs
  <2> QED
    BY <2>2, <2>4, <2>6
<1> QED
  BY <1>1, <1>2

-----------------------------------------------------------------------------
(* Any page *)

\* Whatever fails between the page and the API, and whatever dies, the page's
\* state and the incident's satisfy the invariant.
THEOREM WarRoomInvHolds == WarRoomSpec => []WarRoomInv
BY InitWarRoomInv, NextWarRoomInv, PTL DEF WarRoomSpec

\* The page keeps its type: it never shows a status the API does not have, and
\* never waits for anything but posts of its own.
THEOREM WarRoomTypeCorrect == WarRoomSpec => []WarRoomTypeOK
<1>1. WarRoomInv => WarRoomTypeOK
  BY DEF WarRoomInv
<1> QED
  BY <1>1, WarRoomInvHolds, PTL

\* An Approve button that can be clicked belongs to a patch the server would
\* execute, on a page of any age (can_execute).
THEOREM EnabledButtonIsHonoured == WarRoomSpec => []EnabledIsGoverned
<1>1. WarRoomInv => EnabledIsGoverned
  BY DEF WarRoomInv, ShownIsGoverned, EnabledIsGoverned
<1> QED
  BY <1>1, WarRoomInvHolds, PTL

\* Requests that come from a war room run governed patches only, as all do.
THEOREM WarRoomRunsGoverned == WarRoomSpec => []GovernedExecution
<1>1. WarRoomInv => GovernedExecution
  BY DEF WarRoomInv, IndInv
<1> QED
  BY <1>1, WarRoomInvHolds, PTL

-----------------------------------------------------------------------------
(* One page: OnePageInv, together with WarRoomInv, is inductive *)

\* Whether request r has left the executor, or not reached it.
Outside(r) == req[r].pc \in {"idle", "done"}

\* A coroutine that is not over goes on, and touches nothing but its request,
\* the incident at its end, and production once.
LEMMA ServeEffect ==
  ASSUME IndInv, NEW r \in Requests, Serve(r) \/ RequestLost(r)
  PROVE  /\ ~Outside(r)
         /\ req' = [req EXCEPT ![r] = req'[r]]
         /\ req'[r].pc \notin {"idle", "check"}
         /\ req'[r].answer = "NotAwaitingApproval" =>
              /\ req[r].pc = "check" /\ incident.status # "AWAITING_APPROVAL"
              /\ req'[r].pc = "done"
         /\ req[r].pc # "settle" => UNCHANGED incident
         /\ req[r].pc = "settle" => req'[r].pc \notin AdmittedPCs
         /\ req'[r].pc \in AdmittedPCs /\ req[r].pc \notin AdmittedPCs =>
              req[r].pc = "check" /\ incident.status = "AWAITING_APPROVAL"
         /\ UNCHANGED prodRuns \/ (req[r].pc = "run" /\ req'[r].pc = "log")
         /\ \/ UNCHANGED prodRuns
            \/ prodRuns' = Append(prodRuns, req[r].patch) /\ req[r].patch \in Nat \ {0}
         /\ req'[r].pc \in AdmittedPCs \ {"log", "settle"} =>
              req[r].pc \notin {"log", "settle"}
         /\ req[r].pc \in {"log", "settle"} /\ ~StoreFaults =>
              \/ req'[r].pc \in {"log", "settle", "lost"}
              \/ incident'.status # "AWAITING_APPROVAL"
<1>1. PICK q \in RequestState : req' = [req EXCEPT ![r] = q] /\ RequestOK(q)
  BY RequestEffect
<1>2. /\ req \in [Requests -> RequestState] /\ req[r] \in RequestState
      /\ RequestOK(req[r])
  BY RequestsAreOK DEF IndInv, TypeOK, ExecutorTypeOK
<1>3. /\ req'[r] = q /\ req' = [req EXCEPT ![r] = req'[r]]
  BY <1>1, <1>2
<1>4. \/ UNCHANGED prodRuns
      \/ prodRuns' = Append(prodRuns, req[r].patch) /\ req[r].patch \in Nat \ {0}
  BY RequestWrites
<1>5. /\ req[r].pc # "done" => req[r].answer = "none"
      /\ req[r].pc = "run" => req[r].kind = "execute"
  BY <1>2 DEF RequestOK
<1>6. ASSUME NEW pc \in RequestPCs, GoOn(r, pc)
      PROVE  req'[r].pc = pc /\ req'[r].answer = req[r].answer
  BY <1>2, <1>6 DEF GoOn, RequestState
<1>7. ASSUME NEW pc \in RequestPCs, NEW answer \in Answers, EndRequest(r, pc, answer)
      PROVE  req'[r].pc = pc /\ req'[r].answer = answer
  BY <1>2, <1>7, EndRequestEffect DEF IndInv, TypeOK
<1>8. ASSUME NEW answer \in Answers, Answer(r, answer)
      PROVE  req'[r].pc = "done" /\ req'[r].answer = answer
  BY <1>7, <1>8 DEF Answer, RequestPCs, RestingPCs
<1> DEFINE goesOn == {"number", "load", "pick", "audit", "run", "settle"}
<1>9. ASSUME NEW pc \in goesOn, GoOn(r, pc)
      PROVE  req'[r].pc = pc /\ req'[r].answer = req[r].answer
  BY <1>6, <1>9 DEF RequestPCs, ApprovedPCs
<1> HIDE DEF goesOn
<1> USE DEF AdmittedPCs, ApprovedPCs, Outside
<1>10. CASE RequireAwaitingApproval(r)
  <2>1. /\ req[r].pc = "check" /\ UNCHANGED <<incident, prodRuns>>
        /\ \/ /\ incident.status # "AWAITING_APPROVAL"
              /\ Answer(r, "NotAwaitingApproval")
           \/ /\ incident.status = "AWAITING_APPROVAL"
              /\ \E pc \in {"number", "load", "pick"} : GoOn(r, pc)
    BY <1>10 DEF RequireAwaitingApproval, storeVars
  <2> QED
    BY <1>3, <1>5, <1>8, <1>9, <2>1 DEF Answers, goesOn
<1>11. CASE PickLatestPatch(r)
  <2>1. /\ req[r].pc = "pick" /\ UNCHANGED <<incident, prodRuns>>
        /\ \/ req' = [req EXCEPT ![r].pc = "load", ![r].patch = LatestPatch]
           \/ Answer(r, "NoPatchAvailable")
    BY <1>11 DEF PickLatestPatch, storeVars
  <2>2. \/ req'[r].pc = "load" /\ req'[r].answer = "none"
        \/ req'[r].pc = "done" /\ req'[r].answer = "NoPatchAvailable"
    BY <1>2, <1>5, <1>8, <2>1 DEF Answers, RequestState
  <2> QED
    BY <1>3, <2>1, <2>2
<1>12. CASE LoadPatch(r) \/ CheckLatestAudit(r)
  <2>1. /\ req[r].pc \in {"load", "audit"} /\ UNCHANGED <<incident, prodRuns>>
        /\ \/ \E answer \in {"PatchNotFound", "NoGovernanceAudit", "GovernanceBlock"} :
                Answer(r, answer)
           \/ \E pc \in {"audit", "number"} : GoOn(r, pc)
    BY <1>12 DEF LoadPatch, CheckLatestAudit, storeVars
  <2> QED
    BY <1>3, <1>5, <1>8, <1>9, <2>1 DEF Answers, goesOn
<1>13. CASE NextStepSequence(r)
  <2>1. req[r].pc = "number" /\ UNCHANGED <<incident, prodRuns>>
    BY <1>13 DEF NextStepSequence, storeVars
  <2>2. req'[r].pc = "decide" /\ req'[r].answer = req[r].answer
    BY <1>2, <1>13 DEF NextStepSequence, RequestState
  <2> QED
    BY <1>3, <1>5, <2>1, <2>2
<1>14. CASE LogDecision(r) \/ LogExecution(r)
  <2>1. /\ req[r].pc \in {"decide", "log"} /\ UNCHANGED <<incident, prodRuns>>
        /\ \E pc \in {"run", "settle"} : GoOn(r, pc)
        /\ req[r].pc = "log" => GoOn(r, "settle")
    BY <1>14 DEF LogDecision, LogExecution
  <2> QED
    BY <1>3, <1>5, <1>9, <2>1 DEF goesOn
<1>15. CASE RunProductionSql(r)
  <2>1. req[r].pc = "run" /\ UNCHANGED incident
    BY <1>15 DEF RunProductionSql, storeVars
  <2>2. req'[r].pc = "log" /\ req'[r].answer = req[r].answer
    BY <1>2, <1>15 DEF RunProductionSql, RequestState
  <2> QED
    BY <1>3, <1>4, <1>5, <2>1, <2>2
<1>16. CASE Settle(r)
  <2>1. /\ req[r].pc = "settle" /\ UNCHANGED prodRuns
        /\ incident'.status # "AWAITING_APPROVAL"
        /\ \E answer \in {"incident", "raised"} : Answer(r, answer)
    BY <1>16 DEF Settle, SettledStatus, UpdateIncident
  <2> QED
    BY <1>3, <1>8, <2>1 DEF Answers
<1>17. CASE StoreRaises(r)
  <2>1. /\ req[r].pc \notin RestingPCs /\ StoreFaults
        /\ Answer(r, "raised") /\ UNCHANGED <<incident, prodRuns>>
    BY <1>17 DEF StoreRaises, storeVars
  <2> QED
    BY <1>3, <1>8, <2>1 DEF Answers, RestingPCs
<1>18. CASE RequestLost(r)
  <2>1. /\ req[r].pc \notin RestingPCs /\ EndRequest(r, "lost", "none")
        /\ UNCHANGED <<incident, prodRuns>>
    BY <1>18 DEF RequestLost, storeVars
  <2> QED
    BY <1>3, <1>7, <2>1 DEF Answers, RestingPCs, RequestPCs
<1> QED
  BY <1>10, <1>11, <1>12, <1>13, <1>14, <1>15, <1>16, <1>17, <1>18 DEF Serve

\* What is left of the task after its loop can only fail the incident.
LEMMA AfterConclusion ==
  ASSUME OrchestratorTypeOK, Run \/ TaskLost, orch.pc \notin WorkingPCs
  PROVE  /\ incident'.status \in {incident.status, "FAILED"}
         /\ orch'.pc \notin WorkingPCs
<1>1. orch'.pc \notin WorkingPCs
  BY OrchestratorControl
<1>2. CASE Fail \/ FailIsSwallowed \/ TaskLost \/ ReadBack \/ Interrupted
  BY <1>1, <1>2 DEF Fail, FailIsSwallowed, TaskLost, ReadBack, Interrupted,
                    UpdateIncident, storeVars
<1>3. ~(RunInBackground \/ StartRun \/ ModelTurn \/ ToolCall)
  BY DEF RunInBackground, StartRun, ModelTurn, ModelRetry, ModelTimesOut, ModelFails,
         ModelConcludes, ModelCallsTools, ToolCall, BeginCall, ToolWritesNothing,
         GenerateAndTestPatch, VerifyGovernancePolicy, EndCall, WorkingPCs
<1>4. Conclude => ReadBack
  BY DEF Conclude, StopBlocked, NextTurn, ExhaustBudget, EnsureGovernance,
         SkipGovernance, Finish, WorkingPCs
<1> QED
  BY <1>2, <1>3, <1>4 DEF Run

-----------------------------------------------------------------------------
(* Each actor keeps OnePageInv *)

\* A page that is not open yet has sent nothing.
LEMMA InitOnePage == WarRoomInit => OnePageInv
BY DEF WarRoomInit, Init, ExecutorInit, NotReceived, OnePageInv, WaitsForItsRequest,
       ActsOnAwaiting, StillAwaiting, RefusedForGood, RunIsShown, Actions

\* The task's steps do not concern the page: what it acts on comes after the loop.
LEMMA OrchestratorKeepsOnePage ==
  ASSUME WarRoomInv, OnePageInv, ~page.gaveUp, Run \/ TaskLost,
         UNCHANGED <<executorVars, page>>
  PROVE  OnePageInv'
<1>1. /\ OrchestratorTypeOK /\ DecisionsFollowConclusion
      /\ WaitsForItsRequest /\ ActsOnAwaiting /\ StillAwaiting /\ RefusedForGood
      /\ ~StoreFaults => RunIsShown
      /\ UNCHANGED <<req, prodRuns, page>>
  BY DEF WarRoomInv, IndInv, TypeOK, OnePageInv, executorVars
<1>2. orch.pc \notin WorkingPCs =>
        incident'.status \in {incident.status, "FAILED"} /\ orch'.pc \notin WorkingPCs
  BY <1>1, AfterConclusion
<1>3. page.status = "AWAITING_APPROVAL" => orch.pc \notin WorkingPCs
  BY DEF WarRoomInv, ShownIsGoverned
<1>4. (WaitsForItsRequest /\ ActsOnAwaiting)'
  BY <1>1 DEF WaitsForItsRequest, ActsOnAwaiting
<1>5. StillAwaiting'
  BY <1>1, <1>2, <1>3 DEF StillAwaiting, WaitsForItsRequest, ActsOnAwaiting
<1>6. RefusedForGood'
  BY <1>1, <1>2 DEF RefusedForGood
<1>7. (~StoreFaults => RunIsShown)'
  BY <1>1, <1>2 DEF RunIsShown, DecisionsFollowConclusion
<1> QED
  BY <1>4, <1>5, <1>6, <1>7 DEF OnePageInv

\* The request a page waits for is the only one under way, so what it decides is
\* what the page will be told.
LEMMA RequestKeepsOnePage ==
  ASSUME WarRoomInv, OnePageInv, ~page.gaveUp, NEW r \in Requests,
         Serve(r) \/ RequestLost(r), UNCHANGED <<orch, page>>
  PROVE  OnePageInv'
<1>1. /\ IndInv /\ req \in [Requests -> RequestState] /\ prodRuns \in Seq(Nat \ {0})
      /\ WaitsForItsRequest /\ ActsOnAwaiting /\ StillAwaiting /\ RefusedForGood
      /\ ~StoreFaults => RunIsShown
  BY DEF WarRoomInv, IndInv, TypeOK, ExecutorTypeOK, OnePageInv
<1>2. /\ ~Outside(r)
      /\ req' = [req EXCEPT ![r] = req'[r]]
      /\ req'[r].pc \notin {"idle", "check"}
      /\ req'[r].answer = "NotAwaitingApproval" =>
           /\ req[r].pc = "check" /\ incident.status # "AWAITING_APPROVAL"
           /\ req'[r].pc = "done"
      /\ req[r].pc # "settle" => UNCHANGED incident
      /\ req[r].pc = "settle" => req'[r].pc \notin AdmittedPCs
      /\ req'[r].pc \in AdmittedPCs /\ req[r].pc \notin AdmittedPCs =>
           req[r].pc = "check" /\ incident.status = "AWAITING_APPROVAL"
  BY <1>1, ServeEffect
<1>3. /\ page.pc = "answer" /\ page.waits = {r}
      /\ \A s \in Requests \ {r} : Outside(s)
  BY <1>1, <1>2 DEF WaitsForItsRequest, Outside
<1>4. orch.pc \notin WorkingPCs
  BY <1>1, <1>3 DEF ActsOnAwaiting, WarRoomInv, ShownIsGoverned
<1>5. \A s \in Requests \ {r} : req'[s] = req[s]
  BY <1>1, <1>2
<1>6. (WaitsForItsRequest /\ ActsOnAwaiting)'
  BY <1>1, <1>3, <1>5 DEF WaitsForItsRequest, ActsOnAwaiting, Outside
<1>7. StillAwaiting'
  BY <1>2, <1>3, <1>5 DEF StillAwaiting, Outside, Actions
<1>8. RefusedForGood'
  <2> SUFFICES ASSUME \E s \in Requests : req'[s].answer = "NotAwaitingApproval"
               PROVE  /\ incident'.status = "FAILED"
                      /\ \A s \in Requests : req'[s].pc \notin AdmittedPCs
    BY <1>4 DEF RefusedForGood
  <2>1. req[r].pc # "settle" /\ incident.status = "FAILED"
        /\ req'[r].pc \notin AdmittedPCs
    <3>1. CASE req'[r].answer = "NotAwaitingApproval"
      BY <1>1, <1>2, <3>1 DEF StillAwaiting, AdmittedPCs, ApprovedPCs
    <3>2. CASE req'[r].answer # "NotAwaitingApproval"
      <4>1. \E s \in Requests : req[s].answer = "NotAwaitingApproval"
        BY <1>5, <3>2
      <4>2. incident.status = "FAILED" /\ req[r].pc \notin AdmittedPCs
        BY <1>1, <4>1 DEF RefusedForGood
      <4> QED
        BY <1>2, <4>2 DEF AdmittedPCs, ApprovedPCs
    <3> QED
      BY <3>1, <3>2
  <2> QED
    BY <1>2, <1>3, <1>5, <2>1 DEF Outside, AdmittedPCs, ApprovedPCs
<1>9. (~StoreFaults => RunIsShown)'
  <2> SUFFICES ASSUME ~StoreFaults PROVE RunIsShown'
    OBVIOUS
  <2>1. RunIsShown
    BY <1>1
  <2>2. /\ \/ UNCHANGED prodRuns
           \/ prodRuns' = Append(prodRuns, req[r].patch) /\ req[r].patch \in Nat \ {0}
        /\ UNCHANGED prodRuns \/ (req[r].pc = "run" /\ req'[r].pc = "log")
        /\ req'[r].pc \in AdmittedPCs \ {"log", "settle"} =>
             req[r].pc \notin {"log", "settle"}
        /\ req[r].pc \in {"log", "settle"} =>
             \/ req'[r].pc \in {"log", "settle", "lost"}
             \/ incident'.status # "AWAITING_APPROVAL"
    BY <1>1, ServeEffect
  <2>3. CASE prodRuns' = prodRuns
    <3>1. CASE prodRuns = <<>>
      BY <2>3, <3>1 DEF RunIsShown
    <3>2. CASE prodRuns # <<>>
      <4>1. /\ req[r].pc \notin AdmittedPCs \ {"log", "settle"}
            /\ \/ incident.status # "AWAITING_APPROVAL"
               \/ req[r].pc \in {"log", "settle"}
        BY <1>3, <2>1, <3>2, <1>2 DEF RunIsShown, Outside, Serve, RequestLost, RestingPCs,
           RequireAwaitingApproval, PickLatestPatch, LoadPatch, CheckLatestAudit,
           NextStepSequence, LogDecision, RunProductionSql, LogExecution, Settle,
           StoreRaises
      <4>2. req'[r].pc \notin AdmittedPCs \ {"log", "settle"}
        BY <1>2, <2>2, <4>1 DEF AdmittedPCs, ApprovedPCs
      <4>3. \/ incident'.status # "AWAITING_APPROVAL"
            \/ req'[r].pc \in {"log", "settle", "lost"}
        BY <1>2, <2>2, <4>1
      <4> QED
        BY <1>3, <1>5, <2>1, <2>3, <4>2, <4>3
        DEF RunIsShown, Outside, AdmittedPCs, ApprovedPCs
    <3> QED
      BY <3>1, <3>2
  <2>4. CASE prodRuns' # prodRuns
    <3>1. prodRuns = <<>>
      BY <2>1, <2>2, <2>4 DEF RunIsShown, AdmittedPCs, ApprovedPCs
    <3>2. Len(prodRuns') = 1
      BY <1>1, <2>2, <2>4, <3>1
    <3> QED
      BY <1>3, <1>5, <2>2, <2>4, <3>2
      DEF RunIsShown, Outside, AdmittedPCs, ApprovedPCs
  <2> QED
    BY <2>3, <2>4
<1> QED
  BY <1>6, <1>7, <1>8, <1>9 DEF OnePageInv

\* The page's own steps on a quiet incident, and those that wait.
LEMMA PageKeepsOnePage ==
  ASSUME WarRoomInv, OnePageInv, ~page.gaveUp, UNCHANGED vars,
         Script \/ Autorefresh \/ Human
  PROVE  OnePageInv'
<1>1. /\ WarRoomTypeOK /\ UNCHANGED <<incident, orch, req, prodRuns>>
      /\ WaitsForItsRequest /\ ActsOnAwaiting /\ StillAwaiting /\ RefusedForGood
      /\ ~StoreFaults => RunIsShown
  BY DEF WarRoomInv, OnePageInv, vars, storeVars, executorVars
<1>2. RefusedForGood' /\ (~StoreFaults => RunIsShown)'
  BY <1>1 DEF RefusedForGood, RunIsShown
<1> SUFFICES page'.gaveUp \/ (WaitsForItsRequest /\ ActsOnAwaiting /\ StillAwaiting)'
  BY <1>2 DEF OnePageInv
<1> USE <1>1 DEF WarRoomTypeOK, Actions, WaitsForItsRequest, ActsOnAwaiting,
                 StillAwaiting
<1>3. CASE LoadIncident
  BY <1>3 DEF LoadIncident
<1>4. CASE LoadFails \/ ListFails
  BY <1>4 DEF LoadFails, ListFails
<1>5. CASE RenderFooter
  BY <1>5 DEF RenderFooter
<1>6. CASE Answered
  BY <1>6 DEF Answered
<1>7. CASE GivesUp
  BY <1>7 DEF GivesUp
<1>8. CASE Open \/ Reload \/ Autorefresh
  BY <1>8 DEF Open, Reload, Autorefresh, Restart
<1>9. ASSUME NEW action \in Actions, Click(action)
      PROVE  (WaitsForItsRequest /\ ActsOnAwaiting /\ StillAwaiting)'
  BY <1>9 DEF Click
<1> QED
  BY <1>3, <1>4, <1>5, <1>6, <1>7, <1>8, <1>9 DEF Script, Human

\* The post: the one request that is not over, on what the page has read.
LEMMA SendKeepsOnePage ==
  ASSUME WarRoomInv, OnePageInv, ~page.gaveUp, NEW r \in Requests, Send(r)
  PROVE  OnePageInv'
<1>1. /\ WarRoomTypeOK /\ IndInv /\ req \in [Requests -> RequestState]
      /\ WaitsForItsRequest /\ ActsOnAwaiting /\ StillAwaiting /\ RefusedForGood
      /\ ~StoreFaults => RunIsShown
  BY DEF WarRoomInv, IndInv, TypeOK, ExecutorTypeOK, OnePageInv
<1>2. /\ page.pc \in Actions
      /\ page' = [page EXCEPT !.pc = "answer", !.waits = {r}]
      /\ UNCHANGED <<incident, orch, prodRuns>>
      /\ req[r].pc = "idle" /\ Receive(r)
  BY DEF Send, Receive, ReceiveExecute, ReceiveReject, storeVars, Actions
<1>3. PICK q \in RequestState : req' = [req EXCEPT ![r] = q] /\ RequestOK(q)
  BY <1>1, <1>2, RequestEffect
<1>4. /\ req'[r].pc = "check" /\ req'[r].answer = req[r].answer
      /\ \A s \in Requests \ {r} : req'[s] = req[s]
  <2>1. CASE ReceiveExecute(r)
    BY <1>1, <2>1 DEF ReceiveExecute, RequestState
  <2>2. CASE ReceiveReject(r)
    BY <1>1, <2>2 DEF ReceiveReject, RequestState
  <2>3. \A s \in Requests \ {r} : req'[s] = req[s]
    BY <1>1, <1>3
  <2> QED
    BY <1>2, <2>1, <2>2, <2>3 DEF Receive
<1>5. \A s \in Requests : Outside(s)
  BY <1>1, <1>2 DEF WaitsForItsRequest, Outside, Actions
<1>6. /\ page'.pc = "answer" /\ page'.waits = {r} /\ page'.status = page.status
      /\ page.status = "AWAITING_APPROVAL"
  BY <1>1, <1>2 DEF WarRoomTypeOK, ActsOnAwaiting
<1>7. WaitsForItsRequest'
  BY <1>4, <1>5, <1>6 DEF WaitsForItsRequest, Outside
<1>8. ActsOnAwaiting' /\ StillAwaiting'
  BY <1>1, <1>2, <1>6 DEF ActsOnAwaiting, StillAwaiting
<1>9. RefusedForGood'
  BY <1>1, <1>2, <1>4, <1>5
  DEF RefusedForGood, Outside, AdmittedPCs, ApprovedPCs
<1>10. (~StoreFaults => RunIsShown)'
  BY <1>1, <1>2, <1>4, <1>5 DEF RunIsShown, Outside, AdmittedPCs, ApprovedPCs
<1> QED
  BY <1>7, <1>8, <1>9, <1>10 DEF OnePageInv

\* A page that has given up on a post once stays outside the promise.
LEMMA GaveUpForGood ==
  ASSUME WarRoomTypeOK, [WarRoomNext]_warRoomVars, page.gaveUp
  PROVE  page'.gaveUp
<1> USE DEF WarRoomTypeOK
<1>1. CASE UNCHANGED page
  BY <1>1
<1>2. CASE Script \/ Autorefresh \/ Open \/ Reload
  BY <1>2 DEF Script, LoadIncident, LoadFails, RenderFooter, ListFails, Answered,
              GivesUp, Autorefresh, Open, Reload, Restart
<1>3. ASSUME NEW action \in Actions, Click(action) PROVE page'.gaveUp
  BY <1>3 DEF Click
<1>4. ASSUME NEW r \in Requests, Send(r) PROVE page'.gaveUp
  BY <1>4 DEF Send
<1> QED
  BY <1>1, <1>2, <1>3, <1>4 DEF WarRoomNext, PageRuns, Human, warRoomVars

\* Every step keeps the invariant of one page, or the page gave up on a post.
LEMMA NextOnePage ==
  ASSUME WarRoomInv, OnePageInv, [WarRoomNext]_warRoomVars
  PROVE  OnePageInv'
<1>1. CASE page.gaveUp
  BY <1>1, GaveUpForGood DEF WarRoomInv, OnePageInv
<1>2. CASE ~page.gaveUp
  <2>1. CASE Orchestrate /\ UNCHANGED page
    BY <1>2, <2>1, OrchestratorKeepsOnePage DEF Orchestrate
  <2>2. ASSUME NEW r \in Requests, Decide(r), UNCHANGED page PROVE OnePageInv'
    BY <1>2, <2>2, RequestKeepsOnePage DEF Decide
  <2>3. CASE Crash /\ UNCHANGED page
    BY <1>2, <2>3, OrchestratorKeepsOnePage, RequestKeepsOnePage DEF Crash
  <2>4. CASE PageRuns
    BY <1>2, <2>4, PageKeepsOnePage, SendKeepsOnePage DEF PageRuns
  <2>5. CASE Human /\ UNCHANGED vars
    BY <1>2, <2>5, PageKeepsOnePage
  <2>6. CASE UNCHANGED warRoomVars
    BY <2>6 DEF warRoomVars, vars, storeVars, executorVars, OnePageInv,
       WaitsForItsRequest, ActsOnAwaiting, StillAwaiting, RefusedForGood, RunIsShown
  <2> QED
    BY <2>1, <2>2, <2>3, <2>4, <2>5, <2>6 DEF WarRoomNext
<1> QED
  BY <1>1, <1>2

-----------------------------------------------------------------------------
(* The theorems *)

\* For any number of posts, crashes and failing calls.
THEOREM OnePageInvHolds == WarRoomSpec => []OnePageInv
BY InitOnePage, NextOnePage, WarRoomInvHolds, PTL DEF WarRoomSpec

\* A page whose posts were answered is told that its decision came too late
\* only by an incident that failed: it reads the incident before it acts on a
\* click (main, render_decision_footer).
THEOREM OnePageRefusals == WarRoomSpec => []OnePageIsNotRefused
<1>1. OnePageInv => OnePageIsNotRefused
  BY DEF OnePageInv, RefusedForGood, OnePageIsNotRefused
<1> QED
  BY <1>1, OnePageInvHolds, PTL

\* A page whose posts were answered ran SQL once at most while the store took
\* every write, whatever crashed.
THEOREM OnePageRuns == WarRoomSpec => []OnePageRunsOnce
<1>1. OnePageInv => OnePageRunsOnce
  BY DEF OnePageInv, RunIsShown, OnePageRunsOnce
<1> QED
  BY <1>1, OnePageInvHolds, PTL
=============================================================================
