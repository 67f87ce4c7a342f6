------------------------------ MODULE WarRoom ------------------------------
(***************************************************************************)
(* A human with one open page of the war room (ui/streamlit_app.py) over   *)
(* the incident.  Streamlit runs the script from its first line for every  *)
(* click and every tick of the autorefresh, and the script waits for each  *)
(* call of the API; all it knows is what those calls returned.             *)
(*                                                                         *)
(* page.pc names the call the script makes next:                           *)
(*   closed    no incident is open                                         *)
(*   idle      the script has ended, the page is on the screen             *)
(*   incident  get_incident                                                *)
(*   audits    list_steps to list_audits, of which only audits decide      *)
(*   execute, reject   the post                                            *)
(*   answer    waiting for the answer of that                              *)
(***************************************************************************)
EXTENDS WardenIncident

\* The calls that may fail for the client though the API lives: reads, and
\* the posts the client gives up on after its timeout.
CONSTANT PageFaults

ASSUME PageAssumption == PageFaults \subseteq {"read", "post"}

VARIABLE page

warRoomVars == <<vars, page>>

Actions == {"execute", "reject"}

WarRoomTypeOK ==
  page \in [pc     : {"closed", "idle", "incident", "audits", "answer"} \cup Actions,
            status : IncidentStatus \cup {"none"},       \* in the header
            polls  : BOOLEAN,                            \* st_autorefresh is there
            footer : {"none", "disabled", "enabled"},    \* and Approve in it
            click  : Actions \cup {"none"},              \* not acted on yet
            waits  : SUBSET Requests,                    \* for their answer
            gaveUp : BOOLEAN]                            \* ever, on a post

WarRoomInit ==
  /\ Init
  /\ page = [pc |-> "closed", status |-> "none", polls |-> FALSE,
             footer |-> "none", click |-> "none", waits |-> {}, gaveUp |-> FALSE]

-----------------------------------------------------------------------------
(* What starts the script *)

\* The incident was just ingested, or loaded by its id.
Open ==
  /\ page.pc = "closed"
  /\ page' = [page EXCEPT !.pc = "incident"]

\* A running script is left for the new one, with the click it was run for.
Restart ==
  /\ page.pc \in {"idle", "incident", "audits"}
  /\ page' = [page EXCEPT !.pc = "incident", !.click = "none"]

\* A widget that decides nothing.
Reload == Restart

Autorefresh == page.polls /\ Restart

Clickable(action) ==
  \/ page.footer = "enabled"
  \/ page.footer = "disabled" /\ action = "reject"

\* The bound of the model: a click there is a request for, besides that of the
\* post the script is about to make.
CanBePosted ==
  \E r \in Requests :
    /\ req[r].pc = "idle"
    /\ page.pc \in Actions => \E s \in Requests \ {r} : req[s].pc = "idle"

\* Mutant: the click is acted on without reading the incident again.
ClickSendsAtOnce(action) ==
  /\ Clickable(action) /\ page.pc \in {"idle", "answer"}
  /\ CanBePosted
  /\ page' = [page EXCEPT !.pc = action, !.waits = {}]

\* A button on the screen: that of the last run until the next draws its own.  A
\* click restarts the script, at once or when the post it waits for is over,
\* and replaces a click the script has not acted on.
Click(action) ==
  /\ Clickable(action)
  /\ CanBePosted
  /\ page' = [page EXCEPT !.click = action,
                          !.pc = IF page.pc \in Actions \cup {"answer"}
                                 THEN page.pc ELSE "incident"]

-----------------------------------------------------------------------------
(* The script *)

\* Mutant: the page is redrawn only while the agents diagnose.
PollsWhileDiagnosing(status) == status \in {"DIAGNOSING", "PATCHING"}

IsInFlight(status) == status \in InFlight

LoadIncident ==
  /\ page.pc = "incident"
  /\ page' = [page EXCEPT !.pc = "audits", !.status = incident.status,
                          !.polls = IsInFlight(incident.status)]

\* st.error and return: neither the autorefresh nor a footer is drawn.
LoadFails ==
  /\ page.pc = "incident" /\ "read" \in PageFaults
  /\ page' = [page EXCEPT !.pc = "idle", !.status = "none", !.polls = FALSE,
                          !.footer = "none", !.click = "none"]

\* The last audit of the incident decides, whichever patch it is of.
CanExecute == audits # <<>> /\ audits[Len(audits)].verdict # "BLOCK"

\* Mutant: whatever the status, Approve is there and enabled unless a BLOCK is.
RenderFooterUnlessBlocked ==
  /\ page.pc = "audits"
  /\ page' = [page EXCEPT !.pc = IF page.click = "none" THEN "idle" ELSE page.click,
                          !.footer = IF \E i \in DOMAIN audits : audits[i].verdict = "BLOCK"
                                     THEN "disabled" ELSE "enabled",
                          !.click = "none"]

RenderFooter ==
  /\ page.pc = "audits"
  /\ page' = IF page.status # "AWAITING_APPROVAL"
             THEN [page EXCEPT !.pc = "idle", !.footer = "none", !.click = "none"]
             ELSE [page EXCEPT !.pc = IF page.click = "none" THEN "idle" ELSE page.click,
                               !.footer = IF CanExecute THEN "enabled" ELSE "disabled",
                               !.click = "none"]

\* An error that main does not catch ends the script before the footer.
ListFails ==
  /\ page.pc = "audits" /\ "read" \in PageFaults
  /\ page' = [page EXCEPT !.pc = "idle", !.footer = "none", !.click = "none"]

\* The page names no patch.
Send(r) ==
  /\ MayRun(r)
  /\ \/ page.pc = "execute" /\ ReceiveExecute(r) /\ ~req'[r].named
     \/ page.pc = "reject" /\ ReceiveReject(r)
  /\ page' = [page EXCEPT !.pc = "answer", !.waits = {r}]
  /\ UNCHANGED orch

\* Mutant: the header takes over the answer, and nothing is read again.
AnsweredWithoutRerun ==
  /\ page.pc = "answer"
  /\ \E r \in page.waits :
       /\ req[r].pc = "done"
       /\ page' = [page EXCEPT !.pc = IF page.click # "none" THEN "incident" ELSE "idle",
                               !.status = req[r].answer, !.waits = {}]

\* A decision that went through redraws the page; an error is shown below
\* the footer, and only a click made meanwhile starts the script again.
Answered ==
  /\ page.pc = "answer"
  /\ \E r \in page.waits :
       /\ req[r].pc = "done"
       /\ page' = [page EXCEPT
                     !.pc = IF \/ req[r].answer = "incident"
                               \/ page.click # "none"
                            THEN "incident" ELSE "idle",
                     !.waits = {}]

\* Mutant: the page does not wait for the answer.
GivesUpAtOnce ==
  /\ page.pc = "answer"
  /\ page' = [page EXCEPT !.pc = IF page.click # "none" THEN "incident" ELSE "idle",
                          !.waits = {}]

\* httpx gives up, or the connection breaks with the instance: the request
\* may be under way all the same, or may never have arrived.
GivesUp ==
  /\ \/ page.pc \in Actions \cup {"answer"} /\ "post" \in PageFaults
     \/ page.pc = "answer" /\ \E r \in page.waits : req[r].pc = "lost"
  /\ page' = [page EXCEPT !.pc = IF page.click # "none" THEN "incident" ELSE "idle",
                          !.waits = {}, !.gaveUp = TRUE]

-----------------------------------------------------------------------------
Script == LoadIncident \/ LoadFails \/ RenderFooter \/ ListFails
          \/ Answered \/ GivesUp

Human == Open \/ Reload \/ \E action \in Actions : Click(action)

\* Everything the page does by itself.
PageRuns ==
  \/ MayRun("page") /\ (Script \/ Autorefresh) /\ UNCHANGED vars
  \/ \E r \in Requests : Send(r)

\* The requests come from the page, and from nowhere else.
WarRoomNext ==
  \/ Orchestrate /\ UNCHANGED page
  \/ \E r \in Requests : Decide(r) /\ UNCHANGED page
  \/ Crash /\ UNCHANGED page
  \/ PageRuns
  \/ MayRun("page") /\ Human /\ UNCHANGED vars

WarRoomSpec == WarRoomInit /\ [][WarRoomNext]_warRoomVars

\* The event loop resumes a coroutine whose await is over, and every await
\* ends: the model and the tools under wait_for, store and BigQuery calls by
\* the deadlines of their clients.  An open browser runs its timer, and httpx
\* ends every call.  No human has to do anything, and no instance has to crash.
WarRoomFairSpec ==
  /\ WarRoomSpec
  /\ WF_warRoomVars(Orchestrate /\ UNCHANGED page)
  /\ \A r \in Requests : WF_warRoomVars(Decide(r) /\ UNCHANGED page)
  /\ WF_warRoomVars(PageRuns)

-----------------------------------------------------------------------------
(* Properties *)

\* An Approve button that can be clicked is one the server would honour,
\* however old the page: the latest patch is audited and its latest audit is
\* not BLOCK, although the page looks at the incident's last audit and reads it
\* in another call than the status (can_execute, execute_incident).
EnabledIsGoverned == page.footer = "enabled" => Governed(LatestPatch)

\* What makes it so: whoever was ever shown an incident awaiting approval sees
\* what the agents left behind, which they never change again.
ShownIsGoverned ==
  page.status = "AWAITING_APPROVAL" \/ page.footer # "none"
    => orch.pc \notin WorkingPCs /\ Governed(LatestPatch)

WarRoomInv == IndInv /\ WarRoomTypeOK /\ ShownIsGoverned

\* While every post of one page was answered, it is never told that its
\* decision came too late, however fast its human clicks, unless the incident
\* timeout struck meanwhile: the script re-reads the incident before it acts on
\* a click (main, render_decision_footer).
OnePageIsNotRefused ==
  ~page.gaveUp =>
    \A r \in Requests :
      req[r].answer = "NotAwaitingApproval" => incident.status = "FAILED"

\* While every post of one page was answered, it ran SQL once at most: the
\* posts are synchronous and a second click meets the status the first one left
\* (WardenApiClient, render_decision_footer).  So it is while the store takes
\* that status: a 500 after the SQL leaves an incident to approve again.
OnePageRunsOnce == ~StoreFaults /\ ~page.gaveUp => Len(prodRuns) <= 1

\* What makes it so.  A request that is not over is the one the page waits for;
\* the page acts on a status it has read, which nobody but a late _fail changes
\* until its post arrives; a refused page had that happen to it; and what ran
\* is shown in the status, or is about to be.
WaitsForItsRequest ==
  \A r \in Requests :
    req[r].pc \notin {"idle", "done"} => page.pc = "answer" /\ page.waits = {r}

ActsOnAwaiting ==
  page.pc \in Actions \cup {"answer"} => page.status = "AWAITING_APPROVAL"

StillAwaiting ==
  \/ page.pc \in {"audits"} \cup Actions /\ page.status = "AWAITING_APPROVAL"
  \/ \E r \in Requests : req[r].pc = "check"
  => incident.status \in {"AWAITING_APPROVAL", "FAILED"}

RefusedForGood ==
  (\E r \in Requests : req[r].answer = "NotAwaitingApproval") =>
    /\ incident.status = "FAILED"
    /\ orch.pc \notin WorkingPCs
    /\ \A r \in Requests : req[r].pc \notin AdmittedPCs

RunIsShown ==
  /\ Len(prodRuns) <= 1
  /\ prodRuns # <<>> =>
       /\ \A r \in Requests : req[r].pc \notin AdmittedPCs \ {"log", "settle"}
       /\ \/ incident.status # "AWAITING_APPROVAL"
          \/ \E r \in Requests : req[r].pc \in {"log", "settle", "lost"}

OnePageInv ==
  ~page.gaveUp =>
    /\ WaitsForItsRequest
    /\ ActsOnAwaiting
    /\ StillAwaiting
    /\ RefusedForGood
    /\ ~StoreFaults => RunIsShown

\* A page that shows the incident in flight does not stay so, without the human
\* doing anything: it comes to show what the agents came to, or an error, unless
\* their task died with its instance (is_in_flight, st_autorefresh).
PageFollows ==
  page.status \in InFlight ~> page.status \notin InFlight \/ orch.pc = "lost"
=============================================================================
