----------------------- MODULE DecisionProtocolProofs -----------------------
(***************************************************************************)
(* What follows from DecisionProtocol, for every set of requests; a system *)
(* that implements it has these properties too.                            *)
(***************************************************************************)
EXTENDS DecisionProtocol, TLAPS

USE DEF Admitted, Stages

TypeOK ==
  /\ status \in {"INGESTED", "DIAGNOSING", "AWAITING_APPROVAL",
                 "RESOLVED", "REJECTED", "FAILED"}
  /\ agents \in BOOLEAN
  /\ request \in [Requests -> Stages]
  /\ runs \in Nat

\* A request that saw its SQL succeed has run it.
WrittenHasRun == (\E r \in Requests : request[r] = "written") => runs > 0

ProtocolInv == TypeOK /\ WrittenHasRun /\ ResolvedHasRun

\* The initial state has run nothing and promises nothing.
LEMMA InitProtocolInv == Init => ProtocolInv
BY DEF Init, ProtocolInv, TypeOK, WrittenHasRun, ResolvedHasRun

\* Only Write makes a request "written", and only such a request resolves.
LEMMA NextProtocolInv ==
  ASSUME ProtocolInv, [Next]_vars
  PROVE  ProtocolInv'
<1> USE DEF ProtocolInv, TypeOK, WrittenHasRun, ResolvedHasRun
<1>1. CASE Diagnose \/ Conclude \/ GiveUp \/ AgentsEnd
  BY <1>1 DEF Diagnose, Conclude, GiveUp, AgentsEnd
<1>2. ASSUME NEW r \in Requests, Admit(r) \/ Attempt(r) \/ Abandon(r)
      PROVE  ProtocolInv'
  BY <1>2 DEF Admit, Attempt, Abandon, Becomes
<1>3. ASSUME NEW r \in Requests, Write(r) PROVE ProtocolInv'
  BY <1>3 DEF Write, Becomes
<1>4. ASSUME NEW r \in Requests, Settle(r) PROVE ProtocolInv'
  BY <1>4 DEF Settle, Becomes, Outcome
<1>5. CASE UNCHANGED vars
  BY <1>5 DEF vars
<1> QED
  BY <1>1, <1>2, <1>3, <1>4, <1>5 DEF Next

\* The variables keep their types, and whatever was resolved has been run.
THEOREM ProtocolInvHolds == Spec => []ProtocolInv
BY InitProtocolInv, NextProtocolInv, PTL DEF Spec

\* An incident is RESOLVED only if SQL was run for it.
THEOREM ResolvedIsRun == Spec => []ResolvedHasRun
<1>1. ProtocolInv => ResolvedHasRun
  BY DEF ProtocolInv
<1> QED
  BY <1>1, ProtocolInvHolds, PTL

\* A run is paid for by a request that may not run again: whoever has left
\* "executing" never comes back to it.
LEMMA SpentGrows ==
  ASSUME ProtocolInv, [Next]_vars
  PROVE  /\ Spent \subseteq Spent'
         /\ \/ runs' = runs
            \/ runs' = runs + 1 /\ Spent' \ Spent # {}
<1>1. request \in [Requests -> Stages]
  BY DEF ProtocolInv, TypeOK
<1>2. Spent \subseteq Spent'
  <2>1. ASSUME NEW r \in Requests, NEW stage \in Stages, Becomes(r, stage),
               \/ stage \in {"written", "unsure", "over"}
               \/ request[r] \notin {"written", "unsure", "over"}
        PROVE  Spent \subseteq Spent'
    BY <1>1, <2>1 DEF Becomes, Spent
  <2>2. UNCHANGED request => Spent \subseteq Spent'
    BY DEF Spent
  <2> QED
    BY <2>1, <2>2 DEF Next, Diagnose, Conclude, GiveUp, AgentsEnd, Admit, Write,
                      Attempt, Settle, Abandon, vars
<1>3. CASE \E r \in Requests : Write(r)
  BY <1>1, <1>2, <1>3 DEF Write, Becomes, Spent
<1>4. CASE ~\E r \in Requests : Write(r)
  BY <1>2, <1>4 DEF Next, Diagnose, Conclude, GiveUp, AgentsEnd, Admit, Attempt,
                    Settle, Abandon, vars
<1> QED
  BY <1>3, <1>4

\* What is over stays over: nobody is admitted any more.
THEOREM ProtocolEnds == Spec => OverIsFinal
<1>1. ASSUME ProtocolInv, [Next]_vars, Over
      PROVE  UNCHANGED <<status, runs>> /\ Over'
  <2>1. request \in [Requests -> Stages]
    BY <1>1 DEF ProtocolInv, TypeOK
  <2> QED
    BY <1>1, <2>1 DEF Over, Next, Diagnose, Conclude, GiveUp, AgentsEnd, Admit,
       Write, Attempt, Settle, Abandon, Becomes, vars
<1>2. ProtocolInv /\ [Next]_vars =>
        [Over => UNCHANGED <<status, runs>> /\ Over']_vars
  BY <1>1
<1> QED
  BY <1>2, ProtocolInvHolds, PTL DEF Spec, OverIsFinal

\* While a request is admitted nobody but itself can settle the incident, when
\* there is no other.
AdmittedAlone ==
  \A r \in Requests :
    request[r] \in Admitted => status \in {"AWAITING_APPROVAL", "FAILED"}

\* A single request runs its SQL before anybody decides on the incident.
THEOREM AloneDecidesLast ==
  ASSUME \A r, s \in Requests : r = s
  PROVE  Spec => NoLateRun
<1>1. Init => AdmittedAlone
  BY DEF Init, AdmittedAlone
<1>2. ASSUME ProtocolInv, AdmittedAlone, [Next]_vars
      PROVE  /\ AdmittedAlone'
             /\ [runs' # runs => status \notin {"RESOLVED", "REJECTED"}]_vars
  <2> USE DEF AdmittedAlone
  <2>1. request \in [Requests -> Stages]
    BY <1>2 DEF ProtocolInv, TypeOK
  <2>2. CASE Diagnose \/ Conclude \/ GiveUp \/ AgentsEnd \/ UNCHANGED vars
    BY <1>2, <2>2 DEF Diagnose, Conclude, GiveUp, AgentsEnd, vars
  <2>3. ASSUME NEW r \in Requests, Admit(r) \/ Write(r) \/ Attempt(r) \/ Abandon(r)
        PROVE  AdmittedAlone' /\ (runs' # runs => request[r] \in Admitted)
    BY <1>2, <2>1, <2>3 DEF Admit, Write, Attempt, Abandon, Becomes
  <2>4. ASSUME NEW r \in Requests, Settle(r) PROVE AdmittedAlone' /\ runs' = runs
    BY <1>2, <2>1, <2>4 DEF Settle, Becomes
  <2> QED
    BY <1>2, <2>2, <2>3, <2>4 DEF Next, Diagnose, Conclude, GiveUp, AgentsEnd, vars
<1> QED
  BY <1>1, <1>2, ProtocolInvHolds, PTL DEF Spec, NoLateRun
=============================================================================
