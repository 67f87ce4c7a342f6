------------------------- MODULE IncidentLifecycle -------------------------
(***************************************************************************)
(* What an incident promises the people who work with it, whatever the     *)
(* agents do: it is diagnosed once, a human is asked at most once,         *)
(* production is written to at most once and only while the human's        *)
(* approval is being carried out, and a terminal status is final.          *)
(***************************************************************************)
EXTENDS Naturals

VARIABLES
  status,  \* IncidentState.status
  runs     \* how many times production SQL took effect

Terminal == {"RESOLVED", "REJECTED", "FAILED"}

Init == status = "INGESTED" /\ runs = 0

Diagnose ==
  /\ status = "INGESTED"
  /\ status' = "DIAGNOSING"
  /\ UNCHANGED runs

\* The agents stop: with a governed patch to decide on, or without.
Conclude ==
  /\ status = "DIAGNOSING"
  /\ status' \in {"AWAITING_APPROVAL", "REJECTED", "FAILED"}
  /\ UNCHANGED runs

Decline ==
  /\ status = "AWAITING_APPROVAL" /\ runs = 0
  /\ status' = "REJECTED"
  /\ UNCHANGED runs

WriteProduction ==
  /\ status = "AWAITING_APPROVAL" /\ runs = 0
  /\ runs' = 1
  /\ UNCHANGED status

Report ==
  /\ status = "AWAITING_APPROVAL" /\ runs = 1
  /\ status' = "RESOLVED"
  /\ UNCHANGED runs

Next == Diagnose \/ Conclude \/ Decline \/ WriteProduction \/ Report

Spec == Init /\ [][Next]_<<status, runs>>
=============================================================================
