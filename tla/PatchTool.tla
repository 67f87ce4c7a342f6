----------------------------- MODULE PatchTool -----------------------------
(***************************************************************************)
(* generate_and_test_patch as the orchestrator's loop sees it (_call_tool  *)
(* in app/agents/orchestrator.py): the step GenerateAndTestPatch of        *)
(* WardenOrchestrator, on its own.  A call that was begun either leaves a  *)
(* patch in the store (it may have been stored though the call raised or   *)
(* was timed out) or leaves nothing there.                                 *)
(***************************************************************************)
EXTENDS GovernancePolicy, Sequences

VARIABLES
  mode,    \* Settings.warden_mode
  busy,    \* whether a call is under way
  stored   \* the patches: what the statement is and what its test said

vars == <<mode, busy, stored>>

Init ==
  /\ mode \in {"local", "cloud"}
  /\ busy = FALSE
  /\ stored = <<>>

BeginCall ==
  /\ ~busy /\ busy'
  /\ UNCHANGED <<mode, stored>>

\* An error, or the timeout.
ToolWritesNothing ==
  /\ busy /\ ~busy'
  /\ UNCHANGED <<mode, stored>>

GenerateAndTestPatch ==
  /\ busy /\ ~busy'
  /\ \E destructive, allow_destructive \in BOOLEAN :
       \E validation \in SandboxOutcomes(mode, [destructive |-> destructive],
                                         allow_destructive) :
         stored' = Append(stored, [destructive       |-> destructive,
                                   validation_status |-> validation])
  /\ UNCHANGED mode

Next == BeginCall \/ ToolWritesNothing \/ GenerateAndTestPatch

Spec == Init /\ [][Next]_vars
=============================================================================
