SPECIFICATION Spec
CONSTANTS
  Mode = "cloud"
  StoreFaults = FALSE
  Crashes = FALSE
  MaxTurns = 4
  MaxAttempts = 1
  MaxCalls = 1
  ToolFailures = {"TIMEOUT"}
  SqlCandidates <- SafeAndBlocked
  Datasets <- TwoDatasets
  OwnDataset = "own"
  Labels <- OwnIsTaggedPii
  r1 = r1
  r2 = r2
  Requests <- OneRequest
INVARIANTS
  AwaitingIsGoverned
  GovernedExecution
  RunEndLeavesFlight
