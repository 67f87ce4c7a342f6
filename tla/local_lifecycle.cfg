SPECIFICATION Spec
CONSTANTS
  Mode = "local"
  StoreFaults = FALSE
  Crashes = FALSE
  MaxTurns = 2
  MaxAttempts = 3
  MaxCalls = 1
  ToolFailures = {"ERROR", "TIMEOUT"}
  SqlCandidates <- AllCandidates
  Datasets <- OneDataset
  OwnDataset = "own"
  Labels <- OwnOnlyTaggedPii
  r1 = r1
  r2 = r2
  Requests <- TwoRequests
INVARIANTS
  LocalTrailTellsRuns
PROPERTIES
  KeepsLifecycle
