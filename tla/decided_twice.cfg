SPECIFICATION Spec
CONSTANTS
  Mode = "cloud"
  StoreFaults = FALSE
  Crashes = FALSE
  MaxTurns = 2
  MaxAttempts = 1
  MaxCalls = 1
  ToolFailures = {}
  SqlCandidates <- SafeAndBlocked
  Datasets <- OneDataset
  OwnDataset = "own"
  Labels <- OwnOnlyTaggedPii
  r1 = r1
  r2 = r2
  Requests <- TwoRequests
PROPERTIES
  NoRunAfterDecision
