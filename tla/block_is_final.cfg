SPECIFICATION Spec
CONSTANTS
  Mode = "cloud"
  StoreFaults = FALSE
  Crashes = FALSE
  MaxTurns = 3
  MaxAttempts = 1
  MaxCalls = 2
  ToolFailures = {}
  SqlCandidates <- SafeAndBlocked
  Datasets <- TwoDatasets
  OwnDataset = "own"
  Labels <- OwnIsTaggedPii
  r1 = r1
  r2 = r2
  Requests <- NoRequests
PROPERTIES
  BlockIsFinal
