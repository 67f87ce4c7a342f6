SPECIFICATION WarRoomFairSpec
CONSTANTS
  Mode = "cloud"
  StoreFaults = FALSE
  Crashes = TRUE
  PageFaults = {"read", "post"}
  MaxTurns = 2
  MaxAttempts = 1
  MaxCalls = 1
  ToolFailures = {"TIMEOUT"}
  SqlCandidates <- SafeAndBlocked
  Datasets <- OneDataset
  OwnDataset = "own"
  Labels <- OwnIsTaggedPii
  r1 = r1
  r2 = r2
  Requests <- TwoRequests
INVARIANTS
  WarRoomTypeOK
  EnabledIsGoverned
  OnePageIsNotRefused
  OnePageRunsOnce
PROPERTIES
  PageFollows
  RunSettles
  RequestsAreAnswered
