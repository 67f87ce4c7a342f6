SPECIFICATION Spec
CONSTANTS
  Mode = "cloud"
  StoreFaults = TRUE
  Crashes = TRUE
  MaxTurns = 2
  MaxAttempts = 3
  MaxCalls = 1
  ToolFailures = {"ERROR", "TIMEOUT"}
  SqlCandidates <- SafeAndBlocked
  Datasets <- OneDataset
  OwnDataset = "own"
  Labels <- OwnOnlyTaggedPii
  r1 = r1
  r2 = r2
  Requests <- TwoRequests
SYMMETRY RequestSymmetry
INVARIANTS
  TypeOK
  BackstopIsUnreachable
  NoRunBeforeConclusion
  NoPiiColumnIsDropped
  FirestoreTrailHasNoGap
  OneRunPerRequest
  UnreportedRunsAreExcused
PROPERTIES
  AgentTrailIsKept
  KeepsDecisions
  ClosedIsFinal
  StepsAreBounded
