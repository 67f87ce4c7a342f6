SPECIFICATION DiagnosisSpec
CONSTANTS
  c1 = c1
  c2 = c2
  Checks <- TwoChecks
  MaxExecutions = 2
  MaxLines = 3
  MaxResults = 2
  Texts <- SomeTexts
CHECK_DEADLOCK FALSE
INVARIANTS
  PipelineTypeOK
  EvidenceIsOfTheFailure
  DiagnosisIsOfTheFailure
PROPERTY
  SeenFailureIsOpened
