SPECIFICATION DiagnosisSpec
CONSTANTS
  c1 = c1
  c2 = c2
  Checks <- OneCheck
  MaxExecutions = 1
  MaxLines = 1
  MaxResults = 1
  Texts <- PlainTexts
CHECK_DEADLOCK FALSE
PROPERTY
  SomeLineIsQuoted
