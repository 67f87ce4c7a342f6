SPECIFICATION SandboxSpec
CONSTANTS
  Columns = {"email"}
  Statements <- SomeStatements
  ToolTimeouts = TRUE
  Faults = TRUE
  MaxCalls = 2
  MaxDrifts = 1
INVARIANTS
  SandboxTypeOK
  VerdictIsOfProduction
PROPERTIES
  InstructedTestsLeaveProduction
  IsOneTool
CHECK_DEADLOCK FALSE
