SPECIFICATION SandboxSpec
CONSTANTS
  Columns = {"email"}
  Statements <- SomeStatements
  ToolTimeouts = FALSE
  Faults = FALSE
  MaxCalls = 1
  MaxDrifts = 0
PROPERTIES
  TestsLeaveProduction
CHECK_DEADLOCK FALSE
