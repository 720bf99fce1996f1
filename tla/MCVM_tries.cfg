\* Programs of nested try statements, without loops.
CONSTANTS
  Types = {1, 2}
  CatchNames = {}
  MaxStatements = 4
  FinallySize = 0
  MaxNesting = 3
  MaxCatches = 1
  MaxCodes = 1
  Statements = {"expression", "try", "finally", "raise"}
  Features = {}
  MaxFrames = 1
  MaxSlots = 8
SPECIFICATION FairSpec
INVARIANTS
  CaughtIfNamed
  PendingIsHandled
  PendingSurvivesFinally
PROPERTIES
  FinallyRuns
  Terminates
\* The program ends.
CHECK_DEADLOCK FALSE
