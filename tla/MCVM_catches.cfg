\* A try statement with two catch blocks.
CONSTANTS
  Types = {1, 2}
  CatchNames = {}
  MaxStatements = 2
  FinallySize = 0
  MaxNesting = 1
  MaxCatches = 2
  MaxCodes = 1
  Statements = {"expression", "try"}
  Features = {}
  MaxFrames = 1
  MaxSlots = 6
SPECIFICATION Spec
INVARIANTS
  CaughtIfNamed
\* The program ends.
CHECK_DEADLOCK FALSE
