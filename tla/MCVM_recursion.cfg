\* A function with a try statement that calls itself.
CONSTANTS
  Types = {1}
  CatchNames = {}
  MaxStatements = 4
  FinallySize = 0
  MaxNesting = 2
  MaxCatches = 1
  MaxCodes = 2
  Statements = {"expression", "try", "function"}
  Features = {"recursiveTry"}
  MaxFrames = 3
  MaxSlots = 8
SPECIFICATION Spec
INVARIANTS
  StackTopOfTry
\* The program ends.
CHECK_DEADLOCK FALSE
