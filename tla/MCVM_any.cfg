\* All kinds of statements, and programs that are run differently than written.
CONSTANTS
  Types = {1}
  CatchNames = {1}
  MaxStatements = 4
  FinallySize = 1
  MaxNesting = 3
  MaxCatches = 1
  MaxCodes = 2
  Statements = {"expression", "while", "foreach", "if", "try", "finally", "break", "continue",
                "return", "raise", "function"}
  Features = {"jumpFromTry", "breakForEach", "tryInFinally", "sameCatchName"}
  MaxFrames = 2
  MaxSlots = 8
SPECIFICATION Spec
INVARIANTS
  MachineTypeOK
  CodeWellFormed
  ErrorHasException
  EndTryRestores
  LoopsOwnIterator
  
\* The program ends.
CHECK_DEADLOCK FALSE
