\* Any program.
CONSTANTS
  x = x
  y = y
  z = z
  b = b
  Name = {x, y, z, b}
  Builtins = {b}
  Declarable = {x, y, z}
  MaxScopes = 4
  MaxParams = 1
  MaxLocals = 3
  MaxUses = 2
SPECIFICATION Spec
SYMMETRY Symmetry
INVARIANTS
  ScopeTypeOK
  IndexesFound
  CaptureChain
  RightVariable
  ArgumentInCell
  ClosureBalanced
\* The program ends.
CHECK_DEADLOCK FALSE
