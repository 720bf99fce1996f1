\* A function that captures two parameters of the function around it.
CONSTANTS
  x = x
  y = y
  z = z
  b = b
  Name = {x, y, z, b}
  Builtins = {}
  Declarable = {x, y, z, b}
  MaxScopes = 3
  MaxParams = 2
  MaxLocals = 4
  MaxUses = 2
SPECIFICATION Spec
SYMMETRY Symmetry
INVARIANT
  FreeIndexIsRight
\* The program ends.
CHECK_DEADLOCK FALSE
