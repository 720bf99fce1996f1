\* A program that calls functions with a variadic parameter.
CONSTANTS
  o1 = o1
  o2 = o2
  o3 = o3
  o4 = o4
  Null = Null
  Obj = {o1, o2, o3}
  Name = {"x"}
  CodeConst = {}
  StackSize = 5
  GcThreshold = 1
  InitialThreshold = 1
  SizeOf <- MCSizeOf
  MaxRefs = 1
  MaxFrames = 2
  MaxArgs = 1
  MaxCells = 1
  MaxLitter = 3
  Features = {"variadic"}
SPECIFICATION Spec
SYMMETRY Symmetry
INVARIANTS
  VariadicItemsMarked
\* The program ends.
CHECK_DEADLOCK FALSE
