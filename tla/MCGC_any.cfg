\* Any program: the accounts of the collector.
CONSTANTS
  o1 = o1
  o2 = o2
  o3 = o3
  o4 = o4
  Null = Null
  Obj = {o1, o2}
  Name = {"x"}
  CodeConst = {}
  StackSize = 5
  GcThreshold = 2
  InitialThreshold = 1
  SizeOf <- MCSizeOf
  MaxRefs = 1
  MaxFrames = 2
  MaxArgs = 1
  MaxCells = 1
  MaxLitter = 1
  Features = {"variadic", "extraLocals", "rebindSelf"}
SPECIFICATION Spec
SYMMETRY Symmetry
INVARIANTS
  FramesNested
  MarksClear
  AllocatedIsHeapSize
  ListsOwned
PROPERTY
  CollectsAllGarbage
\* The program ends.
CHECK_DEADLOCK FALSE
