\* Programs without variadic calls, extra locals or functions that rebind their
\* own name: what is alive stays.
CONSTANTS
  o1 = o1
  o2 = o2
  o3 = o3
  o4 = o4
  Null = Null
  Obj = {o1, o2}
  Name = {"x"}
  CodeConst = {}
  StackSize = 5
  GcThreshold = 1
  InitialThreshold = 1
  SizeOf <- MCSizeOf
  MaxRefs = 1
  MaxFrames = 2
  MaxArgs = 1
  MaxCells = 1
  MaxLitter = 1
  Features = {}
SPECIFICATION Spec
SYMMETRY Symmetry
INVARIANTS
  TypeOK
  NoLiveFreed
  HeapInv
  RunningFunctionKept
PROPERTY
  ImplementsHeap
\* The program ends.
CHECK_DEADLOCK FALSE
