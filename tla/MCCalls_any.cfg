\* Every call with up to six positional and four named arguments.
CONSTANTS
  Callees <- MCCallees
  MaxPositional = 6
  MaxNamed = 4
SPECIFICATION Spec
INVARIANTS
  CallTypeOK
  BoundRight
  StackBalanced
  OnlyInOrder
  InOrderAccepted
\* The call returns.
CHECK_DEADLOCK FALSE
