\* Every operator on every pair of types, calls, and expressions three deep.
CONSTANTS
  Literals <- MCLiterals
  Environment <- MCEnvironment
  Programs <- MCPrograms
SPECIFICATION Spec
INVARIANTS
  EvaluatesAsWritten
  StackKept
\* A program ends.
CHECK_DEADLOCK FALSE
