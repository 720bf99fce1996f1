\* Two variables and three lists of at most two items; strings of at most four
\* characters.
CONSTANTS
  Variables = {v, w}
  Objects = {l1, l2, l3}
  Scalars <- MCScalars
  MaxItems = 2
  Sources <- MCSources
  Patterns <- MCPatterns
  MaxLength = 4
SPECIFICATION MCSpec
SYMMETRY MCSymmetry
INVARIANTS
  ListContract
  LoopVisits
  TextContract
  RoundTrip
PROPERTIES
  OnlyReceiverChanges
\* A program may end in what is undefined or does not end.
CHECK_DEADLOCK FALSE
