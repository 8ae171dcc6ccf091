SPECIFICATION Spec
CONSTANTS
  Observers = {p, q, r}
  MaxNodes = 4
  MaxDepth = 3
  Manners = {TRUE, FALSE}
SYMMETRY Swaps
INVARIANTS
  CalledUpToHere
PROPERTIES
  RoundIsComplete
CHECK_DEADLOCK FALSE
