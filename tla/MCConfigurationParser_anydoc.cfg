SPECIFICATION Spec
CONSTANTS
  Docs <- AnyDocs
  MaxEntries = 4
  MaxSize = 3
  Wrap = 4
  Unset = Unset
INVARIANTS
  EmitsOnlyPermutations
PROPERTIES
  ImplementsOdometer
  Terminates
CHECK_DEADLOCK FALSE
