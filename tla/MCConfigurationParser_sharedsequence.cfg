SPECIFICATION Spec
CONSTANTS
  Docs <- AliasDocs
  MaxEntries = 2
  MaxSize = 2
  Wrap = 4
  Unset = Unset
INVARIANTS
  EmitsEveryValue
CHECK_DEADLOCK FALSE
