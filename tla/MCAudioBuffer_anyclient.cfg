SPECIFICATION Spec
CONSTANTS
  Buffers = {x, y}
  MaxChannels = 3
  Geometries <- AnyWidth
  LongestRow = 1
  Levels = {0}
  Recordings <- Hush
  Sines <- Flat
  Gains = {1}
  Loudest = 0
  Garbage <- AnyGarbage
  Liberties = {"empty", "resizeAudible", "writeSilent", "shortExpand", "narrowCopy", "narrowed", "monoCopy", "noRoom", "garbageMatches", "assignFloat"}
  Undef = Undef
  NULL = NULL
SYMMETRY Swaps
INVARIANTS
  RowLength
PROPERTIES
  CopiesAgree
CHECK_DEADLOCK FALSE
