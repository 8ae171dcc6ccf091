SPECIFICATION Spec
CONSTANTS
  Buffers = {x, y}
  MaxChannels = 2
  Geometries <- AnyLength
  LongestRow = 2
  Levels = {1}
  Recordings <- Stereo
  Sines <- Wave
  Gains <- Inverting
  Loudest = 2
  Garbage <- ForeignGarbage
  Liberties = {}
  Undef = Undef
  NULL = NULL
SYMMETRY Swaps
INVARIANTS
  TypeOK
  AudibleDefined
  NoLeak
  RowsMatch
  NoFault
PROPERTIES
  ImplementsSignal
CHECK_DEADLOCK FALSE
