SPECIFICATION Spec
CONSTANTS
  Depth = 6
  Byte = 3
  Fast = 2
  Small = 3
  Span <- Powers
  NoCode = NoCode
  Books <- AnyBooks
  Packets <- AnyPackets
  MostEntries = 3
  MostBytes = 2
INVARIANTS
  LowestIsEarliest
  PrefixFree
  KraftDecides
  DecodesTheSymbol
CHECK_DEADLOCK FALSE
