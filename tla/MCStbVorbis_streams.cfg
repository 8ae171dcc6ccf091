SPECIFICATION Spec
CONSTANTS
  Full = 2
  Files <- MCFiles
  blocksize_0 = 4
  blocksize_1 = 16
  Limit = 11
  Wrap = 256
  Blocks = 4
  Breaks = 1
  Cuts = {0, 1, 2}
INVARIANTS
  ReadsItsPacket
  SamplesMatchTheStream
  NothingIsDropped
  EndsWhereTheStreamEnds
PROPERTIES
  Terminates
CHECK_DEADLOCK FALSE
