SPECIFICATION Spec
CONSTANTS
  wav = wav
  ogg = ogg
  Paths = {wav, ogg}
  Targets = {wav}
  Wanted = {"AIFF", "OGG"}
  Extension <- Named
  HalfScale = 4
  BufferSize = 2
  Troubles = {"open", "read", "write"}
  Libraries <- WideShelf
  Takes <- WideReels
  Habits = {TRUE, FALSE}
  Backends <- Linux
  Undef = Undef
  NULL = NULL
INVARIANTS
  LoadedIsHeard
  WrittenIsHeard
  ReadsBackWithinTolerance
  StopsOnlyOnShortWrites
PROPERTIES
  AudibleDefined
  HandlesAreClosed
  CallsEnd
CHECK_DEADLOCK FALSE
