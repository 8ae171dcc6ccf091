SPECIFICATION Spec
CONSTANTS
  wav = wav
  ogg = ogg
  Paths = {wav, ogg}
  Targets = {wav}
  Wanted = {"WAV", "AIFF", "MP3"}
  Extension <- Named
  HalfScale = 4
  BufferSize = 2
  Troubles = {}
  Libraries <- AppleShelf
  Takes <- Reels
  Habits = {TRUE}
  Backends <- Apple
  Undef = Undef
  NULL = NULL
INVARIANTS
  WrittenIsHeard
CHECK_DEADLOCK FALSE
