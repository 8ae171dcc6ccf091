SPECIFICATION Spec
CONSTANTS
  wav = wav
  ogg = ogg
  Paths = {wav, ogg}
  Targets = {wav}
  Wanted = {"WAV", "AIFF", "MP3"}
  Extension <- Named
  HalfScale = 4
  BufferSize = 2
  Troubles = {"open", "read"}
  Libraries <- AppleShelf
  Takes <- Reels
  Habits = {TRUE, FALSE}
  Backends <- Apple
  Undef = Undef
  NULL = NULL
INVARIANTS
  LoadedIsHeard
  MonoIsWritten
PROPERTIES
  AudibleDefined
CHECK_DEADLOCK FALSE
