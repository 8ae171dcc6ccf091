SPECIFICATION ConverterSpec
CONSTANTS
  wav = wav
  aiff = aiff
  ogg = ogg
  mp3 = mp3
  txt = txt
  Paths = {wav, aiff, ogg, mp3, txt}
  Targets = {}
  Wanted = {}
  Extension <- Named
  HalfScale = 4
  BufferSize = 2
  Troubles = {"open", "read", "write"}
  Libraries <- Shelf
  Takes = {}
  Habits = {}
  Backends <- Linux
  Undef = Undef
  NULL = NULL
PROPERTIES
  ImplementsConversion
CHECK_DEADLOCK FALSE
