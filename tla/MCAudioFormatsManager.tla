------------------------- MODULE MCAudioFormatsManager -------------------------
EXTENDS AudioFormatsManager, TLC

CONSTANTS wav, ogg

Linux == <<"ogg", "sndfile">>
Apple == <<"coreaudio", "ogg">>

Named == (wav :> "WAV") @@ (ogg :> "OGG")

\* A file whose samples are all different, as far as they go.
FileOf(type, channels, rate, frames) ==
  [type |-> type, channels |-> channels, rate |-> rate, whole |-> TRUE,
   items |-> [j \in 1 .. (frames * channels) |-> Narrow(j)]]

\* The frames are less than, as many as, and more than a turn takes.
Shelf ==
  {(wav :> f) @@ (ogg :> g) :
     f \in {FileOf("WAV", 1, 8000, 3), FileOf("WAV", 2, 8000, 2), FileOf("WAV", 1, 8000, 0), FileOf("OGG", 1, 8000, 1), NULL},
     g \in {FileOf("OGG", 2, 22050, 3), FileOf("AIFF", 2, 22050, 5)}}

BufferOf(channels, size, first, step) ==
  [channels |-> channels, usedChannels |-> channels, size |-> size, usedSize |-> size,
   isSilent |-> FALSE, allocated |-> TRUE,
   data |-> [c \in 0 .. (channels - 1) |-> [i \in 0 .. (size - 1) |-> first + step * (i * channels + c)]]]

Reels == {BufferOf(1, 3, Unit, -9), BufferOf(2, 3, -13, 5)}

AppleShelf ==
  {(wav :> f) @@ (ogg :> g) :
     f \in {FileOf("WAV", 1, 8000, 3), FileOf("AIFF", 2, 8000, 2), FileOf("MP3", 2, 8000, 2), FileOf("MP3", 1, 8000, 2), NULL},
     g \in {FileOf("OGG", 2, 22050, 3), FileOf("WAV", 1, 22050, 0)}}

\* More than two channels, for which the codec has no branch of its own.
WideShelf ==
  Shelf \cup {(wav :> FileOf("WAV", n, 8000, 4)) @@ (ogg :> NULL) : n \in 1 .. 4}
WideReels == {BufferOf(1, 3, Unit, -9), BufferOf(2, 3, -13, 5), BufferOf(3, 2, 5, -3), BufferOf(4, 2, 5, -3)}
=============================================================================
