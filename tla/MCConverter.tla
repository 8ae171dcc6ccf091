------------------------------ MODULE MCConverter ------------------------------
EXTENDS Converter, TLC

CONSTANTS wav, aiff, ogg, mp3, txt

Linux == <<"ogg", "sndfile">>

Named == (wav :> "WAV") @@ (aiff :> "AIFF") @@ (ogg :> "OGG") @@ (mp3 :> "MP3") @@ (txt :> "UNKNOWN")

FileOf(type, channels, frames) ==
  [type |-> type, channels |-> channels, rate |-> 8000, whole |-> TRUE,
   items |-> [j \in 1 .. (frames * channels) |-> Narrow(j)]]

\* Frames of four samples pass as pairs, frames of three do not.
Wide(type) == {FileOf(type, 4, 3), FileOf(type, 4, 4), FileOf(type, 3, 3)}

\* The content need not be of the type the path announces.
Shelf ==
  {(wav :> f) @@ (aiff :> g) @@ (ogg :> h) @@ (mp3 :> NULL) @@ (txt :> NULL) :
     f \in {FileOf("WAV", 1, 5), FileOf("WAV", 1, 0), FileOf("WAV", 2, 3), NULL} \cup Wide("WAV"),
     g \in {FileOf("AIFF", 2, 1), FileOf("OGG", 1, 2)},
     h \in {FileOf("OGG", 2, 3), FileOf("OGG", 1, 1), FileOf("WAV", 1, 1)} \cup Wide("OGG")}
=============================================================================
