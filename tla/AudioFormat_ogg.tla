---------------------------- MODULE AudioFormat_ogg ----------------------------
(***************************************************************************)
(* AudioFormat_ogg::loadFile and writeFile, src/src/AudioFormat_ogg.cpp.   *)
(* The Vorbis decoder hands over the whole file in one call, so the rest   *)
(* of loadFile is one step.                                                *)
(***************************************************************************)
EXTENDS SoundFiles

\* The rate every Vorbis file is given.
OggRate == 44100

DecodesOgg(path) ==
  disk[path] # NULL /\ disk[path].type = "OGG" /\ disk[path].items # <<>>

OggCannotLoad ==
  /\ Running("load", "ogg", "open")
  /\ ~DecodesOgg(call.path) \/ "open" \in Troubles
  /\ Return(FALSE)
  /\ UNCHANGED <<disk, buffer, samplingRate, lost>>

\* Variant: the pointer is advanced by the wrong number of channels.
OggRowsByOne(f) ==
  [c \in 0 .. (f.channels - 1) |-> [i \in 0 .. (FramesOf(f) - 1) |-> OggDecoded(f.items[c + i + 1])]]

\* Every channels-th sample of the decoder's output.
OggRows(f) ==
  [c \in 0 .. (f.channels - 1) |-> [i \in 0 .. (FramesOf(f) - 1) |->
     OggDecoded(f.items[c + i * f.channels + 1])]]

\* Nobody frees what the decoder allocated.
OggLoad ==
  /\ Running("load", "ogg", "open")
  /\ DecodesOgg(call.path)
  /\ LET f == disk[call.path]
         resized == Buffer!Resize(buffer, f.channels, FramesOf(f))
     IN  buffer' = [Buffer!Overlay(resized, OggRows(f)) EXCEPT !.isSilent = FALSE]
  /\ samplingRate' = OggRate
  /\ lost' = lost \cup {"decoded"}
  /\ Return(TRUE)
  /\ UNCHANGED disk

OggNext == OggCannotLoad \/ OggLoad
=============================================================================
