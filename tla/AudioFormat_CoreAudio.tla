------------------------- MODULE AudioFormat_CoreAudio -------------------------
(***************************************************************************)
(* AudioFormat_CoreAudio::loadFile and writeFile, src/src/                 *)
(* AudioFormat_CoreAudio.cpp, the backend of the build for Apple's systems.*)
(* AudioToolbox is modelled from its use.  The branches for AAC compare    *)
(* fileFormat.mFormatID, a four-character code, with ASU_FORMAT_AAC, the   *)
(* number 5, so that no file takes them.  Markers are out of reach: the    *)
(* manager hands no formatDetail_ on.                                      *)
(***************************************************************************)
EXTENDS SoundFiles

CoreAudioReads == {"WAV", "AIFF", "MP3", "AAC", "UNKNOWN"}
CoreAudioWrites == {"WAV", "AIFF", "MP3", "AAC"}

Compressed == {"MP3", "AAC"}
ToolboxOpens(path) == disk[path] # NULL /\ disk[path].type # "OGG"

\* kExtAudioFileProperty_FileLengthFrames is an estimate when frames have no
\* fixed size.
LengthFrames(f) ==
  IF f.type \in Compressed THEN {FramesOf(f), FramesOf(f) + 1} ELSE Announced(f)

-----------------------------------------------------------------------------
\* Neither the open nor its result is looked at, only the properties of what it
\* gave: the first one is asked before and the second one after the rate is set.
CoreLoadCannotOpen ==
  /\ Running("load", "coreaudio", "open")
  /\ \/ /\ ~ToolboxOpens(call.path) \/ "open" \in Troubles
        /\ UNCHANGED <<samplingRate, lost>>
     \/ /\ ToolboxOpens(call.path) /\ "open" \in Troubles
        /\ samplingRate' \in {samplingRate, disk[call.path].rate}
        /\ lost' = lost \cup {"ExtAudioFile"}
  /\ Return(FALSE)
  /\ UNCHANGED <<disk, buffer>>

CoreLoadOpen ==
  /\ Running("load", "coreaudio", "open")
  /\ ToolboxOpens(call.path)
  /\ \E frames \in LengthFrames(disk[call.path]) :
       /\ buffer' = Buffer!Resize(buffer, disk[call.path].channels, frames)
       /\ Proceed([call EXCEPT !.stage = "loop", !.total = frames])
  /\ samplingRate' = disk[call.path].rate
  /\ UNCHANGED <<disk, lost>>

\* The client's format is refused.
CoreLoadRefused ==
  /\ Running("load", "coreaudio", "loop")
  /\ "open" \in Troubles
  /\ lost' = lost \cup {"ExtAudioFile"}
  /\ Return(FALSE)
  /\ UNCHANGED <<disk, buffer, samplingRate>>

\* getChannelData asserts that the channel is used.
ChannelsInUse == buffer.channels = 1 \/ buffer.usedChannels = buffer.channels

CoreLoadStray ==
  /\ Running("load", "coreaudio", "loop")
  /\ ~ChannelsInUse
  /\ Halt("assert")

\* Variant: the channels come one after the other.
PlanarConverted(f, n) ==
  [c \in 0 .. (f.channels - 1) |-> [i \in 0 .. (n - 1) |-> Sample(f, f.items[c * FramesOf(f) + i + 1])]]

\* n frames, each channel in a buffer of its own.
Converted(f, n) ==
  [c \in 0 .. (f.channels - 1) |-> [i \in 0 .. (n - 1) |-> Sample(f, f.items[i * f.channels + c + 1])]]

\* Variant: the flag goes down before the read.
HastyReadFails ==
  /\ Running("load", "coreaudio", "loop")
  /\ ChannelsInUse /\ "read" \in Troubles
  /\ \E n \in 0 .. Min({call.total, FramesOf(disk[call.path])}) :
       buffer' = [Buffer!Overlay(buffer, Converted(disk[call.path], n)) EXCEPT !.isSilent = FALSE]
  /\ lost' = lost \cup {"ExtAudioFile"}
  /\ Return(FALSE)
  /\ UNCHANGED <<disk, samplingRate>>

\* An error after some frames.
CoreReadFails ==
  /\ Running("load", "coreaudio", "loop")
  /\ ChannelsInUse /\ "read" \in Troubles
  /\ \E n \in 0 .. Min({call.total, FramesOf(disk[call.path])}) :
       buffer' = Buffer!Overlay(buffer, Converted(disk[call.path], n))
  /\ lost' = lost \cup {"ExtAudioFile"}
  /\ Return(FALSE)
  /\ UNCHANGED <<disk, samplingRate>>

\* The file may have fewer frames than it announced; framesToRead, which says
\* so, is not looked at.
CoreRead ==
  /\ Running("load", "coreaudio", "loop")
  /\ ChannelsInUse
  /\ LET f == disk[call.path]
     IN  buffer' = [Buffer!Overlay(buffer, Converted(f, Min({call.total, FramesOf(f)})))
                      EXCEPT !.isSilent = FALSE]
  /\ Return(TRUE)
  /\ UNCHANGED <<disk, samplingRate, lost>>

-----------------------------------------------------------------------------
\* fillASBD: MP3 files can be read only.
Described(format) == format # "MP3"

\* Nobody releases the path and the URL.
CoreCannotCreate ==
  /\ Running("write", "coreaudio", "open")
  /\ buffer.channels = 0 \/ ~Described(call.format) \/ "open" \in Troubles
  /\ lost' = lost \cup {"CFString"}
  /\ Return(FALSE)
  /\ UNCHANGED <<disk, buffer, samplingRate>>

CoreCreate ==
  /\ Running("write", "coreaudio", "open")
  /\ buffer.channels > 0 /\ Described(call.format)
  /\ disk' = [disk EXCEPT ![call.path] = NewFile(call.format, buffer.channels, samplingRate)]
  /\ lost' = lost \cup {"CFString"}
  /\ Proceed([call EXCEPT !.stage = "loop"])
  /\ UNCHANGED <<buffer, samplingRate>>

\* The format of the file is changed to floats, which a WAV file can hold and
\* others may not.
CoreFormatRefused ==
  /\ Running("write", "coreaudio", "loop")
  /\ call.format # "WAV" \/ "open" \in Troubles
  /\ lost' = lost \cup {"AudioFile"}
  /\ Return(FALSE)
  /\ UNCHANGED <<disk, buffer, samplingRate>>

\* deinterleave(): the used channels of a frame one after the other.
Interleaved ==
  [j \in 1 .. (buffer.usedSize * buffer.usedChannels) |->
     buffer.data[(j - 1) % buffer.usedChannels][(j - 1) \div buffer.usedChannels]]

CoreWriteStray ==
  /\ Running("write", "coreaudio", "loop")
  /\ buffer.usedSize > Len(Interleaved)
  /\ Halt("access")

\* Variant: the last one is forgotten.
ShortSizeOfBuffer == buffer.usedSize - 1

\* In samples, and whatever the number of channels.
SizeOfBuffer == buffer.usedSize

\* How much of it was written and whether the file was closed is overwritten
\* and not looked at.
CoreWrite ==
  /\ Running("write", "coreaudio", "loop")
  /\ buffer.usedSize <= Len(Interleaved)
  /\ \E n \in {SizeOfBuffer} \cup (IF "write" \in Troubles \/ call.format = "AAC"
                                   THEN 0 .. SizeOfBuffer ELSE {}) :
       disk' = [disk EXCEPT ![call.path] =
                  [@ EXCEPT !.type = "FLOAT", !.whole = TRUE, !.items = SubSeq(Interleaved, 1, n)]]
  /\ Return(TRUE)
  /\ UNCHANGED <<buffer, samplingRate, lost>>

CoreAudioNext ==
  \/ CoreLoadCannotOpen \/ CoreLoadOpen \/ CoreLoadRefused \/ CoreLoadStray
  \/ CoreReadFails \/ CoreRead
  \/ CoreCannotCreate \/ CoreCreate \/ CoreFormatRefused \/ CoreWriteStray \/ CoreWrite
=============================================================================
