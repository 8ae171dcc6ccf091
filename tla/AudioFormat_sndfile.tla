-------------------------- MODULE AudioFormat_sndfile --------------------------
(***************************************************************************)
(* AudioFormat_sndfile::loadFile and writeFile, src/src/                   *)
(* AudioFormat_sndfile.cpp: one action for each call of libsndfile with    *)
(* what follows it.  Everything that is not mono takes the branch for      *)
(* stereo, which moves pairs of samples through a buffer of 2 * BufferSize.*)
(***************************************************************************)
EXTENDS SoundFiles

SndfileFormats == {"WAV", "AIFF"}

\* sf_open recognises the type by the content.
Opens(path) == disk[path] # NULL /\ disk[path].type \in SndfileFormats

\* Samples moved for every position of the buffer.
PerPosition(channels) == IF channels = 1 THEN 1 ELSE 2

\* Variant: every turn is a full one.
FullTurnLength(running, total) == BufferSize

\* The positions that the next turn of a loop is after.
TurnLength(running, total) == Min({BufferSize, total - running})

-----------------------------------------------------------------------------
LoadCannotOpen ==
  /\ Running("load", "sndfile", "open")
  /\ ~Opens(call.path) \/ "open" \in Troubles
  /\ Return(FALSE)
  /\ UNCHANGED <<disk, buffer, samplingRate, lost>>

\* Variant: the buffer keeps its size.
UnsizedLoadOpen ==
  /\ Running("load", "sndfile", "open")
  /\ Opens(call.path)
  /\ \E frames \in Announced(disk[call.path]) :
       /\ samplingRate' = disk[call.path].rate
       /\ Proceed([call EXCEPT !.stage = "loop", !.total = frames, !.running = 0])
  /\ UNCHANGED <<disk, buffer, lost>>

LoadOpen ==
  /\ Running("load", "sndfile", "open")
  /\ Opens(call.path)
  /\ \E frames \in Announced(disk[call.path]) :
       /\ samplingRate' = disk[call.path].rate
       /\ buffer' = Buffer!Resize(buffer, disk[call.path].channels, frames)
       /\ Proceed([call EXCEPT !.stage = "loop", !.total = frames, !.running = 0])
  /\ UNCHANGED <<disk, lost>>

\* The first n positions that this turn reads, as rows of the buffer.
Received(f, n) ==
  [c \in 0 .. (PerPosition(f.channels) - 1) |->
     [i \in call.running .. (call.running + n - 1) |->
        Decoded(f.items[PerPosition(f.channels) * i + c + 1])]]

\* Variant: a turn that came up short is tried again.
RetryingLoadShort ==
  /\ Running("load", "sndfile", "loop")
  /\ LET f == disk[call.path]
         count == TurnLength(call.running, call.total) * PerPosition(f.channels)
     IN  \E got \in Delivered(f, call.running * PerPosition(f.channels), count) : got # count
  /\ UNCHANGED vars

\* A turn writes into the first row, or the first two, as far as it has come.
LoadReaches(n) ==
  Buffer!Reaches(buffer, PerPosition(disk[call.path].channels), call.running + n)

\* A mono turn reads straight into the row, a stereo turn that came up short
\* leaves the rows alone.
LoadShort ==
  /\ Running("load", "sndfile", "loop")
  /\ LET f == disk[call.path]
         count == TurnLength(call.running, call.total) * PerPosition(f.channels)
     IN  \E got \in Delivered(f, call.running * PerPosition(f.channels), count) :
           /\ got # count
           /\ IF f.channels = 1 /\ ~LoadReaches(got)
              THEN Halt("access")
              ELSE /\ buffer' = IF f.channels = 1 THEN Buffer!Overlay(buffer, Received(f, got)) ELSE buffer
                   /\ lost' = lost \cup {"SNDFILE"}
                   /\ Return(FALSE)
                   /\ UNCHANGED <<disk, samplingRate>>

\* Variants: a turn that makes the buffer audible at once; a load that does not close.
HastyTakeIn(f, n) ==
  /\ buffer' = [Buffer!Overlay(buffer, Received(f, n)) EXCEPT !.isSilent = FALSE]
  /\ IF call.running + n < call.total
     THEN Proceed([call EXCEPT !.running = @ + n])
     ELSE Return(TRUE)
  /\ UNCHANGED <<disk, samplingRate, lost>>

UnclosedTakeIn(f, n) ==
  /\ buffer' = [Buffer!Overlay(buffer, Received(f, n)) EXCEPT !.isSilent = (call.running + n < call.total)]
  /\ IF call.running + n < call.total
     THEN Proceed([call EXCEPT !.running = @ + n]) /\ UNCHANGED lost
     ELSE Return(TRUE) /\ lost' = lost \cup {"SNDFILE"}
  /\ UNCHANGED <<disk, samplingRate>>

\* n positions more are in the rows; the last of them end the call.
TakeIn(f, n) ==
  LET filled == Buffer!Overlay(buffer, Received(f, n))
  IN  /\ IF call.running + n < call.total
         THEN /\ buffer' = filled
              /\ Proceed([call EXCEPT !.running = @ + n])
         ELSE /\ buffer' = [filled EXCEPT !.isSilent = FALSE]
              /\ Return(TRUE)
      /\ UNCHANGED <<disk, samplingRate, lost>>

\* A full turn.
LoadTurn ==
  /\ Running("load", "sndfile", "loop")
  /\ LET f == disk[call.path]
         n == TurnLength(call.running, call.total)
         count == n * PerPosition(f.channels)
     IN  /\ count \in Delivered(f, call.running * PerPosition(f.channels), count)
         /\ IF LoadReaches(n) THEN TakeIn(f, n) ELSE Halt("access")

-----------------------------------------------------------------------------
WriteCannotOpen ==
  /\ Running("write", "sndfile", "open")
  /\ buffer.channels = 0 \/ "open" \in Troubles
  /\ Return(FALSE)
  /\ UNCHANGED <<disk, buffer, samplingRate, lost>>

\* The file that was at the path is gone.
WriteOpen ==
  /\ Running("write", "sndfile", "open")
  /\ buffer.channels > 0
  /\ disk' = [disk EXCEPT ![call.path] = NewFile(call.format, buffer.channels, samplingRate)]
  /\ Proceed([call EXCEPT !.stage = "loop", !.total = buffer.size, !.running = 0])
  /\ UNCHANGED <<buffer, samplingRate, lost>>

\* Variant: the channels change places.
SwappedSent(n) ==
  LET k == PerPosition(buffer.channels)
  IN  [j \in 1 .. (n * k) |->
         Encoded(buffer.data[(k - j) % k][call.running + (j - 1) \div k])]

\* The first n positions that this turn writes, as items of the file.
Sent(n) ==
  LET k == PerPosition(buffer.channels)
  IN  [j \in 1 .. (n * k) |->
         Encoded(buffer.data[(j - 1) % k][call.running + (j - 1) \div k])]

\* Mono: all samples in one call of libsndfile.
WriteLength ==
  IF buffer.channels = 1 THEN buffer.usedSize ELSE TurnLength(call.running, call.total)

\* getChannelData asserts that the channel is used; the stereo branch takes the
\* first two rows whether they are or not.
WriteReaches ==
  Buffer!Reaches(buffer, PerPosition(buffer.channels), call.running + WriteLength)

WriteStray ==
  /\ Running("write", "sndfile", "loop")
  /\ IF buffer.channels = 1 /\ buffer.usedChannels = 0
     THEN Halt("assert")
     ELSE ~WriteReaches /\ Halt("access")

Stored(f, n) == [f EXCEPT !.items = @ \o Sent(n)]
Closed(f) == [f EXCEPT !.whole = TRUE]

\* Variant: the turns stop before the last one.
HastyWriteTurn ==
  /\ Running("write", "sndfile", "loop")
  /\ buffer.channels = 1 => buffer.usedChannels > 0
  /\ WriteReaches
  /\ LET f == disk[call.path]
         n == WriteLength
         count == n * PerPosition(buffer.channels)
     IN  /\ count \in Taken(f, count)
         /\ IF buffer.channels # 1 /\ call.running + n + 1 < call.total
            THEN /\ disk' = [disk EXCEPT ![call.path] = Stored(f, n)]
                 /\ Proceed([call EXCEPT !.running = @ + n])
            ELSE /\ disk' = [disk EXCEPT ![call.path] = Closed(Stored(f, n))]
                 /\ Return(TRUE)
  /\ UNCHANGED <<buffer, samplingRate, lost>>

WriteTurn ==
  /\ Running("write", "sndfile", "loop")
  /\ buffer.channels = 1 => buffer.usedChannels > 0
  /\ WriteReaches
  /\ LET f == disk[call.path]
         n == WriteLength
         count == n * PerPosition(buffer.channels)
     IN  /\ count \in Taken(f, count)
         /\ IF buffer.channels # 1 /\ call.running + n < call.total
            THEN /\ disk' = [disk EXCEPT ![call.path] = Stored(f, n)]
                 /\ Proceed([call EXCEPT !.running = @ + n])
            ELSE /\ disk' = [disk EXCEPT ![call.path] = Closed(Stored(f, n))]
                 /\ Return(TRUE)
  /\ UNCHANGED <<buffer, samplingRate, lost>>

\* What libsndfile took is in the file, which stays open.  A mono call returns;
\* a stereo call ends the process.
WriteShort ==
  /\ Running("write", "sndfile", "loop")
  /\ buffer.channels = 1 => buffer.usedChannels > 0
  /\ WriteReaches
  /\ LET f == disk[call.path]
         count == WriteLength * PerPosition(buffer.channels)
     IN  \E took \in Taken(f, count) :
           /\ took # count
           /\ disk' = [disk EXCEPT ![call.path].items = @ \o SubSeq(Sent(WriteLength), 1, took)]
  /\ IF buffer.channels = 1
     THEN Return(FALSE) /\ lost' = lost \cup {"SNDFILE"}
     ELSE fault' = "exit" /\ UNCHANGED <<call, last, lost>>
  /\ UNCHANGED <<buffer, samplingRate>>

SndfileNext ==
  \/ LoadCannotOpen \/ LoadOpen \/ LoadShort \/ LoadTurn
  \/ WriteCannotOpen \/ WriteOpen \/ WriteTurn \/ WriteShort \/ WriteStray
=============================================================================
