------------------------------ MODULE SoundFiles ------------------------------
(***************************************************************************)
(* What the calls of loadFile and writeFile have in common: the files, the *)
(* buffer they fill or store, the call under way, and the two libraries    *)
(* that are outside this repository's own code, libsndfile and the file    *)
(* system, as AudioFormat_sndfile.cpp and AudioFormat_ogg.cpp use them.    *)
(*                                                                         *)
(* A sample in memory is a float, here a multiple of 1/Unit; a sample in a *)
(* file is an integer of HalfScale * 2 values (HalfScale is 2^15 in the    *)
(* code).  The two scales of the code, k / HalfScale and k / (HalfScale-1),*)
(* are both multiples of 1/Unit.                                           *)
(***************************************************************************)
EXTENDS Integers, Sequences, FiniteSetsExt

CONSTANTS
  Paths,       \* names of files
  Extension,   \* the format that extensionToAudioFormat gives for a path
  HalfScale,   \* magnitude of a stored sample
  BufferSize,  \* BUFFER_SIZE of AudioFormat_sndfile.cpp, 512
  Troubles,    \* which library calls may fail: "open", "read", "write"
  Undef, NULL

Formats == {"RAW", "WAV", "AIFF", "OGG", "MP3", "AAC", "UNKNOWN"}

ASSUME SoundFilesAssumption ==
  /\ Extension \in [Paths -> Formats]
  /\ HalfScale \in Nat \ {0, 1}
  /\ BufferSize \in Nat \ {0}
  /\ Troubles \subseteq {"open", "read", "write"}
  /\ Undef \notin Int

VARIABLES
  disk,          \* the file at every path, NULL where there is none
  buffer,        \* the AudioBuffer the calls work on
  samplingRate,
  call,          \* the call of a codec that is under way, or NULL
  last,          \* how the last call ended, NULL once the client went on
  lost,          \* resources that nobody can release any more
  fault          \* "none", or how the program stopped: "access", "assert", "exit"

vars == <<disk, buffer, samplingRate, call, last, lost, fault>>

\* The methods of AudioBufferC, on an object of their own.
Buffer == INSTANCE AudioBuffer WITH
  Buffers <- {}, MaxChannels <- 0, Geometries <- {}, Levels <- {}, Recordings <- {}, Sines <- {},
  Gains <- {}, Loudest <- 0, Garbage <- {}, Liberties <- {},
  buf <- <<>>, leaked <- FALSE

-----------------------------------------------------------------------------
(***************************************************************************)
(* Samples.                                                                *)
(***************************************************************************)
Unit == 2 * HalfScale * (HalfScale - 1)

\* lrintf(): to the nearest integer, a half to the even one.
Nearest(x, n) ==
  LET up == (2 * x + n) \div (2 * n)
      tie == (2 * x + n) % (2 * n) = 0
  IN  IF tie /\ up % 2 = 1 THEN up - 1 ELSE up

\* An integer that does not fit is truncated to the width of a stored sample.
Narrow(k) == ((k + HalfScale) % (2 * HalfScale)) - HalfScale

\* sf_write_float on 16 bits multiplies with HalfScale - 1, sf_read_float divides
\* by HalfScale; the Vorbis decoder's output is divided by HalfScale - 1.
Encoded(x) == IF x = Undef THEN Undef ELSE Narrow(Nearest(x * (HalfScale - 1), Unit))
Decoded(k) == IF k = Undef THEN Undef ELSE k * (Unit \div HalfScale)
OggDecoded(k) == k * (Unit \div (HalfScale - 1))

-----------------------------------------------------------------------------
(***************************************************************************)
(* Files.  type is that of the content, which need not be what the path    *)
(* says; "FLOAT" is a file of floats.  items are the stored samples, the   *)
(* channels of a frame one after the other; a file that its writer did not *)
(* close is not whole.                                                     *)
(***************************************************************************)
NewFile(type, channels, rate) ==
  [type |-> type, channels |-> channels, rate |-> rate, items |-> <<>>, whole |-> FALSE]

\* What a file may hold: the file formats store integers, and Undef where a sample
\* was stored that nobody had written.
Holding(type) ==
  CASE type = "OGG" -> -HalfScale .. (HalfScale - 1)
    [] type = "FLOAT" -> Int \cup {Undef}
    [] OTHER -> (-HalfScale .. (HalfScale - 1)) \cup {Undef}

Files ==
  {f \in [type : Formats \cup {"FLOAT"}, channels : Nat \ {0}, rate : Nat \cup {Undef},
          items : Seq(Int \cup {Undef}), whole : BOOLEAN] :
     \A j \in DOMAIN f.items : f.items[j] \in Holding(f.type)}

\* What a reader makes of a stored sample.
Sample(f, k) ==
  CASE f.type = "OGG" -> OggDecoded(k)
    [] f.type = "FLOAT" -> k
    [] OTHER -> Decoded(k)

FramesOf(f) == Len(f.items) \div f.channels

\* What the header of a file says of its length: of one that is not whole,
\* anything.
Announced(f) == IF f.whole THEN {FramesOf(f)} ELSE 0 .. FramesOf(f)

\* sf_read_float(file, at, count): how many items it may deliver.  It refuses a
\* count that is not a number of frames.
Delivered(f, at, count) ==
  IF count % f.channels # 0
  THEN {0}
  ELSE {Min({count, Len(f.items) - at})} \cup (IF "read" \in Troubles THEN 0 .. (count - 1) ELSE {})

\* sf_write_float(file, count): how many items it may take.
Taken(f, count) ==
  IF count % f.channels # 0
  THEN {0}
  ELSE {count} \cup (IF "write" \in Troubles THEN 0 .. (count - 1) ELSE {})

-----------------------------------------------------------------------------
(***************************************************************************)
(* Calls.                                                                  *)
(***************************************************************************)
Calls == [op : {"load", "write"}, path : Paths, format : Formats,
          backend : {"coreaudio", "ogg", "sndfile"}, stage : {"open", "loop"},
          total : Nat, running : Nat]

Ends == [op : {"load", "write"}, path : Paths, ok : BOOLEAN]

\* NULL is none of them.
ASSUME NullAssumption == NULL \notin Files /\ NULL \notin Calls /\ NULL \notin Ends

Running(op, backend, stage) ==
  /\ fault = "none"
  /\ call # NULL
  /\ call.op = op /\ call.backend = backend /\ call.stage = stage

\* The call returns to the client, whose buffer it leaves.
Return(ok) == /\ call' = NULL
              /\ last' = [op |-> call.op, path |-> call.path, ok |-> ok]
              /\ UNCHANGED fault

Proceed(next) == call' = next /\ UNCHANGED <<last, fault>>

Halt(why) == /\ fault' = why
             /\ UNCHANGED <<disk, buffer, samplingRate, call, last, lost>>
=============================================================================
