---------------------- MODULE AudioFormatsManagerProofs ----------------------
(***************************************************************************)
(* For any files, buffers, formats, turns and failures of the libraries:   *)
(* what the manager's client hears after a load, finds in a file after a   *)
(* write, and gets back when it does one after the other; where programs   *)
(* stop, which handles they lose, and that nothing unwritten is heard.     *)
(*                                                                         *)
(* The inductive invariant FInv says of the call under way how far its     *)
(* loop has come and what has been moved by then, and of one that has      *)
(* returned that buffer and file agree.  The tolerance of a write and a    *)
(* load needs a second one, Quiet: no sample is outside 16 bits.           *)
(***************************************************************************)
EXTENDS Converter, SumProofs, SequenceTheorems

-----------------------------------------------------------------------------
(***************************************************************************)
(* Samples and files.                                                      *)
(***************************************************************************)
Short == -HalfScale .. (HalfScale - 1)

Samples == Int \cup {Undef}

LEMMA Scales ==
  /\ HalfScale \in Nat /\ HalfScale >= 2 /\ BufferSize \in Nat /\ BufferSize >= 1
  /\ Unit \in Nat /\ Unit > 0
  /\ Unit = HalfScale * (2 * (HalfScale - 1)) /\ Unit = (HalfScale - 1) * (2 * HalfScale)
<1>1. HalfScale \in Nat /\ HalfScale >= 2 /\ BufferSize \in Nat /\ BufferSize >= 1
  BY SoundFilesAssumption
<1>2. Unit = HalfScale * (2 * (HalfScale - 1)) /\ Unit = (HalfScale - 1) * (2 * HalfScale)
  BY <1>1 DEF Unit
<1>3. \A m, n \in Nat : m > 0 /\ n > 0 => m * n \in Nat /\ m * n > 0
  OBVIOUS
<1>4. 2 * (HalfScale - 1) \in Nat /\ 2 * (HalfScale - 1) > 0
  BY <1>1
<1>. QED BY <1>1, <1>2, <1>3, <1>4

LEMMA NarrowFits == ASSUME NEW k \in Int PROVE Narrow(k) \in Short
  BY Scales DEF Narrow, Short

LEMMA NearestIsInt == ASSUME NEW x \in Int, NEW n \in Nat, n > 0 PROVE Nearest(x, n) \in Int
  BY DEF Nearest

LEMMA EncodedFits == ASSUME NEW x \in Samples PROVE Encoded(x) \in Short \cup {Undef}
<1>1. CASE x = Undef
  BY <1>1 DEF Encoded
<1>2. CASE x \in Int /\ x # Undef
  <2>1. x * (HalfScale - 1) \in Int
    BY <1>2, Scales
  <2>2. Nearest(x * (HalfScale - 1), Unit) \in Int
    BY <2>1, Scales, NearestIsInt
  <2>. QED BY <1>2, <2>2, NarrowFits DEF Encoded
<1>. QED BY <1>1, <1>2 DEF Samples

\* The two scales are exact.
LEMMA ScalesDivide == Unit \div HalfScale = 2 * (HalfScale - 1) /\ Unit \div (HalfScale - 1) = 2 * HalfScale
<1>1. \A m, n \in Nat : m > 0 => (m * n) \div m = n
  OBVIOUS
<1>2. HalfScale > 0 /\ HalfScale - 1 \in Nat /\ HalfScale - 1 > 0 /\ 2 * (HalfScale - 1) \in Nat /\ 2 * HalfScale \in Nat
  BY Scales
<1>. QED BY <1>1, <1>2, Scales

LEMMA DecodedFits ==
  /\ \A k \in Short \cup {Undef} : Decoded(k) \in Samples
  /\ \A k \in Short : OggDecoded(k) \in Samples
<1>1. \A k \in Short : k * (2 * (HalfScale - 1)) \in Int /\ k * (2 * HalfScale) \in Int
  BY Scales DEF Short
<1>. QED BY <1>1, ScalesDivide DEF Decoded, OggDecoded, Samples

LEMMA FileFacts ==
  ASSUME NEW f \in Files
  PROVE  /\ f # NULL
         /\ f.type \in Formats \cup {"FLOAT"} /\ f.channels \in Nat /\ f.channels > 0
         /\ f.rate \in Nat \cup {Undef} /\ f.whole \in BOOLEAN
         /\ f.items \in Seq(Samples) /\ Len(f.items) \in Nat
         /\ DOMAIN f = {"type", "channels", "rate", "items", "whole"}
         /\ \A j \in 1 .. Len(f.items) : f.items[j] \in Holding(f.type)
<1>1. f \in [type : Formats \cup {"FLOAT"}, channels : Nat \ {0}, rate : Nat \cup {Undef},
             items : Seq(Int \cup {Undef}), whole : BOOLEAN]
      /\ \A j \in DOMAIN f.items : f.items[j] \in Holding(f.type)
  BY DEF Files
<1>2. f.items \in Seq(Samples) /\ Len(f.items) \in Nat /\ DOMAIN f.items = 1 .. Len(f.items)
  BY <1>1 DEF Samples
<1>. QED BY <1>1, <1>2, NullAssumption

LEMMA FramesFit ==
  ASSUME NEW f \in Files
  PROVE  FramesOf(f) \in Nat /\ f.channels * FramesOf(f) <= Len(f.items)
<1>1. \A m, n \in Nat : n > 0 => m \div n \in Nat /\ n * (m \div n) <= m
  OBVIOUS
<1>. QED BY <1>1, FileFacts DEF FramesOf

\* Where the samples of a frame are stored.
LEMMA InFile ==
  ASSUME NEW f \in Files, NEW p \in 1 .. f.channels, NEW c \in 0 .. (p - 1),
         NEW i \in 0 .. (FramesOf(f) - 1)
  PROVE  p * i + c + 1 \in 1 .. Len(f.items) /\ i * p + c + 1 = p * i + c + 1
<1>1. /\ FramesOf(f) \in Nat /\ f.channels * FramesOf(f) <= Len(f.items)
      /\ Len(f.items) \in Nat /\ f.channels \in Nat /\ p \in Nat /\ c \in Nat /\ i \in Nat
  BY FramesFit, FileFacts
<1>2. p * i \in Nat /\ i * p = p * i
  BY <1>1
<1>3. p * i + p = p * (i + 1)
  BY <1>1
<1>4. \A a, b, m, n \in Nat : a <= b /\ m <= n => a * m <= b * n
  OBVIOUS
<1>5. p * (i + 1) <= f.channels * FramesOf(f)
  BY SMTT(20), <1>1, <1>4
<1> DEFINE pi == p * i
           most == f.channels * FramesOf(f)
           more == p * (i + 1)
<1>6. pi \in Nat /\ more = pi + p /\ more <= most /\ most <= Len(f.items) /\ most \in Nat
  BY <1>1, <1>2, <1>3, <1>5
<1> HIDE DEF pi, most, more
<1>7. pi + c + 1 \in 1 .. Len(f.items)
  BY <1>1, <1>6
<1>. QED BY <1>2, <1>7 DEF pi

LEMMA SampleFits ==
  ASSUME NEW f \in Files, NEW j \in 1 .. Len(f.items)
  PROVE  /\ Sample(f, f.items[j]) \in Samples
         /\ f.type \in SndfileFormats => Sample(f, f.items[j]) = Decoded(f.items[j])
         /\ f.type = "OGG" => Sample(f, f.items[j]) = OggDecoded(f.items[j])
<1>1. f.items[j] \in Holding(f.type)
  BY FileFacts
<1>2. CASE f.type = "OGG"
  BY <1>1, <1>2, DecodedFits DEF Holding, Sample, Short, SndfileFormats
<1>3. CASE f.type = "FLOAT"
  BY <1>1, <1>3 DEF Holding, Sample, Samples, SndfileFormats
<1>4. CASE f.type # "OGG" /\ f.type # "FLOAT"
  BY <1>1, <1>4, DecodedFits DEF Holding, Sample, Short, SndfileFormats
<1>. QED BY <1>2, <1>3, <1>4

-----------------------------------------------------------------------------
(***************************************************************************)
(* The buffer.                                                             *)
(***************************************************************************)
Fields == {"channels", "usedChannels", "size", "usedSize", "isSilent", "data", "allocated"}

\* What the client's buffer is at any time.
Sound(o) ==
  /\ DOMAIN o = Fields
  /\ o.channels \in Nat /\ o.usedChannels \in 0 .. o.channels
  /\ o.size \in Nat /\ o.usedSize = o.size
  /\ o.isSilent \in BOOLEAN
  /\ DOMAIN o.data = 0 .. (o.channels - 1)
  /\ \A c \in 0 .. (o.channels - 1) :
       /\ DOMAIN o.data[c] = 0 .. (o.size - 1)
       /\ \A i \in 0 .. (o.size - 1) : o.data[c][i] \in Samples

\* The samples of rows are numbers where they fall on samples of o.
Fitting(o, rows) ==
  \A c \in DOMAIN rows : \A i \in DOMAIN rows[c] :
    c < o.channels /\ i < o.size => rows[c][i] \in Samples

LEMMA OverlayFields ==
  ASSUME NEW o, Sound(o), NEW rows
  PROVE  /\ DOMAIN Buffer!Overlay(o, rows) = Fields
         /\ Buffer!Overlay(o, rows).channels = o.channels
         /\ Buffer!Overlay(o, rows).usedChannels = o.usedChannels
         /\ Buffer!Overlay(o, rows).size = o.size
         /\ Buffer!Overlay(o, rows).usedSize = o.usedSize
         /\ Buffer!Overlay(o, rows).isSilent = o.isSilent
         /\ DOMAIN Buffer!Overlay(o, rows).data = DOMAIN o.data
         /\ \A c \in DOMAIN o.data : DOMAIN Buffer!Overlay(o, rows).data[c] = DOMAIN o.data[c]
  BY DEF Sound, Fields, Buffer!Overlay

LEMMA OverlaySamples ==
  ASSUME NEW o, Sound(o), NEW rows, NEW c \in 0 .. (o.channels - 1), NEW i \in 0 .. (o.size - 1)
  PROVE  /\ c \in DOMAIN rows /\ i \in DOMAIN rows[c] => Buffer!Overlay(o, rows).data[c][i] = rows[c][i]
         /\ ~(c \in DOMAIN rows /\ i \in DOMAIN rows[c]) => Buffer!Overlay(o, rows).data[c][i] = o.data[c][i]
<1>1. c \in DOMAIN o.data /\ i \in DOMAIN o.data[c] /\ "data" \in DOMAIN o
  BY DEF Sound, Fields
<1> DEFINE cell(b, k) == IF b \in DOMAIN rows /\ k \in DOMAIN rows[b] THEN rows[b][k] ELSE o.data[b][k]
           new == [b \in DOMAIN o.data |-> [k \in DOMAIN o.data[b] |-> cell(b, k)]]
<1>2. Buffer!Overlay(o, rows) = [o EXCEPT !.data = new]
  BY DEF Buffer!Overlay
<1>3. Buffer!Overlay(o, rows).data = new
  <2> HIDE DEF new
  <2>. QED BY <1>1, <1>2
<1>4. Buffer!Overlay(o, rows).data[c][i] = cell(c, i)
  BY <1>1, <1>3
<1>. QED BY <1>4

LEMMA OverlaySound ==
  ASSUME NEW o, Sound(o), NEW rows, Fitting(o, rows)
  PROVE  Sound(Buffer!Overlay(o, rows))
<1> DEFINE d == Buffer!Overlay(o, rows)
<1>1. /\ DOMAIN d = Fields
      /\ d.channels = o.channels /\ d.usedChannels = o.usedChannels
      /\ d.size = o.size /\ d.usedSize = o.usedSize /\ d.isSilent = o.isSilent
  BY OverlayFields
<1>2. DOMAIN d.data = DOMAIN o.data /\ \A c \in DOMAIN o.data : DOMAIN d.data[c] = DOMAIN o.data[c]
  BY OverlayFields
<1>3. ASSUME NEW c \in 0 .. (o.channels - 1), NEW i \in 0 .. (o.size - 1)
      PROVE  d.data[c][i] \in Samples
  <2>1. o.data[c][i] \in Samples
    BY DEF Sound
  <2>2. c < o.channels /\ i < o.size
    BY DEF Sound
  <2>. QED BY <2>1, <2>2, OverlaySamples DEF Fitting
<1> HIDE DEF d
<1>4. Sound(d)
  BY <1>1, <1>2, <1>3 DEF Sound
<1>. QED BY <1>4 DEF d

LEMMA FlagSound ==
  ASSUME NEW o, Sound(o), NEW flag \in BOOLEAN
  PROVE  /\ Sound([o EXCEPT !.isSilent = flag])
         /\ [o EXCEPT !.isSilent = flag].isSilent = flag
         /\ [o EXCEPT !.isSilent = flag].data = o.data
         /\ [o EXCEPT !.isSilent = flag].channels = o.channels
         /\ [o EXCEPT !.isSilent = flag].usedChannels = o.usedChannels
         /\ [o EXCEPT !.isSilent = flag].size = o.size
  BY DEF Sound, Fields

LEMMA ResizeFields ==
  ASSUME NEW o, Sound(o), NEW n \in Nat, NEW s \in Nat
  PROVE  /\ Buffer!Resize(o, n, s).channels = n /\ Buffer!Resize(o, n, s).size = s
         /\ Buffer!Resize(o, n, s).isSilent = o.isSilent
         /\ o.usedChannels = o.channels => Buffer!Resize(o, n, s).usedChannels = n
  BY DEF Sound, Fields, Buffer!Resize

LEMMA ResizeSound ==
  ASSUME NEW o, Sound(o), NEW n \in Nat, NEW s \in Nat
  PROVE  Sound(Buffer!Resize(o, n, s))
<1>1. CASE n = o.channels /\ s = o.size
  BY <1>1 DEF Buffer!Resize
<1>2. CASE ~(n = o.channels /\ s = o.size)
  <2> DEFINE d == Buffer!Resize(o, n, s)
             rows == Buffer!Allocated(n, s)
  <2>1. d = [o EXCEPT !.channels = n, !.usedChannels = n, !.size = s, !.usedSize = s,
                      !.data = rows, !.allocated = TRUE]
    BY <1>2 DEF Buffer!Resize
  <2>2. /\ DOMAIN rows = 0 .. (n - 1)
        /\ \A c \in 0 .. (n - 1) : DOMAIN rows[c] = 0 .. (s - 1) /\ \A i \in 0 .. (s - 1) : rows[c][i] = Undef
    BY DEF Buffer!Allocated, Buffer!Upto
  <2> HIDE DEF rows
  <2>3. /\ DOMAIN d = Fields /\ d.channels = n /\ d.usedChannels = n
        /\ d.size = s /\ d.usedSize = s /\ d.data = rows /\ d.isSilent = o.isSilent
    BY <2>1 DEF Sound, Fields
  <2> HIDE DEF d
  <2>4. o.isSilent \in BOOLEAN
    BY DEF Sound
  <2>5. Sound(d)
    BY <2>2, <2>3, <2>4 DEF Sound, Samples
  <2>. QED BY <2>5 DEF d
<1>. QED BY <1>1, <1>2

LEMMA FreshSound == Sound(Buffer!Fresh)
  BY DEF Sound, Fields, Buffer!Fresh

LEMMA TakesSound == ASSUME NEW o \in Takes PROVE Sound(o) /\ o.isSilent = FALSE
<1>1. DOMAIN Buffer!Fresh = Fields
  BY DEF Buffer!Fresh, Fields
<1>2. /\ DOMAIN o = Fields
      /\ o.channels \in Nat /\ o.size \in Nat /\ o.isSilent = FALSE
      /\ o.usedChannels = o.channels /\ o.usedSize = o.size
      /\ DOMAIN o.data = 0 .. (o.channels - 1)
      /\ \A c \in DOMAIN o.data : /\ DOMAIN o.data[c] = 0 .. (o.size - 1)
                                 /\ \A i \in DOMAIN o.data[c] : o.data[c][i] \in Int
  BY <1>1, ManagerAssumption
<1>3. o.isSilent \in BOOLEAN
  BY <1>2, Zenon
<1>4. o.usedChannels \in 0 .. o.channels
  BY <1>2
<1>5. \A c \in 0 .. (o.channels - 1) :
        /\ DOMAIN o.data[c] = 0 .. (o.size - 1)
        /\ \A i \in 0 .. (o.size - 1) : o.data[c][i] \in Samples
  BY <1>2 DEF Samples
<1>6. Sound(o)
  BY <1>2, <1>3, <1>4, <1>5 DEF Sound
<1>. QED BY <1>2, <1>6

LEMMA NarrowedSound ==
  ASSUME NEW o, Sound(o), NEW n \in Nat, n < o.usedChannels
  PROVE  /\ Sound(Buffer!WithUsedChannels(o, n))
         /\ Buffer!WithUsedChannels(o, n).isSilent = o.isSilent
         /\ Buffer!WithUsedChannels(o, n).channels = o.channels
         /\ Buffer!WithUsedChannels(o, n).usedChannels = n
         /\ Buffer!WithUsedChannels(o, n).size = o.size
         /\ \A c \in 0 .. (o.channels - 1), i \in 0 .. (o.size - 1) :
              Buffer!WithUsedChannels(o, n).data[c][i] = o.data[c][i]
<1> DEFINE rows == [c \in o.usedChannels .. (n - 1) |-> [i \in Buffer!Upto(o.size) |-> 0]]
           d == Buffer!Overlay(o, rows)
           w == [d EXCEPT !.usedChannels = n]
<1>1. Buffer!WithUsedChannels(o, n) = w
  BY DEF Buffer!WithUsedChannels
<1>2. DOMAIN rows = {}
  BY DEF Sound
<1> HIDE DEF rows
<1>3. Fitting(o, rows)
  BY <1>2 DEF Fitting
<1>4. Sound(d)
  BY <1>3, OverlaySound
<1>5. /\ d.channels = o.channels /\ d.usedChannels = o.usedChannels
      /\ d.size = o.size /\ d.isSilent = o.isSilent
  BY OverlayFields
<1>6. \A c \in 0 .. (o.channels - 1), i \in 0 .. (o.size - 1) : d.data[c][i] = o.data[c][i]
  BY <1>2, OverlaySamples
<1> HIDE DEF d
<1>7. /\ Sound(w) /\ w.isSilent = d.isSilent /\ w.channels = d.channels /\ w.usedChannels = n
      /\ w.size = d.size /\ w.data = d.data
  BY <1>4, <1>5 DEF Sound, Fields
<1> HIDE DEF w
<1>. QED BY <1>1, <1>5, <1>6, <1>7

-----------------------------------------------------------------------------
(***************************************************************************)
(* The inductive invariant.  A call of libsndfile carries along how far    *)
(* the loop has come and what it has moved so far; of a call that has      *)
(* returned it says what the client gets.                                  *)
(***************************************************************************)
OnLinux == \A j \in DOMAIN Backends : Backends[j] # "coreaudio"

Sane ==
  /\ disk \in [Paths -> Files \cup {NULL}]
  /\ Sound(buffer)
  /\ samplingRate \in Nat \cup {Undef}
  /\ call \in Calls \cup {NULL} /\ last \in Ends \cup {NULL}
  /\ call # NULL => /\ last = NULL
                    /\ call.backend = "coreaudio" => ~OnLinux
                    /\ call.op = "write" => /\ call.format \in ForWriting[call.backend]
                                            /\ OnLinux \/ call.format \in Wanted

\* A prudent client's buffer has all channels in use, and is silent or audible as
\* the call requires.
Prudence ==
  prudent => /\ fault \in {"none", "exit"}
             /\ call # NULL => FullyUsed /\ (buffer.isSilent <=> call.op = "load")

\* The first n positions of o have been read from f.
Filled(o, f, n) ==
  \A c \in 0 .. (PerPosition(f.channels) - 1), i \in 0 .. (n - 1) :
    o.data[c][i] = Sample(f, f.items[PerPosition(f.channels) * i + c + 1])

LoadingFrom(f) ==
  /\ f \in Files /\ f.type # "OGG" /\ call.backend \in {"sndfile", "coreaudio"}
  /\ buffer.channels = f.channels /\ buffer.size = call.total /\ samplingRate = f.rate
  /\ f.type \notin Compressed => call.total <= FramesOf(f)
  /\ f.type \notin Compressed /\ f.whole => call.total = FramesOf(f)
  /\ call.backend = "sndfile" => /\ f.type \in SndfileFormats
                                 /\ call.running <= call.total
                                 /\ Filled(buffer, f, call.running)

\* The first n positions of o have been written to f, and no more.
Stores(f, o, n) ==
  /\ Len(f.items) = PerPosition(f.channels) * n
  /\ \A c \in 0 .. (PerPosition(f.channels) - 1), i \in 0 .. (n - 1) :
       f.items[PerPosition(f.channels) * i + c + 1] = Encoded(o.data[c][i])

WritingTo(f) ==
  /\ f \in Files /\ f.type = call.format
  /\ f.channels = buffer.channels /\ f.rate = samplingRate
  /\ call.backend = "sndfile" => /\ call.total = buffer.size /\ call.running <= call.total
                                 /\ f.channels = 1 => call.running = 0
                                 /\ Stores(f, buffer, call.running)

Underway ==
  fault = "none" /\ call # NULL /\ call.stage = "loop" =>
    /\ call.op = "load" => LoadingFrom(disk[call.path])
    /\ call.op = "write" => WritingTo(disk[call.path])

\* Buffers of which a write that succeeds leaves a whole and full file: those of one
\* or two channels with libsndfile; those of one channel with AudioToolbox, provided
\* that nothing is cut short.
Faithful ==
  \/ OnLinux /\ buffer.channels <= 2
  \/ buffer.channels = 1 /\ "write" \notin Troubles /\ "AAC" \notin Wanted

Wrote(f) ==
  /\ f \in Files /\ f.whole /\ f.channels = buffer.channels /\ f.rate = samplingRate
  /\ FramesOf(f) = buffer.size
  /\ OnLinux => f.type \in SndfileFormats
  /\ \A c \in 0 .. (buffer.channels - 1), i \in 0 .. (buffer.size - 1) :
       f.items[i * f.channels + c + 1] =
         IF f.type = "FLOAT" THEN buffer.data[c][i] ELSE Encoded(buffer.data[c][i])

Recorded == Ended("write") /\ Faithful => Wrote(disk[last.path])

FInv == Sane /\ Prudence /\ Underway /\ LoadedIsHeard /\ Recorded

-----------------------------------------------------------------------------
LEMMA CallFacts ==
  ASSUME FInv, call # NULL
  PROVE  /\ call \in Calls /\ call.path \in Paths /\ last = NULL
         /\ call.op \in {"load", "write"} /\ call.total \in Nat /\ call.running \in Nat
         /\ disk[call.path] \in Files \cup {NULL}
  BY DEF FInv, Sane, Calls

LEMMA EndIsNotNull == ASSUME NEW x \in Ends PROVE x # NULL
  BY NullAssumption

\* A call that fails leaves nothing to say.
LEMMA FailureKeeps ==
  ASSUME FInv, call # NULL, Return(FALSE), UNCHANGED prudent,
         disk' \in [Paths -> Files \cup {NULL}], Sound(buffer)', samplingRate' \in Nat \cup {Undef}
  PROVE  FInv'
<1>1. call' = NULL /\ last' = [op |-> call.op, path |-> call.path, ok |-> FALSE] /\ UNCHANGED fault
  BY DEF Return
<1>2. last' \in Ends /\ last'.ok = FALSE
  BY <1>1, CallFacts DEF Ends
<1>3. ~Ended("load")' /\ ~Ended("write")'
  BY <1>2 DEF Ended
<1>4. Sane'
  BY <1>1, <1>2 DEF Sane
<1>5. Prudence'
  BY <1>1 DEF FInv, Prudence
<1>6. Underway' /\ LoadedIsHeard' /\ Recorded'
  BY <1>1, <1>3 DEF Underway, LoadedIsHeard, Recorded
<1>. QED BY <1>4, <1>5, <1>6 DEF FInv

LEMMA LoadKeeps ==
  ASSUME FInv, call # NULL, call.op = "load", Return(TRUE), UNCHANGED <<prudent, disk>>,
         Sound(buffer)', samplingRate' \in Nat \cup {Undef},
         Plain(disk[call.path]) /\ FullyUsed' =>
           /\ Buffer!Heard(buffer') = Contents(disk[call.path])
           /\ samplingRate' = IF disk[call.path].type = "OGG" THEN OggRate ELSE disk[call.path].rate
  PROVE  FInv'
<1>1. call' = NULL /\ last' = [op |-> "load", path |-> call.path, ok |-> TRUE] /\ UNCHANGED fault
  BY DEF Return
<1>2. last' \in Ends /\ last'.op = "load" /\ last'.path = call.path
  BY <1>1, CallFacts DEF Ends
<1>3. ~Ended("write")'
  BY <1>2 DEF Ended
<1>4. Sane'
  BY <1>1, <1>2 DEF FInv, Sane
<1>5. Prudence'
  BY <1>1 DEF FInv, Prudence
<1>6. Underway' /\ Recorded'
  BY <1>1, <1>3 DEF Underway, Recorded
<1>7. LoadedIsHeard'
  BY <1>2 DEF LoadedIsHeard
<1>. QED BY <1>4, <1>5, <1>6, <1>7 DEF FInv

LEMMA WriteKeeps ==
  ASSUME FInv, call # NULL, call.op = "write", Return(TRUE), UNCHANGED <<prudent, buffer, samplingRate>>,
         disk' \in [Paths -> Files \cup {NULL}],
         NEW f, f = disk'[call.path], Faithful => Wrote(f)'
  PROVE  FInv'
<1>1. call' = NULL /\ last' = [op |-> "write", path |-> call.path, ok |-> TRUE] /\ UNCHANGED fault
  BY DEF Return
<1>2. last' \in Ends /\ last'.op = "write" /\ last'.path = call.path
  BY <1>1, CallFacts DEF Ends
<1>3. ~Ended("load")'
  BY <1>2 DEF Ended
<1>4. Sane'
  BY <1>1, <1>2 DEF FInv, Sane
<1>5. Prudence'
  BY <1>1 DEF FInv, Prudence
<1>6. Underway' /\ LoadedIsHeard'
  BY <1>1, <1>3 DEF Underway, LoadedIsHeard
<1>7. Faithful' = Faithful
  BY DEF Faithful
<1>8. disk[last.path]' = f
  BY <1>2
<1>9. Wrote(disk[last.path])' <=> Wrote(f)'
  BY <1>8 DEF Wrote
<1>10. Recorded'
  BY <1>7, <1>9 DEF Recorded
<1>. QED BY <1>4, <1>5, <1>6, <1>10 DEF FInv

\* A call that goes on.
LEMMA ProgressKeeps ==
  ASSUME FInv, call # NULL, NEW next \in Calls, Proceed(next), UNCHANGED prudent,
         next.op = call.op, next.backend = call.backend, next.format = call.format, next.path = call.path,
         disk' \in [Paths -> Files \cup {NULL}], Sound(buffer)', samplingRate' \in Nat \cup {Undef},
         buffer'.isSilent = buffer.isSilent, FullyUsed => FullyUsed',
         NEW f, f = disk'[call.path],
         call.op = "load" => LoadingFrom(f)', call.op = "write" => WritingTo(f)'
  PROVE  FInv'
<1>1. call' = next /\ last = NULL /\ UNCHANGED <<last, fault>> /\ next # NULL
  BY CallFacts, NullAssumption DEF Proceed
<1>2. ~Ended("load")' /\ ~Ended("write")'
  BY <1>1 DEF Ended
<1>3. LoadedIsHeard' /\ Recorded'
  BY <1>2 DEF LoadedIsHeard, Recorded
<1>4. Sane'
  BY <1>1 DEF FInv, Sane
<1>5. Prudence'
  BY <1>1 DEF FInv, Prudence
<1>6. Underway'
  <2>1. disk[call.path]' = f
    BY <1>1
  <2>2. LoadingFrom(disk[call.path])' <=> LoadingFrom(f)'
    BY <2>1 DEF LoadingFrom
  <2>3. WritingTo(disk[call.path])' <=> WritingTo(f)'
    BY <2>1 DEF WritingTo
  <2>. QED BY <1>1, <2>2, <2>3 DEF Underway
<1>. QED BY <1>3, <1>4, <1>5, <1>6 DEF FInv

\* A program that stops.
LEMMA HaltKeeps ==
  ASSUME FInv, call # NULL, NEW why, fault' = why, why # "none", prudent => why = "exit",
         UNCHANGED <<buffer, samplingRate, call, last, prudent>>,
         disk' \in [Paths -> Files \cup {NULL}]
  PROVE  FInv'
<1>1. last = NULL /\ UNCHANGED last
  BY CallFacts
<1>2. ~Ended("load")' /\ ~Ended("write")'
  BY <1>1 DEF Ended
<1>3. LoadedIsHeard' /\ Recorded' /\ Underway'
  BY <1>2 DEF LoadedIsHeard, Recorded, Underway
<1>4. Sane'
  BY DEF FInv, Sane
<1>5. Prudence'
  BY DEF FInv, Prudence, FullyUsed
<1>. QED BY <1>3, <1>4, <1>5 DEF FInv

\* The client has a different buffer.
LEMMA ModifyKeeps ==
  ASSUME FInv, NEW new, Sound(new), Modify(new), UNCHANGED prudent
  PROVE  FInv'
<1>1. /\ fault = "none" /\ call = NULL /\ buffer' = new /\ last' = NULL
      /\ UNCHANGED <<disk, samplingRate, call, fault>>
  BY DEF Modify, Idle
<1>2. ~Ended("load")' /\ ~Ended("write")'
  BY <1>1 DEF Ended
<1>3. LoadedIsHeard' /\ Recorded' /\ Underway'
  BY <1>1, <1>2 DEF LoadedIsHeard, Recorded, Underway
<1>4. Sound(buffer)'
  BY <1>1
<1>5. Sane'
  BY <1>1, <1>4 DEF FInv, Sane
<1>6. Prudence'
  BY <1>1 DEF FInv, Prudence
<1>. QED BY <1>3, <1>5, <1>6 DEF FInv

LEMMA FirstIs ==
  ASSUME NEW offers, NEW format
  PROVE  FirstOffering(offers, format) # NULL =>
           /\ FirstOffering(offers, format) \in {"coreaudio", "ogg", "sndfile"}
           /\ FirstOffering(offers, format) = "coreaudio" => ~OnLinux
           /\ format \in offers[FirstOffering(offers, format)]
<1>1. CASE Offering(offers, format) = {}
  BY <1>1 DEF FirstOffering
<1>2. CASE Offering(offers, format) # {}
  <2> DEFINE m == Min(Offering(offers, format))
  <2>1. Backends \in Seq({"coreaudio", "ogg", "sndfile"})
    BY ManagerAssumption
  <2>2. Offering(offers, format) \subseteq DOMAIN Backends /\ Offering(offers, format) \subseteq Nat
    BY <2>1 DEF Offering
  <2>3. m \in Offering(offers, format)
    <3>1. \E j \in Offering(offers, format) : \A k \in Offering(offers, format) : j <= k
      BY <1>2, <2>2, Smallest
    <3>. QED BY <3>1 DEF Min
  <2> HIDE DEF m
  <2>4. FirstOffering(offers, format) = Backends[m]
    BY <1>2 DEF FirstOffering, m
  <2>5. m \in DOMAIN Backends /\ format \in offers[Backends[m]] /\ Backends[m] \in {"coreaudio", "ogg", "sndfile"}
    BY <2>1, <2>2, <2>3 DEF Offering
  <2>. QED BY <2>4, <2>5 DEF OnLinux
<1>. QED BY <1>1, <1>2

\* The manager hands a call to a backend, or fails.
LEMMA DispatchKeeps ==
  ASSUME FInv, NEW op \in {"load", "write"}, NEW path \in Paths, NEW format \in Formats, NEW backend,
         Dispatch(op, path, format, backend), UNCHANGED prudent,
         backend # NULL => /\ backend \in {"coreaudio", "ogg", "sndfile"}
                           /\ backend = "coreaudio" => ~OnLinux
                           /\ op = "write" => /\ format \in ForWriting[backend]
                                              /\ OnLinux \/ format \in Wanted,
         prudent => FullyUsed /\ (buffer.isSilent <=> op = "load")
  PROVE  FInv'
<1>1. fault = "none" /\ call = NULL /\ UNCHANGED <<disk, buffer, samplingRate, fault>>
  BY DEF Dispatch, Idle
<1>2. CASE backend = NULL
  <2>1. last' = [op |-> op, path |-> path, ok |-> FALSE] /\ UNCHANGED call
    BY <1>2 DEF Dispatch
  <2>2. last' \in Ends /\ last'.ok = FALSE
    BY <2>1 DEF Ends
  <2>3. ~Ended("load")' /\ ~Ended("write")'
    BY <2>2 DEF Ended
  <2>4. LoadedIsHeard' /\ Recorded' /\ Underway'
    BY <1>1, <2>1, <2>3 DEF LoadedIsHeard, Recorded, Underway
  <2>5. Sane'
    BY <1>1, <2>1, <2>2 DEF FInv, Sane
  <2>6. Prudence'
    BY <1>1, <2>1 DEF FInv, Prudence
  <2>. QED BY <2>4, <2>5, <2>6 DEF FInv
<1>3. CASE backend # NULL
  <2>1. /\ last' = NULL
        /\ call' = [op |-> op, path |-> path, format |-> format, backend |-> backend,
                    stage |-> "open", total |-> 0, running |-> 0]
    BY <1>3 DEF Dispatch
  <2>2. call' \in Calls /\ call'.stage = "open" /\ call'.op = op /\ call'.backend = backend /\ call'.format = format
    BY <1>3, <2>1 DEF Calls
  <2>3. ~Ended("load")' /\ ~Ended("write")'
    BY <2>1 DEF Ended
  <2>4. LoadedIsHeard' /\ Recorded' /\ Underway'
    BY <2>2, <2>3 DEF LoadedIsHeard, Recorded, Underway
  <2>5. Sane'
    BY <1>1, <1>3, <2>1, <2>2 DEF FInv, Sane
  <2>6. Prudence'
    BY <1>1, <2>2 DEF FInv, Prudence, FullyUsed
  <2>. QED BY <2>4, <2>5, <2>6 DEF FInv
<1>. QED BY <1>2, <1>3

LEMMA ClientKeeps ==
  ASSUME FInv, Client, UNCHANGED prudent
  PROVE  FInv'
<1>0. Sound(buffer) /\ buffer.isSilent \in BOOLEAN
  BY DEF FInv, Sane, Sound
<1>1. ASSUME prudent => buffer.isSilent /\ FullyUsed, NEW path \in Paths, loadFile(path) PROVE FInv'
  <2>1. Extension[path] \in Formats
    BY SoundFilesAssumption
  <2>. QED BY <1>0, <1>1, <2>1, FirstIs, DispatchKeeps DEF loadFile, Reader
<1>2. ASSUME prudent => ~buffer.isSilent /\ FullyUsed,
             NEW path \in Targets, NEW format \in Wanted, writeFile(path, format)
      PROVE  FInv'
  <2>1. path \in Paths /\ format \in Formats
    BY ManagerAssumption
  <2>. QED BY <1>0, <1>2, <2>1, FirstIs, DispatchKeeps DEF writeFile, Writer
<1>3. ASSUME NEW o \in Takes, Make(o) PROVE FInv'
  BY <1>3, TakesSound, ModifyKeeps DEF Make
<1>4. ASSUME NEW n \in 0 .. 2, UseChannels(n) PROVE FInv'
  BY <1>0, <1>4, NarrowedSound, ModifyKeeps DEF UseChannels
<1>5. ASSUME Silence PROVE FInv'
  BY <1>0, <1>5, FlagSound, ModifyKeeps DEF Silence
<1>6. ASSUME Reset PROVE FInv'
  BY <1>6, FreshSound, ModifyKeeps DEF Reset
<1>. QED BY <1>1, <1>2, <1>3, <1>4, <1>5, <1>6 DEF Client

-----------------------------------------------------------------------------
(***************************************************************************)
(* libsndfile.                                                             *)
(***************************************************************************)
LEMMA RunningFacts ==
  ASSUME FInv, NEW op, NEW backend, NEW stage, Running(op, backend, stage)
  PROVE  /\ call # NULL /\ fault = "none" /\ call \in Calls /\ call.path \in Paths
         /\ call.op = op /\ call.backend = backend /\ call.stage = stage
         /\ call.total \in Nat /\ call.running \in Nat
         /\ disk \in [Paths -> Files \cup {NULL}] /\ Sound(buffer)
         /\ samplingRate \in Nat \cup {Undef}
         /\ stage = "loop" /\ op = "load" => LoadingFrom(disk[call.path])
         /\ stage = "loop" /\ op = "write" => WritingTo(disk[call.path])
<1>1. call # NULL /\ fault = "none" /\ call.op = op /\ call.backend = backend /\ call.stage = stage
  BY DEF Running
<1>. QED BY <1>1, CallFacts DEF FInv, Sane, Underway

LEMMA PositionsFit ==
  ASSUME NEW channels \in Nat, channels > 0
  PROVE  /\ PerPosition(channels) \in 1 .. channels /\ PerPosition(channels) \in {1, 2}
         /\ channels <= 2 => PerPosition(channels) = channels
  BY DEF PerPosition

LEMMA TurnFits ==
  ASSUME NEW running \in Nat, NEW total \in Nat, running <= total
  PROVE  /\ TurnLength(running, total) \in Nat /\ running + TurnLength(running, total) <= total
         /\ running < total => TurnLength(running, total) > 0
<1> DEFINE S == {BufferSize, total - running}
           m == Min(S)
<1>1. S \subseteq Nat /\ S # {} /\ BufferSize >= 1
  BY Scales
<1>2. m \in S /\ \A k \in S : m <= k
  <2> HIDE DEF S
  <2>1. \E j \in S : \A k \in S : j <= k
    BY <1>1, Smallest
  <2>. QED BY <2>1 DEF Min
<1>3. TurnLength(running, total) = m
  BY DEF TurnLength
<1> HIDE DEF m
<1>. QED BY <1>1, <1>2, <1>3

LEMMA LoadCannotOpenKeeps ==
  ASSUME FInv, LoadCannotOpen, UNCHANGED prudent PROVE FInv'
<1>1. Running("load", "sndfile", "open") /\ Return(FALSE) /\ UNCHANGED <<disk, buffer, samplingRate>>
  BY DEF LoadCannotOpen
<1>. QED BY <1>1, RunningFacts, FailureKeeps

LEMMA AnnouncedFits ==
  ASSUME NEW f \in Files, NEW n \in Announced(f)
  PROVE  n \in Nat /\ n <= FramesOf(f) /\ (f.whole => n = FramesOf(f))
  BY FramesFit DEF Announced

LEMMA LoadOpenKeeps ==
  ASSUME FInv, LoadOpen, UNCHANGED prudent PROVE FInv'
<1>1. Running("load", "sndfile", "open") /\ Opens(call.path) /\ UNCHANGED disk
  BY DEF LoadOpen
<1>2. /\ call # NULL /\ call \in Calls /\ call.path \in Paths /\ call.op = "load" /\ call.backend = "sndfile"
      /\ disk \in [Paths -> Files \cup {NULL}] /\ Sound(buffer)
  BY <1>1, RunningFacts
<1>3. PICK f \in Files : f = disk[call.path] /\ f.type \in SndfileFormats
  BY <1>1, <1>2 DEF Opens
<1>4. PICK frames \in Announced(f) :
        /\ samplingRate' = f.rate
        /\ buffer' = Buffer!Resize(buffer, f.channels, frames)
        /\ Proceed([call EXCEPT !.stage = "loop", !.total = frames, !.running = 0])
  BY <1>3 DEF LoadOpen
<1>5. /\ frames \in Nat /\ frames <= FramesOf(f) /\ (f.whole => frames = FramesOf(f))
      /\ f.channels \in Nat /\ f.channels > 0 /\ f.rate \in Nat \cup {Undef}
  BY AnnouncedFits, FileFacts
<1> DEFINE next == [call EXCEPT !.stage = "loop", !.total = frames, !.running = 0]
<1>6. /\ next \in Calls /\ next.op = call.op /\ next.backend = call.backend /\ next.format = call.format
      /\ next.path = call.path /\ next.total = frames /\ next.running = 0
  BY <1>2, <1>5 DEF Calls
<1>7. Sound(buffer)'
  BY <1>2, <1>4, <1>5, ResizeSound
<1>8. /\ buffer'.channels = f.channels /\ buffer'.size = frames
      /\ buffer'.isSilent = buffer.isSilent /\ (FullyUsed => FullyUsed')
  BY <1>2, <1>4, <1>5, ResizeFields DEF FullyUsed
<1>9. call' = next
  BY <1>4 DEF Proceed
<1> HIDE DEF next
<1>10. LoadingFrom(f)'
  <2>1. f.type # "OGG"
    BY <1>3 DEF SndfileFormats
  <2>2. Filled(buffer, f, call.running)'
    BY <1>6, <1>9 DEF Filled
  <2>. QED BY <1>2, <1>3, <1>4, <1>5, <1>6, <1>8, <1>9, <2>1, <2>2 DEF LoadingFrom
<1>11. Proceed(next)
  BY <1>4 DEF next
<1>12. f = disk'[call.path]
  BY <1>1, <1>3
<1>. QED BY <1>1, <1>2, <1>4, <1>5, <1>6, <1>7, <1>8, <1>10, <1>11, <1>12, ProgressKeeps

\* What a turn receives goes to the rows, behind what has been read before.
LEMMA Receiving ==
  ASSUME FInv, Running("load", "sndfile", "loop"), NEW f, f = disk[call.path], NEW n \in Int,
         NEW filled, filled = Buffer!Overlay(buffer, Received(f, n))
  PROVE  /\ Sound(filled)
         /\ filled.channels = buffer.channels /\ filled.usedChannels = buffer.usedChannels
         /\ filled.size = buffer.size /\ filled.isSilent = buffer.isSilent
         /\ n >= 0 /\ call.running + n <= call.total => Filled(filled, f, call.running + n)
<1>1. /\ Sound(buffer) /\ LoadingFrom(f) /\ call.backend = "sndfile"
      /\ call.total \in Nat /\ call.running \in Nat
  BY RunningFacts
<1>2. /\ f \in Files /\ f.type \in SndfileFormats
      /\ buffer.channels = f.channels /\ buffer.size = call.total
      /\ call.total <= FramesOf(f) /\ Filled(buffer, f, call.running)
  BY <1>1 DEF LoadingFrom, SndfileFormats, Compressed
<1>3. f.channels \in Nat /\ f.channels > 0 /\ FramesOf(f) \in Nat
  BY <1>2, FileFacts, FramesFit
<1> DEFINE p == PerPosition(f.channels)
           rows == Received(f, n)
<1>4. p \in 1 .. f.channels
  BY <1>3, PositionsFit
<1>5. /\ DOMAIN rows = 0 .. (p - 1)
      /\ \A c \in 0 .. (p - 1) :
           /\ DOMAIN rows[c] = call.running .. (call.running + n - 1)
           /\ \A i \in call.running .. (call.running + n - 1) : rows[c][i] = Decoded(f.items[p * i + c + 1])
  BY DEF Received
<1>6. \A c \in 0 .. (p - 1) : \A i \in 0 .. (call.running - 1) :
        buffer.data[c][i] = Sample(f, f.items[p * i + c + 1])
  BY <1>2 DEF Filled
<1>7. filled = Buffer!Overlay(buffer, rows)
  OBVIOUS
<1> HIDE DEF p, rows
<1>8. ASSUME NEW c \in 0 .. (p - 1), NEW i \in Nat, i < buffer.size
      PROVE  /\ Decoded(f.items[p * i + c + 1]) = Sample(f, f.items[p * i + c + 1])
             /\ Decoded(f.items[p * i + c + 1]) \in Samples
  <2>1. i \in 0 .. (FramesOf(f) - 1)
    BY <1>1, <1>2, <1>3, <1>8
  <2>2. p * i + c + 1 \in 1 .. Len(f.items)
    BY <1>2, <1>4, <2>1, InFile
  <2>. QED BY <1>2, <2>2, SampleFits
<1>9. Fitting(buffer, rows)
  <2>1. SUFFICES ASSUME NEW c \in DOMAIN rows, NEW i \in DOMAIN rows[c], i < buffer.size
                 PROVE  rows[c][i] \in Samples
    BY DEF Fitting
  <2>2. c \in 0 .. (p - 1) /\ i \in call.running .. (call.running + n - 1)
    BY <1>5, <2>1
  <2>3. i \in Nat
    BY <1>1, <2>2
  <2>. QED BY <1>5, <1>8, <2>1, <2>2, <2>3
<1>10. /\ Sound(filled)
       /\ filled.channels = buffer.channels /\ filled.usedChannels = buffer.usedChannels
       /\ filled.size = buffer.size /\ filled.isSilent = buffer.isSilent
  BY <1>1, <1>7, <1>9, OverlaySound, OverlayFields
<1>11. ASSUME n >= 0, call.running + n <= call.total,
              NEW c \in 0 .. (p - 1), NEW i \in 0 .. (call.running + n - 1)
       PROVE  filled.data[c][i] = Sample(f, f.items[p * i + c + 1])
  <2>1. i \in Nat /\ i < buffer.size /\ i < call.running + n /\ c \in Nat /\ c < buffer.channels
    BY <1>1, <1>2, <1>3, <1>4, <1>11
  <2>2. c \in 0 .. (buffer.channels - 1) /\ i \in 0 .. (buffer.size - 1)
    BY <1>2, <1>3, <1>1, <2>1
  <2>3. CASE i < call.running
    <3>1. c \in DOMAIN rows /\ i \notin DOMAIN rows[c]
      BY <1>1, <1>5, <2>1, <2>3
    <3>2. filled.data[c][i] = buffer.data[c][i]
      BY <1>1, <1>7, <2>2, <3>1, OverlaySamples
    <3>3. i \in 0 .. (call.running - 1)
      BY <1>1, <2>1, <2>3
    <3>. QED BY <1>6, <3>2, <3>3
  <2>4. CASE i >= call.running
    <3>1. i \in call.running .. (call.running + n - 1)
      BY <1>1, <2>1, <2>4
    <3>2. c \in DOMAIN rows /\ i \in DOMAIN rows[c]
      BY <1>5, <3>1
    <3>3. filled.data[c][i] = rows[c][i]
      BY <1>1, <1>7, <2>2, <3>2, OverlaySamples
    <3>4. rows[c][i] = Decoded(f.items[p * i + c + 1])
      BY <1>5, <3>1
    <3>5. Decoded(f.items[p * i + c + 1]) = Sample(f, f.items[p * i + c + 1])
      BY <1>8, <2>1
    <3>. QED BY <3>3, <3>4, <3>5
  <2>. QED BY <1>1, <2>1, <2>3, <2>4
<1>12. ASSUME n >= 0, call.running + n <= call.total PROVE Filled(filled, f, call.running + n)
  <2> SUFFICES ASSUME NEW c \in 0 .. (PerPosition(f.channels) - 1), NEW i \in 0 .. (call.running + n - 1)
               PROVE  filled.data[c][i] = Sample(f, f.items[PerPosition(f.channels) * i + c + 1])
    BY <1>1 DEF Filled
  <2>. QED BY <1>11, <1>12 DEF p
<1>. QED BY <1>10, <1>12

\* What libsndfile says it has delivered.
LEMMA DeliveredIsInt ==
  ASSUME NEW f, Len(f.items) \in Nat, NEW at \in Nat, NEW count \in Nat, NEW got \in Delivered(f, at, count)
  PROVE  got \in Int /\ got <= count
<1>1. Min({count, Len(f.items) - at}) \in {count, Len(f.items) - at} /\ Min({count, Len(f.items) - at}) <= count
  <2>1. \E j \in {count, Len(f.items) - at} : \A k \in {count, Len(f.items) - at} : j <= k
    OBVIOUS
  <2>. QED BY <2>1 DEF Min
<1>. QED BY <1>1 DEF Delivered

\* A turn stays within the rows.
LEMMA LoadReachesIn ==
  ASSUME FInv, Running("load", "sndfile", "loop"), NEW n \in Int, call.running + n <= call.total
  PROVE  LoadReaches(n)
<1>1. /\ Sound(buffer) /\ LoadingFrom(disk[call.path]) /\ call.backend = "sndfile"
      /\ call.total \in Nat /\ call.running \in Nat
  BY RunningFacts
<1>2. PICK k, reach : k = PerPosition(disk[call.path].channels) /\ reach = call.running + n
  OBVIOUS
<1>3. /\ k \in 1 .. buffer.channels /\ buffer.channels \in Nat
      /\ reach \in Int /\ reach <= buffer.size /\ buffer.size \in Nat
  BY <1>1, <1>2, FileFacts, PositionsFit DEF LoadingFrom, Sound
<1>4. DOMAIN buffer.data = 0 .. (buffer.channels - 1)
      /\ \A c \in 0 .. (buffer.channels - 1) : DOMAIN buffer.data[c] = 0 .. (buffer.size - 1)
  BY <1>1 DEF Sound
<1>5. ASSUME NEW c \in 0 .. (k - 1)
      PROVE  c \in DOMAIN buffer.data /\ 0 .. (reach - 1) \subseteq DOMAIN buffer.data[c]
  <2>1. c \in 0 .. (buffer.channels - 1)
    BY <1>3
  <2>2. 0 .. (reach - 1) \subseteq 0 .. (buffer.size - 1)
    BY <1>3
  <2>. QED BY <1>4, <2>1, <2>2
<1>. QED BY <1>2, <1>5 DEF LoadReaches, Buffer!Reaches, Buffer!Upto

LEMMA LoadTurnIs ==
  ASSUME FInv, LoadTurn
  PROVE  /\ Running("load", "sndfile", "loop")
         /\ TakeIn(disk[call.path], TurnLength(call.running, call.total))
         /\ UNCHANGED <<disk, samplingRate, lost>>
<1>1. Running("load", "sndfile", "loop")
  BY DEF LoadTurn
<1>2. PICK n : n = TurnLength(call.running, call.total)
  OBVIOUS
<1>3. n \in Int /\ call.running + n <= call.total
  <2>1. call.running \in Nat /\ call.total \in Nat /\ call.running <= call.total
    BY <1>1, RunningFacts DEF LoadingFrom
  <2>. QED BY <1>2, <2>1, TurnFits
<1>4. LoadReaches(n)
  BY <1>1, <1>3, LoadReachesIn
<1>5. TakeIn(disk[call.path], n)
  BY <1>2, <1>4 DEF LoadTurn
<1>. QED BY <1>1, <1>2, <1>5 DEF TakeIn

LEMMA LoadShortIs ==
  ASSUME FInv, LoadShort
  PROVE  /\ Running("load", "sndfile", "loop") /\ Return(FALSE) /\ UNCHANGED <<disk, samplingRate>>
         /\ \E got \in Int : buffer' = IF disk[call.path].channels = 1
                                      THEN Buffer!Overlay(buffer, Received(disk[call.path], got))
                                      ELSE buffer
<1>1. /\ Running("load", "sndfile", "loop") /\ call.running \in Nat /\ call.total \in Nat
      /\ LoadingFrom(disk[call.path]) /\ call.backend = "sndfile"
  BY RunningFacts DEF LoadShort
<1>2. PICK f, n, k, at, count : /\ f = disk[call.path] /\ n = TurnLength(call.running, call.total)
                               /\ k = PerPosition(f.channels) /\ at = call.running * k /\ count = n * k
  OBVIOUS
<1>3. f \in Files /\ call.running <= call.total
  BY <1>1, <1>2 DEF LoadingFrom
<1>4. n \in Nat /\ call.running + n <= call.total /\ k \in {1, 2} /\ (f.channels = 1 => k = 1)
  <2>1. n \in Nat /\ call.running + n <= call.total
    BY <1>1, <1>2, <1>3, TurnFits
  <2>2. k \in {1, 2} /\ (f.channels = 1 => k = 1)
    BY <1>2 DEF PerPosition
  <2>. QED BY <2>1, <2>2
<1>5. at \in Nat /\ count \in Nat /\ Len(f.items) \in Nat
  <2>1. Len(f.items) \in Nat
    BY <1>3, FileFacts
  <2>2. CASE k = 1
    BY <1>1, <1>2, <1>4, <2>1, <2>2
  <2>3. CASE k = 2
    BY <1>1, <1>2, <1>4, <2>1, <2>3
  <2>. QED BY <1>4, <2>2, <2>3
<1>6. PICK got \in Delivered(f, at, count) :
        IF f.channels = 1 /\ ~LoadReaches(got)
        THEN Halt("access")
        ELSE /\ buffer' = IF f.channels = 1 THEN Buffer!Overlay(buffer, Received(f, got)) ELSE buffer
             /\ Return(FALSE)
             /\ UNCHANGED <<disk, samplingRate>>
  BY <1>2 DEF LoadShort
<1>7. got \in Int /\ got <= count
  BY <1>5, <1>6, DeliveredIsInt
<1>8. f.channels = 1 => LoadReaches(got)
  <2>1. f.channels = 1 => call.running + got <= call.total
    BY <1>1, <1>2, <1>4, <1>7
  <2>. QED BY <1>1, <1>7, <2>1, LoadReachesIn
<1>. QED BY <1>1, <1>2, <1>6, <1>7, <1>8

LEMMA LoadShortKeeps ==
  ASSUME FInv, LoadShort, UNCHANGED prudent PROVE FInv'
<1>1. /\ Running("load", "sndfile", "loop") /\ Return(FALSE) /\ UNCHANGED <<disk, samplingRate>>
      /\ call # NULL /\ disk \in [Paths -> Files \cup {NULL}] /\ Sound(buffer) /\ samplingRate \in Nat \cup {Undef}
  BY LoadShortIs, RunningFacts
<1>2. PICK f : f = disk[call.path]
  OBVIOUS
<1>3. PICK got \in Int : buffer' = IF f.channels = 1 THEN Buffer!Overlay(buffer, Received(f, got)) ELSE buffer
  BY <1>2, LoadShortIs
<1>4. Sound(Buffer!Overlay(buffer, Received(f, got)))
  BY <1>1, <1>2, <1>3, Receiving
<1>5. Sound(buffer)'
  BY <1>1, <1>3, <1>4
<1>. QED BY <1>1, <1>5, FailureKeeps

\* A buffer that holds the samples of a file sounds as the file says.
LEMMA HeardAsStored ==
  ASSUME NEW o, Sound(o), o.isSilent = FALSE, NEW f \in Files,
         o.usedChannels = f.channels, o.size = FramesOf(f),
         \A c \in 0 .. (f.channels - 1), i \in 0 .. (FramesOf(f) - 1) :
           o.data[c][i] = Sample(f, f.items[i * f.channels + c + 1])
  PROVE  Buffer!Heard(o) = Contents(f)
<1>1. [c \in 0 .. (f.channels - 1) |-> [i \in 0 .. (FramesOf(f) - 1) |-> o.data[c][i]]]
      = [c \in 0 .. (f.channels - 1) |-> [i \in 0 .. (FramesOf(f) - 1) |->
           Sample(f, f.items[i * f.channels + c + 1])]]
  OBVIOUS
<1>2. Buffer!Heard(o)
      = [len |-> o.size,
         rows |-> [c \in 0 .. (o.usedChannels - 1) |-> [i \in 0 .. (o.size - 1) |-> o.data[c][i]]]]
  BY DEF Buffer!Heard, Buffer!Upto
<1>. QED BY <1>1, <1>2 DEF Contents

LEMMA LoadTurnKeeps ==
  ASSUME FInv, LoadTurn, UNCHANGED prudent PROVE FInv'
<1>1. /\ Running("load", "sndfile", "loop") /\ UNCHANGED <<disk, samplingRate>>
      /\ call # NULL /\ call \in Calls /\ call.op = "load" /\ call.running \in Nat /\ call.total \in Nat
      /\ disk \in [Paths -> Files \cup {NULL}] /\ samplingRate \in Nat \cup {Undef}
      /\ LoadingFrom(disk[call.path]) /\ call.backend = "sndfile"
  BY LoadTurnIs, RunningFacts
<1>2. PICK f : f = disk[call.path]
  OBVIOUS
<1>3. /\ f \in Files /\ call.running <= call.total /\ f.type \in SndfileFormats
      /\ f.type # "OGG" /\ f.type \notin Compressed
      /\ buffer.channels = f.channels /\ buffer.size = call.total /\ samplingRate = f.rate
      /\ call.total <= FramesOf(f) /\ (f.whole => call.total = FramesOf(f))
  BY <1>1, <1>2 DEF LoadingFrom, SndfileFormats, Compressed
<1>4. PICK n : n = TurnLength(call.running, call.total)
  OBVIOUS
<1>5. n \in Nat /\ call.running + n <= call.total
  BY <1>1, <1>3, <1>4, TurnFits
<1>6. PICK filled : filled = Buffer!Overlay(buffer, Received(f, n))
  OBVIOUS
<1>7. /\ Sound(filled)
      /\ filled.channels = buffer.channels /\ filled.usedChannels = buffer.usedChannels
      /\ filled.size = buffer.size /\ filled.isSilent = buffer.isSilent
      /\ Filled(filled, f, call.running + n)
  BY <1>1, <1>2, <1>5, <1>6, Receiving
<1> DEFINE next == [call EXCEPT !.running = @ + n]
<1>8. CASE call.running + n < call.total
  <2>1. buffer' = filled /\ Proceed(next)
    BY <1>2, <1>4, <1>6, <1>8, LoadTurnIs DEF TakeIn
  <2>2. /\ next \in Calls /\ next.op = call.op /\ next.backend = call.backend /\ next.format = call.format
        /\ next.path = call.path /\ next.total = call.total /\ next.running = call.running + n
    BY <1>1, <1>5 DEF Calls
  <2>3. call' = next
    BY <2>1 DEF Proceed
  <2> HIDE DEF next
  <2>4. Filled(buffer, f, call.running)'
    BY <1>7, <2>1, <2>2, <2>3
  <2>5. LoadingFrom(f)'
    BY <1>1, <1>3, <1>5, <1>7, <2>1, <2>2, <2>3, <2>4 DEF LoadingFrom
  <2>6. Sound(buffer)' /\ buffer'.isSilent = buffer.isSilent /\ (FullyUsed => FullyUsed')
    BY <1>7, <2>1 DEF FullyUsed
  <2>7. f = disk'[call.path]
    BY <1>1, <1>2
  <2>. QED BY <1>1, <2>1, <2>2, <2>5, <2>6, <2>7, ProgressKeeps
<1>9. CASE ~(call.running + n < call.total)
  <2>1. buffer' = [filled EXCEPT !.isSilent = FALSE] /\ Return(TRUE)
    BY <1>2, <1>4, <1>6, <1>9, LoadTurnIs DEF TakeIn
  <2>2. call.running + n = call.total
    BY <1>1, <1>5, <1>9
  <2>3. PICK o : o = [filled EXCEPT !.isSilent = FALSE]
    OBVIOUS
  <2>4. /\ Sound(o) /\ o.isSilent = FALSE /\ o.data = filled.data
        /\ o.channels = buffer.channels /\ o.usedChannels = buffer.usedChannels /\ o.size = buffer.size
    BY <1>7, <2>3, FlagSound
  <2>5. buffer' = o
    BY <2>1, <2>3
  <2>6. ASSUME Plain(f), FullyUsed'
        PROVE  Buffer!Heard(buffer') = Contents(f) /\ samplingRate' = f.rate
    <3>1. f.whole /\ f.channels <= 2 /\ f.channels \in Nat /\ f.channels > 0
      BY <1>3, <2>6, FileFacts DEF Plain
    <3>2. o.usedChannels = f.channels /\ o.size = FramesOf(f)
      BY <1>3, <2>4, <2>5, <2>6, <3>1 DEF FullyUsed
    <3>3. ASSUME NEW c \in 0 .. (f.channels - 1), NEW i \in 0 .. (FramesOf(f) - 1)
          PROVE  o.data[c][i] = Sample(f, f.items[i * f.channels + c + 1])
      <4>1. PerPosition(f.channels) = f.channels
        BY <3>1, PositionsFit
      <4>2. call.running + n = FramesOf(f)
        BY <1>3, <2>2, <3>1
      <4>3. filled.data[c][i] = Sample(f, f.items[f.channels * i + c + 1])
        BY <1>7, <4>1, <4>2, <3>3 DEF Filled
      <4>4. i * f.channels + c + 1 = f.channels * i + c + 1
        BY <1>3, <3>1, InFile
      <4>. QED BY <2>4, <4>3, <4>4
    <3>4. Buffer!Heard(o) = Contents(f)
      BY <1>3, <2>4, <3>2, <3>3, HeardAsStored
    <3>. QED BY <1>1, <1>3, <2>5, <3>4
  <2>. QED BY <1>1, <1>2, <1>3, <2>1, <2>4, <2>5, <2>6, LoadKeeps
<1>. QED BY <1>8, <1>9

LEMMA WriteCannotOpenKeeps ==
  ASSUME FInv, WriteCannotOpen, UNCHANGED prudent PROVE FInv'
<1>1. Running("write", "sndfile", "open") /\ Return(FALSE) /\ UNCHANGED <<disk, buffer, samplingRate>>
  BY DEF WriteCannotOpen
<1>. QED BY <1>1, RunningFacts, FailureKeeps

\* A file that has just been made.
LEMMA NewFileFits ==
  ASSUME NEW type \in Formats, NEW channels \in Nat, channels > 0, NEW rate \in Nat \cup {Undef}
  PROVE  /\ NewFile(type, channels, rate) \in Files
         /\ NewFile(type, channels, rate).type = type /\ NewFile(type, channels, rate).channels = channels
         /\ NewFile(type, channels, rate).rate = rate /\ Len(NewFile(type, channels, rate).items) = 0
  BY DEF NewFile, Files

LEMMA WriteOpenKeeps ==
  ASSUME FInv, WriteOpen, UNCHANGED prudent PROVE FInv'
<1>1. /\ Running("write", "sndfile", "open") /\ buffer.channels > 0
      /\ disk' = [disk EXCEPT ![call.path] = NewFile(call.format, buffer.channels, samplingRate)]
      /\ Proceed([call EXCEPT !.stage = "loop", !.total = buffer.size, !.running = 0])
      /\ UNCHANGED <<buffer, samplingRate>>
  BY DEF WriteOpen
<1>2. /\ call # NULL /\ call \in Calls /\ call.path \in Paths /\ call.op = "write" /\ call.backend = "sndfile"
      /\ disk \in [Paths -> Files \cup {NULL}] /\ Sound(buffer) /\ samplingRate \in Nat \cup {Undef}
      /\ call.format \in Formats
  BY <1>1, RunningFacts DEF Calls
<1>3. buffer.channels \in Nat /\ buffer.size \in Nat
  BY <1>2 DEF Sound
<1>4. PICK f : f = NewFile(call.format, buffer.channels, samplingRate)
  OBVIOUS
<1>5. f \in Files /\ f.type = call.format /\ f.channels = buffer.channels /\ f.rate = samplingRate /\ Len(f.items) = 0
  BY <1>1, <1>2, <1>3, <1>4, NewFileFits
<1>6. disk' \in [Paths -> Files \cup {NULL}] /\ f = disk'[call.path]
  BY <1>1, <1>2, <1>4, <1>5
<1> DEFINE next == [call EXCEPT !.stage = "loop", !.total = buffer.size, !.running = 0]
<1>7. /\ next \in Calls /\ next.op = call.op /\ next.backend = call.backend /\ next.format = call.format
      /\ next.path = call.path /\ next.total = buffer.size /\ next.running = 0
  BY <1>2, <1>3 DEF Calls
<1>8. call' = next /\ Proceed(next)
  BY <1>1 DEF Proceed
<1> HIDE DEF next
<1>9. Stores(f, buffer, call.running)'
  <2>1. PerPosition(f.channels) \in Nat
    BY <1>1, <1>3, <1>5, PositionsFit
  <2>. QED BY <1>5, <1>7, <1>8, <2>1 DEF Stores
<1>10. WritingTo(f)'
  BY <1>1, <1>2, <1>3, <1>5, <1>7, <1>8, <1>9 DEF WritingTo
<1>11. FullyUsed => FullyUsed'
  BY <1>1 DEF FullyUsed
<1>. QED BY <1>1, <1>2, <1>6, <1>7, <1>8, <1>10, <1>11, ProgressKeeps

\* A prudent client's rows are long enough.
LEMMA WriteReachesIn ==
  ASSUME FInv, prudent, Running("write", "sndfile", "loop")
  PROVE  WriteReaches /\ (buffer.channels = 1 => buffer.usedChannels > 0)
<1>1. /\ call # NULL /\ Sound(buffer) /\ call.running \in Nat /\ call.total \in Nat
      /\ WritingTo(disk[call.path]) /\ call.backend = "sndfile"
  BY RunningFacts
<1>2. PICK f : f = disk[call.path]
  OBVIOUS
<1>3. /\ f \in Files /\ f.channels = buffer.channels /\ call.total = buffer.size /\ call.running <= call.total
      /\ (f.channels = 1 => call.running = 0)
  BY <1>1, <1>2 DEF WritingTo
<1>4. buffer.channels \in Nat /\ buffer.channels > 0 /\ buffer.usedChannels = buffer.channels /\ buffer.size \in Nat
  BY <1>1, <1>3, FileFacts DEF FInv, Prudence, FullyUsed
<1>5. call.running + WriteLength <= buffer.size
  BY SMTT(20), <1>1, <1>3, <1>4, TurnFits DEF WriteLength, Sound
<1>6. PerPosition(buffer.channels) \in 1 .. buffer.channels
  BY <1>4, PositionsFit
<1>7. DOMAIN buffer.data = 0 .. (buffer.channels - 1)
      /\ \A c \in 0 .. (buffer.channels - 1) : DOMAIN buffer.data[c] = 0 .. (buffer.size - 1)
  BY <1>1 DEF Sound
<1>8. WriteLength \in Int
  BY SMTT(20), <1>1, <1>3, <1>4, TurnFits DEF WriteLength, Sound
<1>9. PICK reach : reach = call.running + WriteLength
  OBVIOUS
<1>10. reach \in Int /\ reach <= buffer.size
  BY <1>1, <1>5, <1>8, <1>9
<1>11. ASSUME NEW c \in 0 .. (PerPosition(buffer.channels) - 1)
       PROVE  c \in DOMAIN buffer.data /\ 0 .. (reach - 1) \subseteq DOMAIN buffer.data[c]
  <2>1. c \in 0 .. (buffer.channels - 1)
    BY <1>4, <1>6
  <2>2. 0 .. (reach - 1) \subseteq 0 .. (buffer.size - 1)
    BY <1>4, <1>10
  <2>. QED BY <1>7, <2>1, <2>2
<1>12. WriteReaches
  BY <1>9, <1>11 DEF WriteReaches, Buffer!Reaches, Buffer!Upto
<1>. QED BY <1>4, <1>12

LEMMA WriteStrayKeeps ==
  ASSUME FInv, WriteStray, UNCHANGED prudent PROVE FInv'
<1>1. /\ Running("write", "sndfile", "loop")
      /\ \E why \in {"assert", "access"} : Halt(why)
      /\ ~(WriteReaches /\ (buffer.channels = 1 => buffer.usedChannels > 0))
  <2>1. CASE buffer.channels = 1 /\ buffer.usedChannels = 0
    BY <2>1 DEF WriteStray
  <2>2. CASE ~(buffer.channels = 1 /\ buffer.usedChannels = 0)
    BY <2>2 DEF WriteStray
  <2>. QED BY <2>1, <2>2
<1>2. ~prudent
  BY <1>1, WriteReachesIn
<1>3. call # NULL /\ disk \in [Paths -> Files \cup {NULL}]
  BY <1>1, RunningFacts
<1>. QED BY <1>1, <1>2, <1>3, HaltKeeps DEF Halt

\* The places of the samples of n positions, k of them to each.
LEMMA Places ==
  ASSUME NEW k \in {1, 2}, NEW n \in Nat
  PROVE  \A j \in 1 .. (n * k) : (j - 1) % k \in 0 .. (k - 1) /\ (j - 1) \div k \in 0 .. (n - 1)
<1>1. CASE k = 1
  BY <1>1
<1>2. CASE k = 2
  BY <1>2
<1>. QED BY <1>1, <1>2

LEMMA PlaceOf ==
  ASSUME NEW k \in {1, 2}, NEW n \in Nat, NEW c \in 0 .. (k - 1), NEW i \in 0 .. (n - 1),
         NEW j, j = k * i + c + 1
  PROVE  j \in 1 .. (n * k) /\ (j - 1) % k = c /\ (j - 1) \div k = i
<1>1. CASE k = 1
  BY <1>1
<1>2. CASE k = 2
  BY <1>2
<1>. QED BY <1>1, <1>2

\* What a turn sends are the samples of the next n positions.
LEMMA SentFits ==
  ASSUME Sound(buffer), NEW k \in {1, 2}, k = PerPosition(buffer.channels), k <= buffer.channels,
         NEW n \in Nat, NEW at \in Nat, at = call.running, at + n <= buffer.size
  PROVE  /\ Sent(n) \in Seq(Short \cup {Undef}) /\ Len(Sent(n)) = n * k
         /\ \A c \in 0 .. (k - 1), i \in 0 .. (n - 1) :
              Sent(n)[k * i + c + 1] = Encoded(buffer.data[c][at + i])
<1>1. Sent(n) = [j \in 1 .. (n * k) |-> Encoded(buffer.data[(j - 1) % k][at + (j - 1) \div k])]
  BY DEF Sent
<1>2. n * k \in Nat
  OBVIOUS
<1>3. buffer.channels \in Nat /\ buffer.size \in Nat
  BY DEF Sound
<1>4. ASSUME NEW j \in 1 .. (n * k)
      PROVE  Encoded(buffer.data[(j - 1) % k][at + (j - 1) \div k]) \in Short \cup {Undef}
  <2>1. (j - 1) % k \in 0 .. (k - 1) /\ (j - 1) \div k \in 0 .. (n - 1)
    BY Places
  <2>2. (j - 1) % k \in 0 .. (buffer.channels - 1) /\ at + (j - 1) \div k \in 0 .. (buffer.size - 1)
    BY <1>3, <2>1
  <2>3. buffer.data[(j - 1) % k][at + (j - 1) \div k] \in Samples
    BY <2>2 DEF Sound
  <2>. QED BY <2>3, EncodedFits
<1>5. Sent(n) \in [1 .. (n * k) -> Short \cup {Undef}]
  BY <1>1, <1>4
<1>6. Sent(n) \in Seq(Short \cup {Undef}) /\ Len(Sent(n)) = n * k
  BY <1>2, <1>5
<1>7. ASSUME NEW c \in 0 .. (k - 1), NEW i \in 0 .. (n - 1)
      PROVE  Sent(n)[k * i + c + 1] = Encoded(buffer.data[c][at + i])
  <2>1. PICK j : j = k * i + c + 1
    OBVIOUS
  <2>2. j \in 1 .. (n * k) /\ (j - 1) % k = c /\ (j - 1) \div k = i
    <3>1. CASE k = 1
      BY <2>1, <3>1
    <3>2. CASE k = 2
      BY <2>1, <3>2
    <3>. QED BY <3>1, <3>2
  <2>3. Sent(n)[j] = Encoded(buffer.data[(j - 1) % k][at + (j - 1) \div k])
    BY <1>1, <2>2
  <2>. QED BY <2>1, <2>2, <2>3
<1>. QED BY <1>6, <1>7

\* z is x and then y.
Joins(z, x, y) ==
  /\ z \in Seq(Samples) /\ Len(z) = Len(x) + Len(y)
  /\ \A j \in 1 .. Len(x) : z[j] = x[j]
  /\ \A j \in 1 .. Len(y) : z[Len(x) + j] = y[j]

LEMMA Joined ==
  ASSUME NEW f \in Files, NEW s \in Seq(Short \cup {Undef}), NEW items, items = f.items \o s
  PROVE  Joins(items, f.items, s)
<1>1. PICK x : x = f.items
  OBVIOUS
<1>2. Short \cup {Undef} \subseteq Samples
  BY Scales DEF Short, Samples
<1>3. x \in Seq(Samples) /\ s \in Seq(Samples) /\ items = x \o s
  BY <1>1, <1>2, FileFacts
<1>4. Joins(items, x, s)
  BY <1>3 DEF Joins
<1>. QED BY <1>1, <1>4

\* A file of integers to which more of them are added.
LEMMA LongerFile ==
  ASSUME NEW f \in Files, f.type \in SndfileFormats, NEW s \in Seq(Short \cup {Undef}),
         NEW items, Joins(items, f.items, s)
  PROVE  /\ [f EXCEPT !.items = items] \in Files
         /\ [f EXCEPT !.items = items].type = f.type
         /\ [f EXCEPT !.items = items].channels = f.channels
         /\ [f EXCEPT !.items = items].rate = f.rate
         /\ [f EXCEPT !.items = items].items = items
<1> DEFINE g == [f EXCEPT !.items = items]
<1>1. Holding(f.type) = Short \cup {Undef}
  BY DEF Holding, Short, SndfileFormats
<1>2. f.items \in Seq(Samples) /\ Len(f.items) \in Nat /\ \A j \in 1 .. Len(f.items) : f.items[j] \in Short \cup {Undef}
  BY <1>1, FileFacts
<1>3. Len(s) \in Nat /\ \A j \in 1 .. Len(s) : s[j] \in Short \cup {Undef}
  OBVIOUS
<1>4. /\ items \in Seq(Samples) /\ Len(items) = Len(f.items) + Len(s)
      /\ \A j \in 1 .. Len(f.items) : items[j] = f.items[j]
      /\ \A j \in 1 .. Len(s) : items[Len(f.items) + j] = s[j]
  BY DEF Joins
<1>5. ASSUME NEW j \in 1 .. Len(items) PROVE items[j] \in Holding(f.type)
  <2>1. CASE j \in 1 .. Len(f.items)
    BY <1>1, <1>2, <1>4, <2>1
  <2>2. CASE j \notin 1 .. Len(f.items)
    <3>1. j - Len(f.items) \in 1 .. Len(s) /\ Len(f.items) + (j - Len(f.items)) = j
      BY <1>2, <1>3, <1>4, <2>2
    <3>2. items[j] = s[j - Len(f.items)]
      BY <1>4, <3>1
    <3>. QED BY <1>1, <1>3, <3>1, <3>2
  <2>. QED BY <2>1, <2>2
<1>6. /\ f \in [type : Formats \cup {"FLOAT"}, channels : Nat \ {0}, rate : Nat \cup {Undef},
                items : Seq(Samples), whole : BOOLEAN]
  BY DEF Files, Samples
<1>7. /\ g \in [type : Formats \cup {"FLOAT"}, channels : Nat \ {0}, rate : Nat \cup {Undef},
                items : Seq(Samples), whole : BOOLEAN]
      /\ g.type = f.type /\ g.channels = f.channels /\ g.rate = f.rate /\ g.items = items
  BY <1>4, <1>6
<1>8. DOMAIN items = 1 .. Len(items)
  BY <1>4
<1>9. g \in Files
  BY <1>5, <1>7, <1>8 DEF Files, Samples
<1>. QED BY <1>7, <1>9

\* What a turn of the loop adds to what the file stores.
LEMMA StoredFits ==
  ASSUME FInv, Running("write", "sndfile", "loop"), NEW f, f = disk[call.path],
         NEW n, n = WriteLength, NEW g, g = Stored(f, n)
  PROVE  /\ f \in Files /\ f.type \in SndfileFormats /\ f.type = call.format
         /\ f.channels = buffer.channels /\ f.rate = samplingRate
         /\ n \in Nat /\ call.running + n <= call.total /\ call.total = buffer.size
         /\ buffer.channels = 1 => call.running + n = call.total
         /\ Sent(n) \in Seq(Short \cup {Undef}) /\ Len(Sent(n)) = n * PerPosition(f.channels)
         /\ PerPosition(f.channels) \in {1, 2}
         /\ g \in Files /\ g.type = f.type /\ g.channels = f.channels /\ g.rate = f.rate
         /\ Stores(g, buffer, call.running + n)
<1>1. /\ call # NULL /\ call.op = "write" /\ Sound(buffer) /\ call.running \in Nat /\ call.total \in Nat
      /\ WritingTo(f) /\ call.backend = "sndfile" /\ call.format \in ForWriting[call.backend]
  BY RunningFacts DEF FInv, Sane
<1>2. /\ f \in Files /\ f.type = call.format /\ f.channels = buffer.channels /\ f.rate = samplingRate
      /\ call.total = buffer.size /\ call.running <= call.total
      /\ (f.channels = 1 => call.running = 0) /\ Stores(f, buffer, call.running)
  BY <1>1 DEF WritingTo
<1>3. f.type \in SndfileFormats
  BY <1>1, <1>2 DEF ForWriting
<1>4. f.channels \in Nat /\ f.channels > 0 /\ buffer.size \in Nat /\ buffer.usedSize = buffer.size
  BY <1>1, <1>2, FileFacts DEF Sound
<1>5. n \in Nat /\ call.running + n <= call.total /\ (buffer.channels = 1 => call.running + n = call.total)
  BY <1>1, <1>2, <1>4, TurnFits DEF WriteLength
<1>6. PICK k : k = PerPosition(f.channels)
  OBVIOUS
<1>7. k \in {1, 2} /\ k <= buffer.channels
  BY <1>2, <1>4, <1>6, PositionsFit
<1>8. PICK at : at = call.running
  OBVIOUS
<1>9. at \in Nat /\ at + n <= buffer.size
  BY <1>1, <1>2, <1>5, <1>8
<1>10. PICK s : s = Sent(n)
  OBVIOUS
<1>11. /\ s \in Seq(Short \cup {Undef}) /\ Len(s) = n * k
       /\ \A c \in 0 .. (k - 1), i \in 0 .. (n - 1) : s[k * i + c + 1] = Encoded(buffer.data[c][at + i])
  <2>1. k = PerPosition(buffer.channels)
    BY <1>2, <1>6
  <2>2. /\ Sent(n) \in Seq(Short \cup {Undef}) /\ Len(Sent(n)) = n * k
        /\ \A c \in 0 .. (k - 1), i \in 0 .. (n - 1) :
             Sent(n)[k * i + c + 1] = Encoded(buffer.data[c][at + i])
    BY ZenonT(30), <1>1, <1>5, <1>7, <1>8, <1>9, <2>1, SentFits
  <2>. QED BY <1>10, <2>2
<1>12. /\ g \in Files /\ g.type = f.type /\ g.channels = f.channels /\ g.rate = f.rate
       /\ Joins(g.items, f.items, s)
  <2>1. PICK items : items = f.items \o s
    OBVIOUS
  <2>2. g = [f EXCEPT !.items = items]
    BY <1>10, <2>1 DEF Stored
  <2>3. Joins(items, f.items, s)
    BY <1>2, <1>11, <2>1, Joined
  <2>4. /\ [f EXCEPT !.items = items] \in Files
        /\ [f EXCEPT !.items = items].type = f.type
        /\ [f EXCEPT !.items = items].channels = f.channels
        /\ [f EXCEPT !.items = items].rate = f.rate
        /\ [f EXCEPT !.items = items].items = items
    BY ZenonT(30), <1>2, <1>3, <1>11, <2>3, LongerFile
  <2>. QED BY <2>2, <2>3, <2>4
<1>13. Len(f.items) = k * at
  BY <1>2, <1>6, <1>8 DEF Stores
<1>14. \A c \in 0 .. (k - 1), i \in 0 .. (at - 1) : f.items[k * i + c + 1] = Encoded(buffer.data[c][i])
  BY <1>2, <1>6, <1>8 DEF Stores
<1>15. Len(g.items) = k * (at + n)
  BY <1>5, <1>7, <1>9, <1>11, <1>12, <1>13 DEF Joins
<1>16. ASSUME NEW c \in 0 .. (k - 1), NEW i \in 0 .. (at + n - 1)
       PROVE  g.items[k * i + c + 1] = Encoded(buffer.data[c][i])
  <2>1. CASE i < at
    <3>1. i \in 0 .. (at - 1)
      BY <1>9, <2>1
    <3>2. k * i + c + 1 \in 1 .. (at * k)
      BY <1>7, <1>9, <3>1, PlaceOf
    <3>3. k * i + c + 1 \in 1 .. Len(f.items)
      BY <1>7, <1>9, <1>13, <3>2
    <3>. QED BY <1>12, <1>14, <3>1, <3>3 DEF Joins
  <2>2. CASE i >= at
    <3>1. i - at \in 0 .. (n - 1) /\ at + (i - at) = i
      BY <1>5, <1>9, <2>2
    <3>2. PICK j : j = k * (i - at) + c + 1
      OBVIOUS
    <3>3. j \in 1 .. (n * k) /\ s[j] = Encoded(buffer.data[c][i])
      BY <1>5, <1>7, <1>11, <3>1, <3>2, PlaceOf
    <3>4. Len(f.items) + j = k * i + c + 1
      BY <1>7, <1>9, <1>13, <3>1, <3>2
    <3>5. g.items[Len(f.items) + j] = s[j]
      BY <1>11, <1>12, <3>3 DEF Joins
    <3>. QED BY <3>3, <3>4, <3>5
  <2>. QED BY <1>5, <1>9, <2>1, <2>2
<1>17. Stores(g, buffer, at + n)
  <2>1. k = PerPosition(g.channels)
    BY <1>6, <1>12
  <2>2. PICK m : m = at + n
    OBVIOUS
  <2>3. ASSUME NEW c \in 0 .. (PerPosition(g.channels) - 1), NEW i \in 0 .. (m - 1)
        PROVE  g.items[PerPosition(g.channels) * i + c + 1] = Encoded(buffer.data[c][i])
    <3>1. i \in 0 .. (at + n - 1) /\ c \in 0 .. (k - 1)
      BY <1>5, <1>9, <2>1, <2>2
    <3>2. g.items[k * i + c + 1] = Encoded(buffer.data[c][i])
      BY <1>16, <3>1
    <3>. QED BY <2>1, <3>2
  <2>4. Len(g.items) = PerPosition(g.channels) * m
    BY <1>15, <2>1, <2>2
  <2>5. Stores(g, buffer, m)
    BY <2>3, <2>4 DEF Stores
  <2>. QED BY <2>2, <2>5
<1>. QED BY <1>1, <1>2, <1>3, <1>5, <1>6, <1>7, <1>8, <1>10, <1>11, <1>12, <1>17

LEMMA ClosedFits ==
  ASSUME NEW f \in Files
  PROVE  /\ Closed(f) \in Files /\ Closed(f).whole /\ Closed(f).type = f.type
         /\ Closed(f).channels = f.channels /\ Closed(f).rate = f.rate /\ Closed(f).items = f.items
<1>1. /\ f \in [type : Formats \cup {"FLOAT"}, channels : Nat \ {0}, rate : Nat \cup {Undef},
                items : Seq(Int \cup {Undef}), whole : BOOLEAN]
      /\ \A j \in DOMAIN f.items : f.items[j] \in Holding(f.type)
  BY DEF Files
<1> DEFINE g == [f EXCEPT !.whole = TRUE]
<1>2. /\ g \in [type : Formats \cup {"FLOAT"}, channels : Nat \ {0}, rate : Nat \cup {Undef},
                items : Seq(Int \cup {Undef}), whole : BOOLEAN]
      /\ g.whole /\ g.type = f.type /\ g.channels = f.channels /\ g.rate = f.rate /\ g.items = f.items
  BY <1>1
<1> HIDE DEF g
<1>3. g \in Files
  BY <1>1, <1>2 DEF Files
<1>4. Closed(f) = g
  BY DEF Closed, g
<1>. QED BY <1>2, <1>3, <1>4

\* Of a mono or stereo file the positions are the frames.
LEMMA StoresAll ==
  ASSUME Sound(buffer), NEW f \in Files, f.channels = buffer.channels, f.channels <= 2,
         f.rate = samplingRate, f.whole, f.type \in SndfileFormats, Stores(f, buffer, buffer.size)
  PROVE  Wrote(f)
<1>1. f.channels \in {1, 2} /\ buffer.size \in Nat
  BY FileFacts DEF Sound
<1>2. PerPosition(f.channels) = f.channels
  BY <1>1 DEF PerPosition
<1>3. FramesOf(f) = buffer.size
  BY <1>1, <1>2 DEF Stores, FramesOf
<1>4. f.type # "FLOAT"
  BY DEF SndfileFormats
<1>5. ASSUME NEW c \in 0 .. (buffer.channels - 1), NEW i \in 0 .. (buffer.size - 1)
      PROVE  f.items[i * f.channels + c + 1] = Encoded(buffer.data[c][i])
  <2>1. f.items[f.channels * i + c + 1] = Encoded(buffer.data[c][i])
    BY <1>2 DEF Stores
  <2>2. i * f.channels + c + 1 = f.channels * i + c + 1
    BY <1>1
  <2>. QED BY <2>1, <2>2
<1>. QED BY <1>3, <1>4, <1>5 DEF Wrote

LEMMA WriteTurnKeeps ==
  ASSUME FInv, WriteTurn, UNCHANGED prudent PROVE FInv'
<1>1. /\ Running("write", "sndfile", "loop") /\ UNCHANGED <<buffer, samplingRate>>
      /\ call # NULL /\ call \in Calls /\ call.path \in Paths /\ call.op = "write" /\ call.backend = "sndfile"
      /\ call.running \in Nat /\ call.total \in Nat
      /\ disk \in [Paths -> Files \cup {NULL}] /\ Sound(buffer) /\ samplingRate \in Nat \cup {Undef}
  BY RunningFacts DEF WriteTurn
<1>2. PICK f, n, g : f = disk[call.path] /\ n = WriteLength /\ g = Stored(f, n)
  OBVIOUS
<1>3. /\ f.type \in SndfileFormats /\ f.type = call.format
      /\ f.channels = buffer.channels /\ f.rate = samplingRate
      /\ n \in Nat /\ call.running + n <= call.total /\ call.total = buffer.size
      /\ (buffer.channels = 1 => call.running + n = call.total)
      /\ g \in Files /\ g.type = f.type /\ g.channels = f.channels /\ g.rate = f.rate
      /\ Stores(g, buffer, call.running + n)
  BY <1>1, <1>2, StoredFits
<1> DEFINE next == [call EXCEPT !.running = @ + n]
<1>4. CASE buffer.channels # 1 /\ call.running + n < call.total
  <2>1. disk' = [disk EXCEPT ![call.path] = g] /\ Proceed(next)
    BY <1>2, <1>4 DEF WriteTurn
  <2>2. disk' \in [Paths -> Files \cup {NULL}] /\ g = disk'[call.path]
    BY <1>1, <1>3, <2>1
  <2>3. /\ next \in Calls /\ next.op = call.op /\ next.backend = call.backend /\ next.format = call.format
        /\ next.path = call.path /\ next.total = call.total /\ next.running = call.running + n
    BY <1>1, <1>3 DEF Calls
  <2>4. call' = next
    BY <2>1 DEF Proceed
  <2> HIDE DEF next
  <2>5. Stores(g, buffer, call.running)'
    BY <1>1, <1>3, <2>3, <2>4 DEF Stores
  <2>6. WritingTo(g)'
    BY <1>1, <1>3, <1>4, <2>3, <2>4, <2>5 DEF WritingTo
  <2>7. FullyUsed => FullyUsed'
    BY <1>1 DEF FullyUsed
  <2>. QED BY <1>1, <2>1, <2>2, <2>3, <2>6, <2>7, ProgressKeeps
<1>5. CASE ~(buffer.channels # 1 /\ call.running + n < call.total)
  <2>1. PICK h : h = Closed(g)
    OBVIOUS
  <2>2. disk' = [disk EXCEPT ![call.path] = h] /\ Return(TRUE)
    BY <1>2, <1>5, <2>1 DEF WriteTurn
  <2>3. /\ h \in Files /\ h.whole /\ h.type = g.type /\ h.channels = g.channels /\ h.rate = g.rate /\ h.items = g.items
    BY <1>3, <2>1, ClosedFits
  <2>4. disk' \in [Paths -> Files \cup {NULL}] /\ h = disk'[call.path]
    BY <1>1, <2>2, <2>3
  <2>5. call.running + n = buffer.size
    BY <1>1, <1>3, <1>5
  <2>6. Stores(h, buffer, buffer.size)
    BY <1>3, <2>3, <2>5 DEF Stores
  <2>7. Faithful => buffer.channels <= 2
    BY DEF Faithful
  <2>8. Faithful => Wrote(h)
    BY <1>1, <1>3, <2>3, <2>6, <2>7, StoresAll
  <2>9. Wrote(h)' <=> Wrote(h)
    BY <1>1 DEF Wrote
  <2>. QED BY <1>1, <2>2, <2>4, <2>8, <2>9, WriteKeeps
<1>. QED BY <1>4, <1>5

\* A write that is cut short leaves a file that is as open as it was.
LEMMA ShortFits ==
  ASSUME FInv, WriteShort
  PROVE  \E g \in Files : g.whole = disk[call.path].whole /\ disk' = [disk EXCEPT ![call.path] = g]
<1>1. /\ Running("write", "sndfile", "loop") /\ call.path \in Paths
      /\ disk \in [Paths -> Files \cup {NULL}]
  BY RunningFacts DEF WriteShort
<1>2. PICK f, n, s : f = disk[call.path] /\ n = WriteLength /\ s = Sent(n)
  OBVIOUS
<1>3. /\ f \in Files /\ f.type \in SndfileFormats /\ n \in Nat
      /\ s \in Seq(Short \cup {Undef}) /\ Len(s) = n * PerPosition(f.channels)
      /\ PerPosition(f.channels) \in {1, 2} /\ f.channels = buffer.channels
  BY <1>1, <1>2, StoredFits
<1> DEFINE count == n * PerPosition(buffer.channels)
<1>4. count \in Nat /\ count = Len(s)
  BY <1>3
<1>5. PICK took \in Taken(f, count) : disk' = [disk EXCEPT ![call.path].items = @ \o SubSeq(s, 1, took)]
  BY <1>2 DEF WriteShort
<1> HIDE DEF count
<1>6. took \in 0 .. Len(s)
  BY <1>4, <1>5 DEF Taken
<1>7. PICK part : part = SubSeq(s, 1, took)
  OBVIOUS
<1>8. part \in Seq(Short \cup {Undef})
  BY <1>3, <1>6, <1>7
<1>9. PICK items : items = f.items \o part
  OBVIOUS
<1>10. Joins(items, f.items, part)
  BY <1>3, <1>8, <1>9, Joined
<1>11. PICK g : g = [f EXCEPT !.items = items]
  OBVIOUS
<1>12. g \in Files
  BY <1>3, <1>8, <1>10, <1>11, LongerFile
<1>13. f \in [type : Formats \cup {"FLOAT"}, channels : Nat \ {0}, rate : Nat \cup {Undef},
              items : Seq(Int \cup {Undef}), whole : BOOLEAN]
  BY <1>3 DEF Files
<1>14. g.whole = f.whole
  BY <1>11, <1>13
<1>15. disk' = [disk EXCEPT ![call.path] = g]
  BY <1>1, <1>2, <1>5, <1>7, <1>9, <1>11
<1>. QED BY <1>2, <1>12, <1>14, <1>15

LEMMA WriteShortKeeps ==
  ASSUME FInv, WriteShort, UNCHANGED prudent PROVE FInv'
<1>1. /\ Running("write", "sndfile", "loop") /\ UNCHANGED <<buffer, samplingRate>>
      /\ call # NULL /\ call.path \in Paths /\ call.op = "write"
      /\ disk \in [Paths -> Files \cup {NULL}] /\ Sound(buffer) /\ samplingRate \in Nat \cup {Undef}
  BY RunningFacts DEF WriteShort
<1>2. disk' \in [Paths -> Files \cup {NULL}]
  BY <1>1, ShortFits
<1>3. CASE buffer.channels = 1
  BY <1>1, <1>2, <1>3, FailureKeeps DEF WriteShort
<1>4. CASE buffer.channels # 1
  BY <1>1, <1>2, <1>4, HaltKeeps DEF WriteShort
<1>. QED BY <1>3, <1>4

LEMMA SndfileKeeps == ASSUME FInv, SndfileNext, UNCHANGED prudent PROVE FInv'
  BY LoadCannotOpenKeeps, LoadOpenKeeps, LoadShortKeeps, LoadTurnKeeps, WriteCannotOpenKeeps,
     WriteOpenKeeps, WriteTurnKeeps, WriteShortKeeps, WriteStrayKeeps DEF SndfileNext

-----------------------------------------------------------------------------
(***************************************************************************)
(* The Vorbis decoder.                                                     *)
(***************************************************************************)
LEMMA OggCannotLoadKeeps ==
  ASSUME FInv, OggCannotLoad, UNCHANGED prudent PROVE FInv'
<1>1. Running("load", "ogg", "open") /\ Return(FALSE) /\ UNCHANGED <<disk, buffer, samplingRate>>
  BY DEF OggCannotLoad
<1>. QED BY <1>1, RunningFacts, FailureKeeps

\* What the decoder's output leaves in a buffer.
LEMMA OggFills ==
  ASSUME NEW f \in Files, f.type = "OGG", NEW b, Sound(b),
         NEW resized, resized = Buffer!Resize(b, f.channels, FramesOf(f)),
         NEW filled, filled = Buffer!Overlay(resized, OggRows(f))
  PROVE  /\ Sound(filled) /\ filled.channels = f.channels /\ filled.size = FramesOf(f)
         /\ b.usedChannels = b.channels => filled.usedChannels = f.channels
         /\ \A c \in 0 .. (f.channels - 1), i \in 0 .. (FramesOf(f) - 1) :
              filled.data[c][i] = Sample(f, f.items[i * f.channels + c + 1])
<1>1. f.channels \in Nat /\ f.channels > 0 /\ FramesOf(f) \in Nat
  BY FileFacts, FramesFit
<1>2. PICK rows : rows = OggRows(f)
  OBVIOUS
<1>3. /\ Sound(resized) /\ resized.channels = f.channels /\ resized.size = FramesOf(f)
      /\ (b.usedChannels = b.channels => resized.usedChannels = f.channels)
  <2>1. PICK frames : frames = FramesOf(f)
    OBVIOUS
  <2>2. Sound(Buffer!Resize(b, f.channels, frames))
    BY <1>1, <2>1, ResizeSound
  <2>3. /\ Buffer!Resize(b, f.channels, frames).channels = f.channels
        /\ Buffer!Resize(b, f.channels, frames).size = frames
        /\ (b.usedChannels = b.channels =>
              Buffer!Resize(b, f.channels, frames).usedChannels = f.channels)
    BY <1>1, <2>1, ResizeFields
  <2>. QED BY <2>1, <2>2, <2>3
<1>4. /\ DOMAIN rows = 0 .. (f.channels - 1)
      /\ \A c \in 0 .. (f.channels - 1) :
           /\ DOMAIN rows[c] = 0 .. (FramesOf(f) - 1)
           /\ \A i \in 0 .. (FramesOf(f) - 1) : rows[c][i] = OggDecoded(f.items[c + i * f.channels + 1])
  BY <1>2 DEF OggRows
<1>5. ASSUME NEW c \in 0 .. (f.channels - 1), NEW i \in 0 .. (FramesOf(f) - 1)
      PROVE  /\ rows[c][i] = Sample(f, f.items[i * f.channels + c + 1])
             /\ rows[c][i] \in Samples
  <2>1. f.channels * i + c + 1 \in 1 .. Len(f.items) /\ i * f.channels + c + 1 = f.channels * i + c + 1
    <3>1. f.channels \in 1 .. f.channels
      BY <1>1
    <3>. QED BY <3>1, InFile
  <2>2. c + i * f.channels + 1 = i * f.channels + c + 1
    BY <1>1
  <2>3. PICK j : j = i * f.channels + c + 1
    OBVIOUS
  <2>4. j \in 1 .. Len(f.items) /\ rows[c][i] = OggDecoded(f.items[j])
    BY <1>4, <2>1, <2>2, <2>3
  <2>. QED BY <2>3, <2>4, SampleFits
<1>6. Fitting(resized, rows)
  BY <1>4, <1>5 DEF Fitting
<1>7. filled = Buffer!Overlay(resized, rows)
  BY <1>2
<1>8. Sound(filled)
  BY <1>3, <1>6, <1>7, OverlaySound
<1>9. /\ filled.channels = f.channels /\ filled.size = FramesOf(f)
       /\ filled.usedChannels = resized.usedChannels
  BY <1>3, <1>7, OverlayFields
<1>10. ASSUME NEW c \in 0 .. (f.channels - 1), NEW i \in 0 .. (FramesOf(f) - 1)
       PROVE  filled.data[c][i] = Sample(f, f.items[i * f.channels + c + 1])
  <2>1. filled.data[c][i] = rows[c][i]
    <3>1. c \in 0 .. (resized.channels - 1) /\ i \in 0 .. (resized.size - 1)
      BY <1>3
    <3>2. c \in DOMAIN rows /\ i \in DOMAIN rows[c]
      BY <1>4
    <3>. QED BY <1>3, <1>7, <3>1, <3>2, OverlaySamples
  <2>. QED BY <1>5, <2>1
<1>. QED BY <1>3, <1>8, <1>9, <1>10

LEMMA OggLoadKeeps ==
  ASSUME FInv, OggLoad, UNCHANGED prudent PROVE FInv'
<1>1. /\ Running("load", "ogg", "open") /\ Return(TRUE) /\ UNCHANGED disk /\ samplingRate' = OggRate
      /\ call # NULL /\ call.op = "load" /\ call.path \in Paths
      /\ disk \in [Paths -> Files \cup {NULL}] /\ Sound(buffer)
  BY RunningFacts DEF OggLoad
<1>2. PICK f : f = disk[call.path]
  OBVIOUS
<1>3. f \in Files /\ f.type = "OGG"
  BY <1>1, <1>2 DEF OggLoad, DecodesOgg
<1>4. f.channels \in Nat /\ f.channels > 0 /\ FramesOf(f) \in Nat
  BY <1>3, FileFacts, FramesFit
<1>5. PICK resized, filled, o : /\ resized = Buffer!Resize(buffer, f.channels, FramesOf(f))
                               /\ filled = Buffer!Overlay(resized, OggRows(f))
                               /\ o = [filled EXCEPT !.isSilent = FALSE]
  OBVIOUS
<1>6. buffer' = o
  BY <1>2, <1>5 DEF OggLoad
<1>7. /\ Sound(o) /\ o.isSilent = FALSE /\ o.channels = f.channels /\ o.size = FramesOf(f)
      /\ \A c \in 0 .. (f.channels - 1), i \in 0 .. (FramesOf(f) - 1) :
           o.data[c][i] = Sample(f, f.items[i * f.channels + c + 1])
  <2>1. /\ Sound(filled) /\ filled.channels = f.channels /\ filled.size = FramesOf(f)
        /\ \A c \in 0 .. (f.channels - 1), i \in 0 .. (FramesOf(f) - 1) :
             filled.data[c][i] = Sample(f, f.items[i * f.channels + c + 1])
    BY <1>1, <1>3, <1>5, OggFills
  <2>2. /\ Sound(o) /\ o.isSilent = FALSE /\ o.data = filled.data
        /\ o.channels = filled.channels /\ o.size = filled.size
    BY ZenonT(30), <1>5, <2>1, FlagSound
  <2>. QED BY <2>1, <2>2
<1>8. FullyUsed' => Buffer!Heard(o) = Contents(f)
  BY <1>3, <1>6, <1>7, HeardAsStored DEF FullyUsed
<1>9. samplingRate' \in Nat \cup {Undef}
  BY <1>1 DEF OggRate
<1>. QED BY <1>1, <1>2, <1>3, <1>6, <1>7, <1>8, <1>9, LoadKeeps

-----------------------------------------------------------------------------
(***************************************************************************)
(* AudioToolbox.                                                           *)
(***************************************************************************)
LEMMA CoreLoadCannotOpenKeeps ==
  ASSUME FInv, CoreLoadCannotOpen, UNCHANGED prudent PROVE FInv'
<1>1. Running("load", "coreaudio", "open") /\ Return(FALSE) /\ UNCHANGED <<disk, buffer>>
  BY DEF CoreLoadCannotOpen
<1>2. /\ call # NULL /\ call.path \in Paths /\ disk \in [Paths -> Files \cup {NULL}]
      /\ Sound(buffer) /\ samplingRate \in Nat \cup {Undef}
  BY <1>1, RunningFacts
<1>3. ToolboxOpens(call.path) => disk[call.path].rate \in Nat \cup {Undef}
  BY <1>2, FileFacts DEF ToolboxOpens
<1>4. samplingRate' \in Nat \cup {Undef}
  BY <1>2, <1>3 DEF CoreLoadCannotOpen
<1>. QED BY <1>1, <1>2, <1>4, FailureKeeps

LEMMA CoreLoadOpenKeeps ==
  ASSUME FInv, CoreLoadOpen, UNCHANGED prudent PROVE FInv'
<1>1. Running("load", "coreaudio", "open") /\ ToolboxOpens(call.path) /\ UNCHANGED disk
  BY DEF CoreLoadOpen
<1>2. /\ call # NULL /\ call \in Calls /\ call.path \in Paths /\ call.op = "load" /\ call.backend = "coreaudio"
      /\ disk \in [Paths -> Files \cup {NULL}] /\ Sound(buffer)
  BY <1>1, RunningFacts
<1>3. PICK f \in Files : f = disk[call.path] /\ f.type # "OGG"
  BY <1>1, <1>2 DEF ToolboxOpens
<1>4. PICK frames \in LengthFrames(f) :
        /\ buffer' = Buffer!Resize(buffer, f.channels, frames)
        /\ Proceed([call EXCEPT !.stage = "loop", !.total = frames])
  BY <1>3 DEF CoreLoadOpen
<1>5. samplingRate' = f.rate
  BY <1>3 DEF CoreLoadOpen
<1>6. /\ frames \in Nat
      /\ f.type \notin Compressed => frames <= FramesOf(f) /\ (f.whole => frames = FramesOf(f))
  <2>1. CASE f.type \in Compressed
    BY <1>4, <2>1, FramesFit DEF LengthFrames
  <2>2. CASE f.type \notin Compressed
    BY <1>4, <2>2, AnnouncedFits DEF LengthFrames
  <2>. QED BY <2>1, <2>2
<1>7. f.channels \in Nat /\ f.channels > 0 /\ f.rate \in Nat \cup {Undef}
  BY FileFacts
<1> DEFINE next == [call EXCEPT !.stage = "loop", !.total = frames]
<1>8. /\ next \in Calls /\ next.op = call.op /\ next.backend = call.backend /\ next.format = call.format
      /\ next.path = call.path /\ next.total = frames
  BY <1>2, <1>6 DEF Calls
<1>9. Sound(buffer)'
  BY <1>2, <1>4, <1>6, <1>7, ResizeSound
<1>10. /\ buffer'.channels = f.channels /\ buffer'.size = frames
       /\ buffer'.isSilent = buffer.isSilent /\ (FullyUsed => FullyUsed')
  BY <1>2, <1>4, <1>6, <1>7, ResizeFields DEF FullyUsed
<1>11. call' = next /\ Proceed(next)
  BY <1>4 DEF Proceed
<1> HIDE DEF next
<1>12. LoadingFrom(f)'
  BY <1>2, <1>3, <1>5, <1>6, <1>8, <1>10, <1>11 DEF LoadingFrom
<1>13. f = disk'[call.path]
  BY <1>1, <1>3
<1>14. disk' \in [Paths -> Files \cup {NULL}] /\ samplingRate' \in Nat \cup {Undef}
  BY <1>1, <1>2, <1>5, <1>7
<1>. QED BY <1>2, <1>8, <1>9, <1>10, <1>11, <1>12, <1>13, <1>14, ProgressKeeps

\* The branches that give up and leave disk and buffer alone.
LEMMA CoreRefusedKeeps ==
  ASSUME FInv, CoreLoadRefused \/ CoreCannotCreate \/ CoreFormatRefused, UNCHANGED prudent
  PROVE  FInv'
<1>1. ASSUME NEW op, NEW stage, Running(op, "coreaudio", stage), Return(FALSE), UNCHANGED <<disk, buffer, samplingRate>>
      PROVE  FInv'
  BY <1>1, RunningFacts, FailureKeeps
<1>2. CASE CoreLoadRefused
  BY <1>1, <1>2 DEF CoreLoadRefused
<1>3. CASE CoreCannotCreate
  BY <1>1, <1>3 DEF CoreCannotCreate
<1>4. CASE CoreFormatRefused
  BY <1>1, <1>4 DEF CoreFormatRefused
<1>. QED BY <1>2, <1>3, <1>4

LEMMA CoreLoadStrayKeeps ==
  ASSUME FInv, CoreLoadStray, UNCHANGED prudent PROVE FInv'
<1>1. Running("load", "coreaudio", "loop") /\ ~ChannelsInUse /\ Halt("assert")
  BY DEF CoreLoadStray
<1>2. call # NULL /\ disk \in [Paths -> Files \cup {NULL}]
  BY <1>1, RunningFacts
<1>3. ~prudent
  BY <1>1, <1>2 DEF FInv, Prudence, FullyUsed, ChannelsInUse
<1>. QED BY <1>1, <1>2, <1>3, HaltKeeps DEF Halt

LEMMA Lesser ==
  ASSUME NEW m \in Nat, NEW n \in Nat
  PROVE  Min({m, n}) \in Nat /\ Min({m, n}) <= m /\ Min({m, n}) <= n /\ (m = n => Min({m, n}) = m)
<1>1. \E j \in {m, n} : \A k \in {m, n} : j <= k
  OBVIOUS
<1>2. Min({m, n}) \in {m, n} /\ \A k \in {m, n} : Min({m, n}) <= k
  BY <1>1 DEF Min
<1>. QED BY <1>2

\* What has been converted when the read returns, with an error or without.
LEMMA Converting ==
  ASSUME FInv, Running("load", "coreaudio", "loop"), NEW f, f = disk[call.path],
         NEW n \in Nat, n <= FramesOf(f), NEW filled, filled = Buffer!Overlay(buffer, Converted(f, n))
  PROVE  /\ f \in Files /\ f.type # "OGG" /\ FramesOf(f) \in Nat
         /\ samplingRate = f.rate /\ buffer.channels = f.channels /\ buffer.size = call.total
         /\ f.whole /\ f.type \notin Compressed => call.total = FramesOf(f)
         /\ Sound(filled) /\ filled.channels = buffer.channels
         /\ filled.usedChannels = buffer.usedChannels /\ filled.size = buffer.size
         /\ \A c \in 0 .. (f.channels - 1), i \in 0 .. (n - 1) :
              i < buffer.size => filled.data[c][i] = Sample(f, f.items[i * f.channels + c + 1])
<1>1. Sound(buffer) /\ LoadingFrom(f)
  BY RunningFacts
<1>2. /\ f \in Files /\ f.type # "OGG" /\ samplingRate = f.rate
      /\ buffer.channels = f.channels /\ buffer.size = call.total
      /\ f.whole /\ f.type \notin Compressed => call.total = FramesOf(f)
  BY <1>1 DEF LoadingFrom
<1>3. f.channels \in Nat /\ f.channels > 0 /\ FramesOf(f) \in Nat /\ buffer.size \in Nat
  BY <1>1, <1>2, FileFacts, FramesFit DEF Sound
<1>4. PICK rows : rows = Converted(f, n)
  OBVIOUS
<1>5. /\ DOMAIN rows = 0 .. (f.channels - 1)
      /\ \A c \in 0 .. (f.channels - 1) :
           /\ DOMAIN rows[c] = 0 .. (n - 1)
           /\ \A i \in 0 .. (n - 1) : rows[c][i] = Sample(f, f.items[i * f.channels + c + 1])
  BY <1>4 DEF Converted
<1>6. ASSUME NEW c \in 0 .. (f.channels - 1), NEW i \in 0 .. (n - 1)
      PROVE  rows[c][i] \in Samples
  <2>1. i \in 0 .. (FramesOf(f) - 1)
    BY <1>3
  <2>2. PICK j : j = i * f.channels + c + 1
    OBVIOUS
  <2>3. j \in 1 .. Len(f.items)
    <3>1. f.channels * i + c + 1 \in 1 .. Len(f.items) /\ i * f.channels + c + 1 = f.channels * i + c + 1
      <4>1. f.channels \in 1 .. f.channels
        BY <1>3
      <4>. QED BY <1>2, <2>1, <4>1, InFile
    <3>. QED BY <2>2, <3>1
  <2>4. rows[c][i] = Sample(f, f.items[j])
    BY <1>5, <2>2
  <2>. QED BY <1>2, <2>3, <2>4, SampleFits
<1>7. Fitting(buffer, rows)
  BY <1>5, <1>6 DEF Fitting
<1>8. Sound(filled)
  BY <1>1, <1>4, <1>7, OverlaySound
<1>9. /\ filled.channels = buffer.channels /\ filled.usedChannels = buffer.usedChannels
      /\ filled.size = buffer.size
  BY <1>1, <1>4, OverlayFields
<1>10. ASSUME NEW c \in 0 .. (f.channels - 1), NEW i \in 0 .. (n - 1), i < buffer.size
       PROVE  filled.data[c][i] = Sample(f, f.items[i * f.channels + c + 1])
  <2>1. c \in 0 .. (buffer.channels - 1) /\ i \in 0 .. (buffer.size - 1)
    BY <1>2, <1>3, <1>10
  <2>2. c \in DOMAIN rows /\ i \in DOMAIN rows[c]
    BY <1>5
  <2>3. filled.data[c][i] = rows[c][i]
    BY <1>1, <1>4, <2>1, <2>2, OverlaySamples
  <2>. QED BY <1>5, <2>3
<1>. QED BY <1>2, <1>3, <1>8, <1>9, <1>10

LEMMA CoreReadFailsKeeps ==
  ASSUME FInv, CoreReadFails, UNCHANGED prudent PROVE FInv'
<1>1. /\ Running("load", "coreaudio", "loop") /\ Return(FALSE) /\ UNCHANGED <<disk, samplingRate>>
      /\ call # NULL /\ call.total \in Nat /\ disk \in [Paths -> Files \cup {NULL}]
      /\ samplingRate \in Nat \cup {Undef} /\ LoadingFrom(disk[call.path])
  BY RunningFacts DEF CoreReadFails
<1>2. PICK f : f = disk[call.path]
  OBVIOUS
<1>3. f \in Files /\ FramesOf(f) \in Nat
  BY <1>1, <1>2, FramesFit DEF LoadingFrom
<1>4. PICK n \in 0 .. Min({call.total, FramesOf(f)}) : buffer' = Buffer!Overlay(buffer, Converted(f, n))
  BY <1>2 DEF CoreReadFails
<1>5. n \in Nat /\ n <= FramesOf(f)
  BY <1>1, <1>3, <1>4, Lesser
<1>6. Sound(buffer')
  BY <1>1, <1>2, <1>4, <1>5, Converting
<1>. QED BY <1>1, <1>6, FailureKeeps

LEMMA CoreReadKeeps ==
  ASSUME FInv, CoreRead, UNCHANGED prudent PROVE FInv'
<1>1. /\ Running("load", "coreaudio", "loop") /\ Return(TRUE) /\ UNCHANGED <<disk, samplingRate>>
      /\ call # NULL /\ call.op = "load" /\ call.total \in Nat
      /\ samplingRate \in Nat \cup {Undef} /\ LoadingFrom(disk[call.path])
  BY RunningFacts DEF CoreRead
<1>2. PICK f : f = disk[call.path]
  OBVIOUS
<1>3. f \in Files /\ FramesOf(f) \in Nat
  BY <1>1, <1>2, FramesFit DEF LoadingFrom
<1>4. PICK n : n = Min({call.total, FramesOf(f)})
  OBVIOUS
<1>5. n \in Nat /\ n <= FramesOf(f) /\ (call.total = FramesOf(f) => n = FramesOf(f))
  BY <1>1, <1>3, <1>4, Lesser
<1>6. PICK filled, o : filled = Buffer!Overlay(buffer, Converted(f, n)) /\ o = [filled EXCEPT !.isSilent = FALSE]
  OBVIOUS
<1>7. /\ f.type # "OGG" /\ samplingRate = f.rate /\ buffer.channels = f.channels /\ buffer.size = call.total
      /\ f.whole /\ f.type \notin Compressed => call.total = FramesOf(f)
      /\ Sound(filled) /\ filled.channels = buffer.channels
      /\ filled.usedChannels = buffer.usedChannels /\ filled.size = buffer.size
      /\ \A c \in 0 .. (f.channels - 1), i \in 0 .. (n - 1) :
           i < buffer.size => filled.data[c][i] = Sample(f, f.items[i * f.channels + c + 1])
  BY <1>1, <1>2, <1>5, <1>6, Converting
<1>8. /\ Sound(o) /\ o.isSilent = FALSE /\ o.data = filled.data
      /\ o.channels = filled.channels /\ o.usedChannels = filled.usedChannels /\ o.size = filled.size
  BY ZenonT(30), <1>6, <1>7, FlagSound
<1>9. buffer' = o
  BY <1>2, <1>4, <1>6 DEF CoreRead
<1>10. ASSUME Plain(f), FullyUsed' PROVE Buffer!Heard(o) = Contents(f)
  <2>1. o.usedChannels = f.channels /\ o.size = FramesOf(f) /\ n = FramesOf(f)
    BY <1>5, <1>7, <1>8, <1>9, <1>10 DEF Plain, FullyUsed
  <2>2. ASSUME NEW c \in 0 .. (f.channels - 1), NEW i \in 0 .. (FramesOf(f) - 1)
        PROVE  o.data[c][i] = Sample(f, f.items[i * f.channels + c + 1])
    BY <1>3, <1>7, <1>8, <2>1
  <2>. QED BY <1>3, <1>8, <2>1, <2>2, HeardAsStored
<1>. QED BY <1>1, <1>2, <1>7, <1>8, <1>9, <1>10, LoadKeeps

LEMMA CoreCreateKeeps ==
  ASSUME FInv, CoreCreate, UNCHANGED prudent PROVE FInv'
<1>1. /\ Running("write", "coreaudio", "open") /\ buffer.channels > 0
      /\ disk' = [disk EXCEPT ![call.path] = NewFile(call.format, buffer.channels, samplingRate)]
      /\ Proceed([call EXCEPT !.stage = "loop"])
      /\ UNCHANGED <<buffer, samplingRate>>
  BY DEF CoreCreate
<1>2. /\ call # NULL /\ call \in Calls /\ call.path \in Paths /\ call.op = "write" /\ call.backend = "coreaudio"
      /\ disk \in [Paths -> Files \cup {NULL}] /\ Sound(buffer) /\ samplingRate \in Nat \cup {Undef}
      /\ call.format \in Formats
  BY <1>1, RunningFacts DEF Calls
<1>3. buffer.channels \in Nat
  BY <1>2 DEF Sound
<1>4. PICK f : f = NewFile(call.format, buffer.channels, samplingRate)
  OBVIOUS
<1>5. f \in Files /\ f.type = call.format /\ f.channels = buffer.channels /\ f.rate = samplingRate
  BY <1>1, <1>2, <1>3, <1>4, NewFileFits
<1>6. disk' \in [Paths -> Files \cup {NULL}] /\ f = disk'[call.path]
  BY <1>1, <1>2, <1>4, <1>5
<1> DEFINE next == [call EXCEPT !.stage = "loop"]
<1>7. /\ next \in Calls /\ next.op = call.op /\ next.backend = call.backend /\ next.format = call.format
      /\ next.path = call.path
  BY <1>2 DEF Calls
<1>8. call' = next /\ Proceed(next)
  BY <1>1 DEF Proceed
<1> HIDE DEF next
<1>9. WritingTo(f)'
  BY <1>1, <1>2, <1>5, <1>7, <1>8 DEF WritingTo
<1>10. FullyUsed => FullyUsed'
  BY <1>1 DEF FullyUsed
<1>. QED BY <1>1, <1>2, <1>6, <1>7, <1>8, <1>9, <1>10, ProgressKeeps

\* Of n frames of k samples none is out of place.
LEMMA Frames ==
  ASSUME NEW k \in Nat, NEW n \in Nat, NEW j \in 1 .. (n * k)
  PROVE  k > 0 /\ (j - 1) % k \in 0 .. (k - 1) /\ (j - 1) \div k \in 0 .. (n - 1)
<1>1. k > 0
  <2>1. CASE k = 0
    BY <2>1
  <2>. QED BY <2>1
<1>2. j - 1 \in Nat /\ (j - 1) \div k \in Nat /\ (j - 1) % k \in 0 .. (k - 1) /\ k * ((j - 1) \div k) <= j - 1
  BY <1>1
<1>3. PICK q : q = (j - 1) \div k
  OBVIOUS
<1>4. q \in Nat /\ k * q <= j - 1 /\ n * k \in Nat /\ j - 1 < n * k /\ n * k = k * n
  BY <1>2, <1>3
<1>5. \A a, b, m \in Nat : a <= b => m * a <= m * b
  OBVIOUS
<1>6. q < n
  <2>1. SUFFICES ASSUME n <= q PROVE FALSE
    BY <1>4
  <2>2. PICK x, y : x = k * n /\ y = k * q
    OBVIOUS
  <2>3. x <= y /\ y <= j - 1 /\ j - 1 < x /\ x \in Nat /\ y \in Nat
    BY <1>4, <1>5, <2>1, <2>2
  <2>. QED BY <2>3
<1>. QED BY <1>1, <1>2, <1>3, <1>4, <1>6

LEMMA InterleavedFits ==
  ASSUME Sound(buffer)
  PROVE  /\ Interleaved \in Seq(Samples) /\ Len(Interleaved) = buffer.size * buffer.usedChannels
         /\ buffer.usedChannels = 1 =>
              \A i \in 0 .. (buffer.size - 1) : Interleaved[i + 1] = buffer.data[0][i]
<1>1. PICK k, n : k = buffer.usedChannels /\ n = buffer.size
  OBVIOUS
<1>2. buffer.channels \in Nat /\ k \in Nat /\ k <= buffer.channels /\ n \in Nat /\ buffer.usedSize = n /\ n * k \in Nat
  BY <1>1 DEF Sound
<1>3. Interleaved = [j \in 1 .. (n * k) |-> buffer.data[(j - 1) % k][(j - 1) \div k]]
  BY <1>1, <1>2 DEF Interleaved
<1>4. ASSUME NEW j \in 1 .. (n * k) PROVE buffer.data[(j - 1) % k][(j - 1) \div k] \in Samples
  <2>1. (j - 1) % k \in 0 .. (k - 1) /\ (j - 1) \div k \in 0 .. (n - 1)
    BY <1>2, Frames
  <2>2. (j - 1) % k \in 0 .. (buffer.channels - 1) /\ (j - 1) \div k \in 0 .. (buffer.size - 1)
    BY <1>1, <1>2, <2>1
  <2>. QED BY <2>2 DEF Sound
<1>5. Interleaved \in [1 .. (n * k) -> Samples]
  BY <1>3, <1>4
<1>6. Interleaved \in Seq(Samples) /\ Len(Interleaved) = n * k
  BY <1>2, <1>5
<1>7. ASSUME k = 1, NEW i \in 0 .. (n - 1) PROVE Interleaved[i + 1] = buffer.data[0][i]
  <2>1. PICK j : j = i + 1
    OBVIOUS
  <2>2. j \in 1 .. (n * k) /\ (j - 1) % k = 0 /\ (j - 1) \div k = i
    BY <1>2, <1>7, <2>1
  <2>3. Interleaved[j] = buffer.data[(j - 1) % k][(j - 1) \div k]
    BY <1>3, <2>2
  <2>. QED BY <2>1, <2>2, <2>3
<1>. QED BY <1>1, <1>6, <1>7

LEMMA CoreWriteStrayKeeps ==
  ASSUME FInv, CoreWriteStray, UNCHANGED prudent PROVE FInv'
<1>1. Running("write", "coreaudio", "loop") /\ buffer.usedSize > Len(Interleaved) /\ Halt("access")
  BY DEF CoreWriteStray
<1>2. /\ call # NULL /\ disk \in [Paths -> Files \cup {NULL}] /\ Sound(buffer)
      /\ WritingTo(disk[call.path])
  BY <1>1, RunningFacts
<1>3. PICK f : f = disk[call.path]
  OBVIOUS
<1>4. f.channels = buffer.channels /\ f.channels > 0
  BY <1>2, <1>3, FileFacts DEF WritingTo
<1>5. ASSUME prudent PROVE FALSE
  <2>1. buffer.usedChannels = buffer.channels
    BY <1>2, <1>5 DEF FInv, Prudence, FullyUsed
  <2>2. PICK n, k : n = buffer.size /\ k = buffer.usedChannels
    OBVIOUS
  <2>3. n \in Nat /\ k \in Nat /\ k > 0 /\ buffer.usedSize = n
    BY <1>2, <1>4, <2>1, <2>2 DEF Sound
  <2>4. n > n * k
    BY <1>1, <1>2, <2>2, <2>3, InterleavedFits
  <2>5. \A a \in Nat, b \in Nat : b > 0 => a * b >= a
    OBVIOUS
  <2>. QED BY <2>3, <2>4, <2>5
<1>. QED BY <1>1, <1>2, <1>5, HaltKeeps DEF Halt

LEMMA CoreWriteKeeps ==
  ASSUME FInv, CoreWrite, UNCHANGED prudent PROVE FInv'
<1>1. /\ Running("write", "coreaudio", "loop") /\ Return(TRUE) /\ UNCHANGED <<buffer, samplingRate>>
      /\ call # NULL /\ call.path \in Paths /\ call.op = "write" /\ call.backend = "coreaudio"
      /\ disk \in [Paths -> Files \cup {NULL}] /\ Sound(buffer) /\ samplingRate \in Nat \cup {Undef}
      /\ WritingTo(disk[call.path]) /\ buffer.usedSize <= Len(Interleaved)
      /\ call.format \in Wanted /\ ~OnLinux
  BY RunningFacts DEF CoreWrite, FInv, Sane
<1>2. PICK f : f = disk[call.path]
  OBVIOUS
<1>3. f \in Files /\ f.channels = buffer.channels /\ f.rate = samplingRate
  BY <1>1, <1>2 DEF WritingTo
<1>4. PICK n \in {SizeOfBuffer} \cup (IF "write" \in Troubles \/ call.format = "AAC" THEN 0 .. SizeOfBuffer ELSE {}) :
        disk' = [disk EXCEPT ![call.path] =
                   [@ EXCEPT !.type = "FLOAT", !.whole = TRUE, !.items = SubSeq(Interleaved, 1, n)]]
  BY DEF CoreWrite
<1>5. buffer.size \in Nat /\ buffer.usedSize = buffer.size /\ buffer.usedChannels \in Nat
      /\ buffer.channels \in Nat /\ buffer.usedChannels <= buffer.channels
  BY <1>1 DEF Sound
<1>6. n \in 0 .. buffer.size /\ (Faithful => n = buffer.size /\ buffer.channels = 1)
  BY <1>1, <1>4, <1>5 DEF SizeOfBuffer, Faithful
<1>7. PICK long, items : long = Interleaved /\ items = SubSeq(long, 1, n)
  OBVIOUS
<1>8. /\ long \in Seq(Samples) /\ Len(long) = buffer.size * buffer.usedChannels /\ buffer.size <= Len(long)
      /\ buffer.usedChannels = 1 => \A i \in 0 .. (buffer.size - 1) : long[i + 1] = buffer.data[0][i]
  BY <1>1, <1>5, <1>7, InterleavedFits
<1>9. items \in Seq(Samples) /\ Len(items) = n /\ \A j \in 1 .. n : items[j] = long[j]
  BY <1>5, <1>6, <1>7, <1>8
<1>10. PICK g : g = [f EXCEPT !.type = "FLOAT", !.whole = TRUE, !.items = items]
  OBVIOUS
<1>11. f \in [type : Formats \cup {"FLOAT"}, channels : Nat \ {0}, rate : Nat \cup {Undef},
              items : Seq(Samples), whole : BOOLEAN]
  BY <1>3 DEF Files, Samples
<1>12. /\ g \in [type : Formats \cup {"FLOAT"}, channels : Nat \ {0}, rate : Nat \cup {Undef},
                 items : Seq(Samples), whole : BOOLEAN]
       /\ g.type = "FLOAT" /\ g.whole /\ g.channels = f.channels /\ g.rate = f.rate /\ g.items = items
  BY <1>9, <1>10, <1>11
<1>13. \A j \in DOMAIN items : items[j] \in Holding("FLOAT")
  BY <1>9 DEF Holding, Samples
<1>14. g \in Files
  BY <1>12, <1>13 DEF Files, Samples
<1>15. disk' = [disk EXCEPT ![call.path] = g]
  BY <1>1, <1>2, <1>4, <1>7, <1>10
<1>16. disk' \in [Paths -> Files \cup {NULL}] /\ g = disk'[call.path]
  BY <1>1, <1>14, <1>15
<1>17. ASSUME Faithful PROVE Wrote(g)
  <2>1. n = buffer.size /\ buffer.channels = 1 /\ f.channels = 1
    BY <1>3, <1>6, <1>17
  <2>2. FramesOf(g) = buffer.size
    BY <1>5, <1>9, <1>12, <2>1 DEF FramesOf
  <2>3. ASSUME NEW c \in 0 .. (buffer.channels - 1), NEW i \in 0 .. (buffer.size - 1)
        PROVE  g.items[i * g.channels + c + 1] = buffer.data[c][i]
    <3>1. c = 0 /\ g.channels = 1 /\ i * g.channels + c + 1 = i + 1 /\ i + 1 \in 1 .. n
      BY <1>5, <1>12, <2>1
    <3>2. buffer.usedChannels = 1
      <4>1. CASE buffer.usedChannels = 0
        <5>1. Len(long) = 0
          BY <1>5, <1>8, <4>1
        <5>. QED BY <1>5, <1>8, <5>1
      <4>. QED BY <1>5, <2>1, <4>1
    <3>. QED BY <1>8, <1>9, <1>12, <3>1, <3>2
  <2>. QED BY <1>1, <1>3, <1>12, <1>14, <2>2, <2>3 DEF Wrote
<1>18. Wrote(g)' <=> Wrote(g)
  BY <1>1 DEF Wrote
<1>. QED BY <1>1, <1>16, <1>17, <1>18, WriteKeeps

LEMMA CoreAudioKeeps == ASSUME FInv, CoreAudioNext, UNCHANGED prudent PROVE FInv'
  BY CoreLoadCannotOpenKeeps, CoreLoadOpenKeeps, CoreRefusedKeeps, CoreLoadStrayKeeps,
     CoreReadFailsKeeps, CoreReadKeeps, CoreCreateKeeps, CoreWriteStrayKeeps, CoreWriteKeeps DEF CoreAudioNext

-----------------------------------------------------------------------------
LEMMA InitiallyHolds ==
  ASSUME NEW library \in Libraries, InitiallyOf(library)
  PROVE  FInv
<1>1. /\ disk = library /\ buffer = Buffer!Fresh /\ samplingRate = Undef
      /\ call = NULL /\ last = NULL /\ fault = "none"
  BY DEF InitiallyOf
<1>2. library \in [Paths -> Files \cup {NULL}]
  BY ManagerAssumption
<1>3. ~Ended("load") /\ ~Ended("write")
  BY <1>1 DEF Ended
<1>4. LoadedIsHeard /\ Recorded /\ Underway
  BY <1>1, <1>3 DEF LoadedIsHeard, Recorded, Underway
<1>5. Sane
  BY <1>1, <1>2, FreshSound DEF Sane
<1>6. Prudence
  BY <1>1 DEF Prudence
<1>. QED BY <1>4, <1>5, <1>6 DEF FInv

LEMMA InitHolds == Init => FInv
  BY InitiallyHolds DEF Init

\* Every step keeps it, whoever takes it.
LEMMA StepKeeps == FInv /\ [Next]_<<vars, prudent>> => FInv'
<1>1. SUFFICES ASSUME FInv, [Next]_<<vars, prudent>> PROVE FInv'
  OBVIOUS
<1>2. CASE Client /\ UNCHANGED prudent
  BY <1>1, <1>2, ClientKeeps
<1>3. CASE SndfileNext /\ UNCHANGED prudent
  BY <1>1, <1>3, SndfileKeeps
<1>4. CASE OggNext /\ UNCHANGED prudent
  BY <1>1, <1>4, OggCannotLoadKeeps, OggLoadKeeps DEF OggNext
<1>5. CASE CoreAudioNext /\ UNCHANGED prudent
  BY <1>1, <1>5, CoreAudioKeeps
<1>6. CASE UNCHANGED <<vars, prudent>>
  <2>1. UNCHANGED <<disk, buffer, samplingRate, call, last, fault, prudent>>
    BY <1>6 DEF vars
  <2>. QED BY <1>1, <2>1 DEF FInv, Sane, Prudence, Underway, LoadedIsHeard, Recorded, Ended, FullyUsed,
                             LoadingFrom, WritingTo, Faithful, Wrote
<1>. QED BY <1>1, <1>2, <1>3, <1>4, <1>5, <1>6 DEF Next, Codecs

\* The invariant on which the theorems below rest.
THEOREM FilesInvariant == Spec => []FInv
  BY InitHolds, StepKeeps, PTL DEF Spec

-----------------------------------------------------------------------------
(***************************************************************************)
(* What the client gets.                                                   *)
(***************************************************************************)
\* Whatever the libraries deliver and refuse, in however many turns, a load of a
\* whole, uncompressed mono or stereo file that succeeds leaves its contents to be
\* heard, and its rate.
THEOREM LoadsAreHeard == Spec => []LoadedIsHeard
  BY FilesInvariant, PTL DEF FInv

\* With a file that holds what the buffer holds, position by position, the file
\* holds what is heard.
LEMMA WroteIsHeard ==
  ASSUME Sound(buffer), NEW f, Wrote(f), ~buffer.isSilent, FullyUsed
  PROVE  HoldsWhatIsHeard(f, Buffer!Heard(buffer))
<1>1. PICK heard : heard = Buffer!Heard(buffer)
  OBVIOUS
<1>2. /\ heard.len = buffer.size
      /\ DOMAIN heard.rows = 0 .. (buffer.usedChannels - 1)
      /\ \A c \in 0 .. (buffer.usedChannels - 1) :
           /\ DOMAIN heard.rows[c] = 0 .. (buffer.size - 1)
           /\ \A i \in 0 .. (buffer.size - 1) : heard.rows[c][i] = buffer.data[c][i]
  BY <1>1 DEF Buffer!Heard, Buffer!Upto
<1>3. ASSUME NEW c \in DOMAIN heard.rows, NEW i \in DOMAIN heard.rows[c]
      PROVE  f.items[i * f.channels + c + 1] =
               IF f.type = "FLOAT" THEN heard.rows[c][i] ELSE Encoded(heard.rows[c][i])
  <2>1. c \in 0 .. (buffer.channels - 1) /\ i \in 0 .. (buffer.size - 1) /\ heard.rows[c][i] = buffer.data[c][i]
    BY <1>2, <1>3 DEF FullyUsed
  <2>. QED BY <2>1 DEF Wrote
<1>4. HoldsWhatIsHeard(f, heard)
  BY <1>2, <1>3 DEF HoldsWhatIsHeard, Wrote, FullyUsed
<1>. QED BY <1>1, <1>4

LEMMA WrittenHolds == ASSUME FInv, OnLinux PROVE WrittenIsHeard
<1>1. SUFFICES ASSUME Ended("write"), ~buffer.isSilent, FullyUsed, buffer.channels <= 2
               PROVE  HoldsWhatIsHeard(disk[last.path], Buffer!Heard(buffer))
  BY DEF WrittenIsHeard
<1>2. Faithful
  BY <1>1 DEF Faithful
<1>3. Wrote(disk[last.path]) /\ Sound(buffer)
  BY <1>1, <1>2 DEF FInv, Sane, Recorded
<1>. QED BY <1>1, <1>3, WroteIsHeard

\* With libsndfile, cut short wherever it may be, a write that succeeds leaves a
\* whole file of what is heard.
THEOREM WritesAreHeard ==
  ASSUME OnLinux
  PROVE  Spec => []WrittenIsHeard
<1>1. FInv => WrittenIsHeard
  BY WrittenHolds
<1>. QED BY <1>1, FilesInvariant, PTL

LEMMA MonoHolds ==
  ASSUME FInv, OnLinux \/ ("write" \notin Troubles /\ "AAC" \notin Wanted)
  PROVE  MonoIsWritten
<1>1. SUFFICES ASSUME buffer.channels = 1, Ended("write"), ~buffer.isSilent, FullyUsed
               PROVE  HoldsWhatIsHeard(disk[last.path], Buffer!Heard(buffer))
  BY DEF MonoIsWritten, WrittenIsHeard
<1>2. Faithful
  BY <1>1 DEF Faithful
<1>3. Wrote(disk[last.path]) /\ Sound(buffer)
  BY <1>1, <1>2 DEF FInv, Sane, Recorded
<1>. QED BY <1>1, <1>3, WroteIsHeard

\* The same of mono buffers and either library.  AudioToolbox must not cut a write
\* short, for nobody would know.
THEOREM MonoWritesAreHeard ==
  ASSUME OnLinux \/ ("write" \notin Troubles /\ "AAC" \notin Wanted)
  PROVE  Spec => []MonoIsWritten
<1>1. FInv => MonoIsWritten
  BY MonoHolds
<1>. QED BY <1>1, FilesInvariant, PTL

\* A client that loads into silent buffers, writes audible ones and has all their
\* channels in use never overruns a row nor trips an assertion.
THEOREM ProgramsStopOnShortWrites == Spec => []StopsOnlyOnShortWrites
<1>1. FInv => StopsOnlyOnShortWrites
  BY DEF FInv, Prudence, StopsOnlyOnShortWrites
<1>. QED BY <1>1, FilesInvariant, PTL

-----------------------------------------------------------------------------
(***************************************************************************)
(* Handles.                                                                *)
(***************************************************************************)
\* Who loses a handle tells the client that the call failed.
LEMMA LostByFailure ==
  ASSUME FInv, Next
  PROVE  lost' \ lost \subseteq {"decoded", "CFString"} \/ (last' # NULL /\ ~last'.ok)
<1>1. ASSUME call # NULL, Return(FALSE) PROVE last' # NULL /\ ~last'.ok
  <2>1. last' \in Ends /\ ~last'.ok
    BY <1>1, CallFacts DEF Return, Ends
  <2>. QED BY <2>1, EndIsNotNull
<1>2. CASE Client
  BY <1>2 DEF Client, loadFile, writeFile, Dispatch, Make, UseChannels, Silence, Reset, Modify
<1>3. CASE SndfileNext
  BY <1>1, <1>3 DEF SndfileNext, LoadCannotOpen, LoadOpen, LoadShort, LoadTurn, TakeIn, WriteCannotOpen,
                    WriteOpen, WriteTurn, WriteShort, WriteStray, Halt, Running
<1>4. CASE OggNext
  BY <1>4 DEF OggNext, OggCannotLoad, OggLoad
<1>5. CASE CoreAudioNext
  BY <1>1, <1>5 DEF CoreAudioNext, CoreLoadCannotOpen, CoreLoadOpen, CoreLoadRefused, CoreLoadStray,
                    CoreReadFails, CoreRead, CoreCannotCreate, CoreCreate, CoreFormatRefused,
                    CoreWriteStray, CoreWrite, Halt, Running
<1>. QED BY <1>2, <1>3, <1>4, <1>5 DEF Next, Codecs

\* A handle is lost only by a call that failed.
THEOREM HandlesStayClosed == Spec => HandlesAreClosed
<1>1. FInv /\ [Next]_<<vars, prudent>> =>
        [lost' \ lost \subseteq {"decoded", "CFString"} \/ (last' # NULL /\ ~last'.ok)]_vars
  BY LostByFailure DEF vars
<1>. QED BY <1>1, FilesInvariant, PTL DEF Spec, HandlesAreClosed

-----------------------------------------------------------------------------
(***************************************************************************)
(* Samples that nobody wrote.                                              *)
(***************************************************************************)
LEMMA AllHeard ==
  ASSUME NEW b, \A c \in 0 .. (b.usedChannels - 1), i \in 0 .. (b.size - 1) :
                  b.channels <= 2 => b.data[c][i] # Undef,
         b.channels \in Nat
  PROVE  HeardUnwritten(b) = {}
<1>1. CASE b.channels > 2
  BY <1>1 DEF HeardUnwritten
<1>2. CASE ~(b.channels > 2)
  <2>1. \A at \in (0 .. (b.usedChannels - 1)) \X (0 .. (b.size - 1)) :
          /\ at[1] \in 0 .. (b.usedChannels - 1) /\ at[2] \in 0 .. (b.size - 1)
    OBVIOUS
  <2>2. b.channels <= 2
    BY <1>2
  <2>. QED BY <1>2, <2>1, <2>2 DEF HeardUnwritten
<1>. QED BY <1>1, <1>2

\* The sample of an item that somebody wrote is a number.
LEMMA SampleIsWritten ==
  ASSUME NEW f \in Files, NEW j \in 1 .. Len(f.items), f.items[j] # Undef
  PROVE  Sample(f, f.items[j]) # Undef
<1>1. f.items[j] \in Holding(f.type) /\ Undef \notin Int
  BY FileFacts, SoundFilesAssumption
<1>2. f.items[j] \in Int
  BY SMTT(20), <1>1, Scales DEF Holding, Short
<1>3. \A k \in Int : k * (2 * (HalfScale - 1)) \in Int /\ k * (2 * HalfScale) \in Int
  BY Scales
<1>4. Decoded(f.items[j]) \in Int /\ OggDecoded(f.items[j]) \in Int
  BY <1>1, <1>2, <1>3, ScalesDivide DEF Decoded, OggDecoded
<1>. QED BY <1>1, <1>2, <1>4 DEF Sample

\* A buffer whose used channels hold the samples of such items.
LEMMA HeardAsWritten ==
  ASSUME NEW f \in Files, NEW b, Sound(b), b.channels = f.channels, b.usedChannels = b.channels,
         b.channels <= 2 => b.size <= FramesOf(f),
         \A j \in DOMAIN f.items : f.items[j] # Undef,
         \A c \in 0 .. (f.channels - 1), i \in 0 .. (b.size - 1) :
           b.channels <= 2 => b.data[c][i] = Sample(f, f.items[i * f.channels + c + 1])
  PROVE  HeardUnwritten(b) = {}
<1>1. b.channels \in Nat /\ f.channels > 0 /\ b.size \in Nat /\ FramesOf(f) \in Nat
  BY FramesFit, FileFacts DEF Sound
<1>2. DOMAIN f.items = 1 .. Len(f.items)
  BY FileFacts
<1>3. ASSUME NEW c \in 0 .. (b.usedChannels - 1), NEW i \in 0 .. (b.size - 1), b.channels <= 2
      PROVE  b.data[c][i] # Undef
  <2>1. f.channels \in 1 .. f.channels /\ c \in 0 .. (f.channels - 1) /\ i \in 0 .. (FramesOf(f) - 1)
    BY <1>1, <1>3
  <2>2. f.channels * i + c + 1 \in 1 .. Len(f.items) /\ i * f.channels + c + 1 = f.channels * i + c + 1
    BY <2>1, InFile
  <2>3. PICK j : j = i * f.channels + c + 1
    OBVIOUS
  <2>4. j \in 1 .. Len(f.items) /\ f.items[j] # Undef /\ b.data[c][i] = Sample(f, f.items[j])
    BY <1>2, <1>3, <2>1, <2>2, <2>3
  <2>. QED BY <2>4, SampleIsWritten
<1>. QED BY <1>1, <1>3, AllHeard

\* A prudent client's call that loads has found a silent buffer in full use.
LEMMA LoadsWithCare ==
  ASSUME FInv, prudent, NEW backend, NEW stage, Running("load", backend, stage)
  PROVE  buffer.isSilent /\ FullyUsed
<1>1. call # NULL /\ call.op = "load"
  BY DEF Running
<1>. QED BY <1>1 DEF FInv, Prudence

LEMMA LoadTurnAudible ==
  ASSUME FInv, FullyUsed, LoadTurn, ~HoldsUnwritten
  PROVE  buffer'.isSilent = buffer.isSilent \/ HeardUnwritten(buffer') = {}
<1>1. /\ Running("load", "sndfile", "loop")
      /\ call # NULL /\ call.op = "load" /\ call.running \in Nat /\ call.total \in Nat
      /\ LoadingFrom(disk[call.path]) /\ call.backend = "sndfile"
      /\ Sound(buffer)
  BY RunningFacts, LoadTurnIs
<1>2. PICK f : f = disk[call.path]
  OBVIOUS
<1>3. /\ f \in Files /\ call.running <= call.total /\ f.type \notin Compressed
      /\ buffer.channels = f.channels /\ buffer.size = call.total /\ call.total <= FramesOf(f)
  BY <1>1, <1>2 DEF LoadingFrom, SndfileFormats, Compressed
<1>4. \A j \in DOMAIN f.items : f.items[j] # Undef
  BY <1>1, <1>2, <1>3, FileFacts DEF HoldsUnwritten
<1>5. PICK n : n = TurnLength(call.running, call.total)
  OBVIOUS
<1>6. n \in Nat /\ call.running + n <= call.total
  BY <1>1, <1>3, <1>5, TurnFits
<1>7. PICK filled : filled = Buffer!Overlay(buffer, Received(f, n))
  OBVIOUS
<1>8. /\ Sound(filled)
      /\ filled.channels = buffer.channels /\ filled.usedChannels = buffer.usedChannels
      /\ filled.size = buffer.size /\ filled.isSilent = buffer.isSilent
      /\ Filled(filled, f, call.running + n)
  BY <1>1, <1>2, <1>6, <1>7, Receiving
<1>9. SUFFICES ASSUME ~(call.running + n < call.total) PROVE HeardUnwritten(buffer') = {}
  <2>1. call.running + n < call.total => buffer' = filled
    BY <1>2, <1>5, <1>7, LoadTurnIs DEF TakeIn
  <2>. QED BY <1>8, <2>1
<1>10. call.running + n = call.total
  BY <1>1, <1>6, <1>9
<1>11. PICK o : o = [filled EXCEPT !.isSilent = FALSE]
  OBVIOUS
<1>12. /\ Sound(o) /\ o.data = filled.data
       /\ o.channels = buffer.channels /\ o.usedChannels = buffer.usedChannels /\ o.size = buffer.size
  BY <1>8, <1>11, FlagSound
<1>13. buffer' = o
  BY <1>2, <1>5, <1>7, <1>9, <1>11, LoadTurnIs DEF TakeIn
<1>14. ASSUME NEW c \in 0 .. (f.channels - 1), NEW i \in 0 .. (o.size - 1), o.channels <= 2
       PROVE  o.data[c][i] = Sample(f, f.items[i * f.channels + c + 1])
  <2>1. f.channels \in Nat /\ f.channels > 0 /\ f.channels <= 2
    BY <1>3, <1>12, <1>14, FileFacts
  <2>2. PerPosition(f.channels) = f.channels
    BY <2>1, PositionsFit
  <2>3. i \in 0 .. (call.running + n - 1)
    BY <1>1, <1>3, <1>6, <1>10, <1>12
  <2>4. filled.data[c][i] = Sample(f, f.items[f.channels * i + c + 1])
    <3>1. \A d \in 0 .. (f.channels - 1), k \in 0 .. (call.running + n - 1) :
            filled.data[d][k] = Sample(f, f.items[f.channels * k + d + 1])
      BY <1>1, <1>6, <1>8, <2>2 DEF Filled
    <3>. QED BY <2>3, <3>1
  <2>5. i \in 0 .. (FramesOf(f) - 1) /\ f.channels \in 1 .. f.channels
    BY <1>1, <1>3, <1>12, <2>1, FramesFit
  <2>6. i * f.channels + c + 1 = f.channels * i + c + 1
    BY <1>3, <2>5, InFile
  <2>. QED BY <1>12, <2>4, <2>6
<1>15. o.usedChannels = o.channels /\ o.channels = f.channels /\ o.size <= FramesOf(f)
  BY <1>1, <1>3, <1>12 DEF FullyUsed
<1>. QED BY <1>3, <1>4, <1>12, <1>13, <1>14, <1>15, HeardAsWritten

LEMMA OggLoadAudible ==
  ASSUME FInv, FullyUsed, OggLoad
  PROVE  HeardUnwritten(buffer') = {}
<1>1. Running("load", "ogg", "open") /\ Sound(buffer) /\ call.path \in Paths /\ disk \in [Paths -> Files \cup {NULL}]
  BY RunningFacts DEF OggLoad
<1>2. PICK f : f = disk[call.path]
  OBVIOUS
<1>3. f \in Files /\ f.type = "OGG"
  BY <1>1, <1>2 DEF OggLoad, DecodesOgg
<1>4. f.channels \in Nat /\ f.channels > 0 /\ FramesOf(f) \in Nat
  BY <1>3, FileFacts, FramesFit
<1>5. PICK resized, filled, o : /\ resized = Buffer!Resize(buffer, f.channels, FramesOf(f))
                               /\ filled = Buffer!Overlay(resized, OggRows(f))
                               /\ o = [filled EXCEPT !.isSilent = FALSE]
  OBVIOUS
<1>6. buffer' = o
  BY <1>2, <1>5 DEF OggLoad
<1>7. /\ Sound(o) /\ o.channels = f.channels /\ o.usedChannels = o.channels /\ o.size = FramesOf(f)
      /\ \A c \in 0 .. (f.channels - 1), i \in 0 .. (o.size - 1) :
           o.data[c][i] = Sample(f, f.items[i * f.channels + c + 1])
  <2>1. /\ Sound(filled) /\ filled.channels = f.channels /\ filled.size = FramesOf(f)
        /\ (buffer.usedChannels = buffer.channels => filled.usedChannels = f.channels)
        /\ \A c \in 0 .. (f.channels - 1), i \in 0 .. (FramesOf(f) - 1) :
             filled.data[c][i] = Sample(f, f.items[i * f.channels + c + 1])
    BY <1>1, <1>3, <1>5, OggFills
  <2>2. Sound(filled) /\ o = [filled EXCEPT !.isSilent = FALSE]
    BY <1>5, <2>1
  <2>3. /\ Sound(o) /\ o.data = filled.data
        /\ o.channels = filled.channels /\ o.usedChannels = filled.usedChannels /\ o.size = filled.size
    BY <2>2, FlagSound
  <2>. QED BY <2>1, <2>3 DEF FullyUsed
<1>8. \A j \in DOMAIN f.items : f.items[j] # Undef
  <2>1. \A j \in 1 .. Len(f.items) : f.items[j] \in Holding(f.type) /\ DOMAIN f.items = 1 .. Len(f.items)
    BY <1>3, FileFacts
  <2>2. Holding(f.type) \subseteq Int /\ Undef \notin Int
    BY <1>3, Scales, SoundFilesAssumption DEF Holding
  <2>. QED BY <1>3, <2>1, <2>2, FileFacts
<1>9. o.size <= FramesOf(f)
  BY <1>4, <1>7
<1>. QED BY <1>3, <1>6, <1>7, <1>8, <1>9, HeardAsWritten

LEMMA CoreReadAudible ==
  ASSUME FInv, FullyUsed, CoreRead, ~HoldsUnwritten, ~EndsEarly
  PROVE  HeardUnwritten(buffer') = {}
<1>1. /\ Running("load", "coreaudio", "loop") /\ call # NULL /\ call.op = "load" /\ call.stage = "loop"
      /\ call.total \in Nat /\ LoadingFrom(disk[call.path])
  BY RunningFacts DEF CoreRead
<1>2. PICK f : f = disk[call.path]
  OBVIOUS
<1>3. f \in Files /\ FramesOf(f) \in Nat /\ call.total <= FramesOf(f)
  <2>1. f \in Files /\ (f.type \notin Compressed => call.total <= FramesOf(f))
    BY <1>1, <1>2 DEF LoadingFrom
  <2>2. f.type \in Compressed => ~(call.total > FramesOf(f))
    BY <1>1, <1>2 DEF EndsEarly
  <2>. QED BY <1>1, <2>1, <2>2, FramesFit
<1>4. \A j \in DOMAIN f.items : f.items[j] # Undef
  BY <1>1, <1>2, <1>3, FileFacts DEF HoldsUnwritten
<1>5. PICK n : n = Min({call.total, FramesOf(f)})
  OBVIOUS
<1>6. n = call.total
  <2>1. \A k \in {call.total, FramesOf(f)} : call.total <= k
    BY <1>1, <1>3
  <2>2. \A m \in {call.total, FramesOf(f)} : (\A k \in {call.total, FramesOf(f)} : m <= k) => m = call.total
    BY <1>1, <1>3
  <2>. QED BY <1>5, <2>1, <2>2 DEF Min
<1>7. PICK filled, o : filled = Buffer!Overlay(buffer, Converted(f, n)) /\ o = [filled EXCEPT !.isSilent = FALSE]
  OBVIOUS
<1>8. /\ buffer.channels = f.channels /\ buffer.size = call.total
      /\ Sound(filled) /\ filled.channels = buffer.channels
      /\ filled.usedChannels = buffer.usedChannels /\ filled.size = buffer.size
      /\ \A c \in 0 .. (f.channels - 1), i \in 0 .. (n - 1) :
           i < buffer.size => filled.data[c][i] = Sample(f, f.items[i * f.channels + c + 1])
  BY <1>1, <1>2, <1>3, <1>6, <1>7, Converting
<1>9. /\ Sound(o) /\ o.data = filled.data
      /\ o.channels = filled.channels /\ o.usedChannels = filled.usedChannels /\ o.size = filled.size
  BY ZenonT(30), <1>7, <1>8, FlagSound
<1>10. buffer' = o
  BY <1>2, <1>5, <1>7 DEF CoreRead
<1>11. o.channels = f.channels /\ o.usedChannels = o.channels /\ o.size <= FramesOf(f)
  BY <1>3, <1>8, <1>9 DEF FullyUsed
<1>12. ASSUME NEW c \in 0 .. (f.channels - 1), NEW i \in 0 .. (o.size - 1)
       PROVE  o.data[c][i] = Sample(f, f.items[i * f.channels + c + 1])
  <2>1. i \in 0 .. (n - 1) /\ i < buffer.size
    BY <1>1, <1>6, <1>8, <1>9
  <2>. QED BY <1>8, <1>9, <2>1
<1>. QED BY <1>3, <1>4, <1>9, <1>10, <1>11, <1>12, HeardAsWritten

\* The other steps of the codecs leave the flag to the last one.
LEMMA FlagStays ==
  ASSUME FInv, Codecs, ~LoadTurn, ~OggLoad, ~CoreRead
  PROVE  buffer' = buffer \/ (call # NULL /\ call.op = "load" /\ buffer'.isSilent = buffer.isSilent)
<1>1. Sound(buffer)
  BY DEF FInv, Sane
<1>2. CASE LoadOpen
  <2>1. PICK f : f = disk[call.path]
    OBVIOUS
  <2>2. Running("load", "sndfile", "open") /\ f \in Files
    BY <1>2, <2>1, RunningFacts DEF LoadOpen, Opens
  <2>3. PICK frames \in Announced(f) : buffer' = Buffer!Resize(buffer, f.channels, frames)
    BY <1>2, <2>1 DEF LoadOpen
  <2>4. frames \in Nat /\ f.channels \in Nat
    BY <2>2, AnnouncedFits, FileFacts
  <2>5. buffer'.isSilent = buffer.isSilent
    BY <1>1, <2>3, <2>4, ResizeFields
  <2>. QED BY <2>2, <2>5 DEF Running
<1>3. CASE CoreLoadOpen
  <2>1. PICK f : f = disk[call.path]
    OBVIOUS
  <2>2. Running("load", "coreaudio", "open") /\ f \in Files
    BY <1>3, <2>1, RunningFacts DEF CoreLoadOpen, ToolboxOpens
  <2>3. PICK frames \in LengthFrames(f) : buffer' = Buffer!Resize(buffer, f.channels, frames)
    BY <1>3, <2>1 DEF CoreLoadOpen
  <2>4. frames \in Nat /\ f.channels \in Nat
    BY <2>2, AnnouncedFits, FileFacts, FramesFit DEF LengthFrames
  <2>5. buffer'.isSilent = buffer.isSilent
    BY <1>1, <2>3, <2>4, ResizeFields
  <2>. QED BY <2>2, <2>5 DEF Running
<1>4. CASE LoadShort
  <2>1. call # NULL /\ call.op = "load"
    BY <1>4 DEF LoadShort, Running
  <2>2. \E rows : buffer' = Buffer!Overlay(buffer, rows) \/ buffer' = buffer
    BY <1>4, LoadShortIs
  <2>. QED BY <1>1, <2>1, <2>2, OverlayFields
<1>5. CASE CoreReadFails
  <2>1. call # NULL /\ call.op = "load"
    BY <1>5 DEF CoreReadFails, Running
  <2>2. \E rows : buffer' = Buffer!Overlay(buffer, rows)
    BY <1>5 DEF CoreReadFails
  <2>. QED BY <1>1, <2>1, <2>2, OverlayFields
<1>6. CASE SndfileNext /\ ~LoadOpen /\ ~LoadShort
  BY <1>6 DEF SndfileNext, LoadCannotOpen, WriteCannotOpen, WriteOpen, WriteTurn, WriteShort, WriteStray, Halt
<1>7. CASE OggCannotLoad
  BY <1>7 DEF OggCannotLoad
<1>8. CASE CoreAudioNext /\ ~CoreLoadOpen /\ ~CoreReadFails
  BY <1>8 DEF CoreAudioNext, CoreLoadCannotOpen, CoreLoadRefused, CoreLoadStray, CoreCannotCreate, CoreCreate,
              CoreFormatRefused, CoreWriteStray, CoreWrite, Halt
<1>. QED BY <1>2, <1>3, <1>4, <1>5, <1>6, <1>7, <1>8 DEF Codecs, OggNext

\* Between calls the client makes buffers of numbers, silences or narrows them.
LEMMA ClientAudible ==
  ASSUME FInv, Client, ~buffer'.isSilent
  PROVE  HeardUnwritten(buffer') = {} \/ (~buffer.isSilent /\ HeardUnwritten(buffer') \subseteq HeardUnwritten(buffer))
<1>1. Sound(buffer)
  BY DEF FInv, Sane
<1>2. CASE buffer' = buffer
  BY <1>2
<1>3. ASSUME NEW o \in Takes, Make(o) PROVE HeardUnwritten(buffer') = {}
  <2>1. buffer' = o
    BY <1>3 DEF Make, Modify
  <2>2. /\ o.channels \in Nat /\ o.usedChannels = o.channels
        /\ DOMAIN o.data = 0 .. (o.channels - 1)
        /\ \A c \in DOMAIN o.data : /\ DOMAIN o.data[c] = 0 .. (o.size - 1)
                                   /\ \A i \in DOMAIN o.data[c] : o.data[c][i] \in Int
    BY ManagerAssumption
  <2>3. Undef \notin Int
    BY SoundFilesAssumption
  <2>4. \A c \in 0 .. (o.usedChannels - 1), i \in 0 .. (o.size - 1) : o.data[c][i] # Undef
    BY ZenonT(30), <2>2, <2>3
  <2>5. HeardUnwritten(o) = {}
    BY <2>2, <2>4, AllHeard
  <2>. QED BY <2>1, <2>5
<1>4. ASSUME NEW n \in 0 .. 2, UseChannels(n)
      PROVE  ~buffer.isSilent /\ HeardUnwritten(buffer') \subseteq HeardUnwritten(buffer)
  <2>1. PICK o : o = Buffer!WithUsedChannels(buffer, n)
    OBVIOUS
  <2>2. n < buffer.usedChannels /\ buffer' = o
    BY <1>4, <2>1 DEF UseChannels, Modify
  <2>3. /\ o.isSilent = buffer.isSilent /\ o.channels = buffer.channels /\ o.usedChannels = n /\ o.size = buffer.size
        /\ \A c \in 0 .. (buffer.channels - 1), i \in 0 .. (buffer.size - 1) : o.data[c][i] = buffer.data[c][i]
    BY <1>1, <2>1, <2>2, NarrowedSound
  <2>4. ASSUME NEW at \in HeardUnwritten(o) PROVE at \in HeardUnwritten(buffer)
    <3>1. /\ ~(o.channels > 2) /\ at \in (0 .. (n - 1)) \X (0 .. (o.size - 1)) /\ o.data[at[1]][at[2]] = Undef
      BY <2>3 DEF HeardUnwritten
    <3>2. at[1] \in 0 .. (n - 1) /\ at[2] \in 0 .. (buffer.size - 1) /\ at = <<at[1], at[2]>>
      BY <2>3, <3>1
    <3>3. at[1] \in 0 .. (buffer.usedChannels - 1) /\ at[1] \in 0 .. (buffer.channels - 1)
      BY <1>1, <2>2, <3>2 DEF Sound
    <3>4. at \in (0 .. (buffer.usedChannels - 1)) \X (0 .. (buffer.size - 1))
      BY <3>2, <3>3
    <3>5. buffer.data[at[1]][at[2]] = Undef
      BY <2>3, <3>1, <3>2, <3>3
    <3>. QED BY <2>3, <3>1, <3>4, <3>5 DEF HeardUnwritten
  <2>. QED BY <2>2, <2>3, <2>4
<1>5. CASE Silence
  BY <1>1, <1>5, FlagSound DEF Silence, Modify
<1>6. CASE Reset
  BY <1>6 DEF Reset, Modify, Buffer!Fresh
<1>. QED BY <1>2, <1>3, <1>4, <1>5, <1>6 DEF Client, loadFile, writeFile, Dispatch

LEMMA StepAudible ==
  ASSUME FInv, Next, prudent, ~buffer'.isSilent, ~EndsEarly, ~HoldsUnwritten
  PROVE  HeardUnwritten(buffer') \subseteq (IF buffer.isSilent THEN {} ELSE HeardUnwritten(buffer))
<1>1. CASE Client
  <2>1. HeardUnwritten(buffer') = {} \/ (~buffer.isSilent /\ HeardUnwritten(buffer') \subseteq HeardUnwritten(buffer))
    BY <1>1, ClientAudible
  <2>. QED BY <2>1
<1>2. CASE LoadTurn
  <2>1. buffer.isSilent /\ FullyUsed
    BY <1>2, LoadsWithCare DEF LoadTurn
  <2>2. buffer'.isSilent # buffer.isSilent
    BY <2>1
  <2>3. HeardUnwritten(buffer') = {}
    BY <1>2, <2>1, <2>2, LoadTurnAudible
  <2>. QED BY <2>3
<1>3. CASE OggLoad
  <2>1. HeardUnwritten(buffer') = {}
    BY <1>3, LoadsWithCare, OggLoadAudible DEF OggLoad
  <2>. QED BY <2>1
<1>4. CASE CoreRead
  <2>1. HeardUnwritten(buffer') = {}
    BY <1>4, LoadsWithCare, CoreReadAudible DEF CoreRead
  <2>. QED BY <2>1
<1>5. CASE Codecs /\ ~LoadTurn /\ ~OggLoad /\ ~CoreRead
  <2>1. buffer' = buffer \/ (call # NULL /\ call.op = "load" /\ buffer'.isSilent = buffer.isSilent)
    BY <1>5, FlagStays
  <2>2. call # NULL /\ call.op = "load" => buffer.isSilent
    BY DEF FInv, Prudence
  <2>3. buffer' = buffer
    BY <2>1, <2>2
  <2>. QED BY <2>3
<1>. QED BY <1>1, <1>2, <1>3, <1>4, <1>5 DEF Next

\* In a prudent client's program no step makes a sample heard that nobody wrote,
\* but for compressed files that end early and for files that hold such samples.
THEOREM AudibleIsWritten == Spec => AudibleDefined
<1>1. ASSUME FInv, [Next]_<<vars, prudent>>
      PROVE  [prudent /\ ~buffer'.isSilent /\ ~EndsEarly /\ ~HoldsUnwritten =>
                HeardUnwritten(buffer') \subseteq (IF buffer.isSilent THEN {} ELSE HeardUnwritten(buffer))]_vars
  <2>1. CASE Next
    BY <1>1, <2>1, StepAudible
  <2>2. CASE UNCHANGED <<vars, prudent>>
    BY <2>2
  <2>. QED BY <1>1, <2>1, <2>2
<1>. QED BY <1>1, FilesInvariant, PTL DEF Spec, AudibleDefined

-----------------------------------------------------------------------------
(***************************************************************************)
(* Written and read again.                                                 *)
(***************************************************************************)
\* From the lowest to the highest number that 16 bits can hold.
Loud == -(2 * HalfScale * HalfScale) .. Unit

\* Takes that are not louder; and HalfScale is not one of the few numbers for which two
\* of its steps are too little.
Moderate ==
  /\ HalfScale >= 4
  /\ \A o \in Takes : \A c \in DOMAIN o.data : \A i \in DOMAIN o.data[c] : o.data[c][i] \in Loud

\* lrintf() is off by a half at most.
LEMMA NearestError ==
  ASSUME NEW x \in Int, NEW n \in Nat, n > 0, NEW q, q = Nearest(x, n)
  PROVE  q \in Int /\ 2 * x - 2 * (n * q) <= n /\ 2 * x - 2 * (n * q) >= -n
<1>1. PICK up : up = (2 * x + n) \div (2 * n)
  OBVIOUS
<1>2. PICK rest : rest = (2 * x + n) % (2 * n)
  OBVIOUS
<1>3. \A a \in Int, b \in Nat : b > 0 => a = b * (a \div b) + (a % b) /\ a % b \in 0 .. (b - 1) /\ a \div b \in Int
  OBVIOUS
<1>4. 2 * x + n \in Int /\ 2 * n \in Nat /\ 2 * n > 0
  OBVIOUS
<1>5. 2 * x + n = (2 * n) * up + rest /\ rest \in 0 .. (2 * n - 1) /\ up \in Int
  BY <1>1, <1>2, <1>3, <1>4
<1>6. (2 * n) * up = 2 * (n * up) /\ n * (up - 1) = n * up - n /\ n * up \in Int
  BY <1>5
<1>7. PICK u : u = n * up
  OBVIOUS
<1>8. u \in Int /\ 2 * x + n = 2 * u + rest /\ n * (up - 1) = u - n
  BY <1>5, <1>6, <1>7
<1>9. CASE q = up
  BY <1>5, <1>7, <1>8, <1>9
<1>10. CASE q = up - 1 /\ rest = 0
  BY <1>5, <1>8, <1>10
<1>11. q = up \/ (q = up - 1 /\ rest = 0)
  BY <1>1, <1>2 DEF Nearest
<1>. QED BY <1>9, <1>10, <1>11

\* A number that 16 bits can hold is stored as the nearest step.
LEMMA EncodedIsNearest ==
  ASSUME NEW x \in Loud, NEW n, n = Encoded(x)
  PROVE  /\ n \in Short /\ x # Undef
         /\ 2 * (x * (HalfScale - 1)) - 2 * (Unit * n) <= Unit
         /\ 2 * (x * (HalfScale - 1)) - 2 * (Unit * n) >= -Unit
<1>1. PICK H, h, U : H = HalfScale /\ h = HalfScale - 1 /\ U = Unit
  OBVIOUS
<1>2. H \in Nat /\ H >= 2 /\ h \in Nat /\ h = H - 1 /\ U \in Nat /\ U > 0 /\ U = h * (2 * H)
  BY <1>1, Scales
<1>3. H * H \in Int /\ 2 * H * H \in Int
  BY <1>2
<1>4. x \in Int /\ x >= -(2 * H * H) /\ x <= U
  BY <1>1, <1>2, <1>3 DEF Loud
<1>5. x # Undef
  BY <1>4, SoundFilesAssumption
<1>6. PICK y, q : y = x * h /\ q = Nearest(y, U)
  OBVIOUS
<1>7. y \in Int
  BY <1>2, <1>4, <1>6
<1>8. q \in Int /\ 2 * y - 2 * (U * q) <= U /\ 2 * y - 2 * (U * q) >= -U
  BY <1>2, <1>6, <1>7, NearestError
<1>9. \A a, b \in Int, k \in Nat : a <= b => a * k <= b * k
  OBVIOUS
<1>10. y <= U * h
  BY <1>2, <1>4, <1>6, <1>9
<1>11. y >= -(U * H)
  <2>1. -(2 * H * H) \in Int /\ (-(2 * H * H)) * h <= x * h
    BY <1>2, <1>3, <1>4, <1>9
  <2>2. (-(2 * H * H)) * h = -(U * H)
    BY <1>2
  <2>. QED BY <1>6, <2>1, <2>2
<1>12. q <= h
  <2>1. SUFFICES ASSUME q >= h + 1 PROVE FALSE
    BY <1>2, <1>8
  <2>2. U * q >= U * (h + 1) /\ U * (h + 1) = U * h + U
    <3>1. (h + 1) * U <= q * U
      BY <1>2, <1>8, <1>9, <2>1
    <3>. QED BY <1>2, <1>8, <3>1
  <2>3. PICK v, w : v = U * q /\ w = U * h
    OBVIOUS
  <2>4. v \in Int /\ w \in Int /\ v >= w + U /\ y <= w /\ 2 * y - 2 * v >= -U
    BY <1>2, <1>8, <1>10, <2>2, <2>3
  <2>. QED BY <1>2, <1>7, <2>4
<1>13. q >= -H
  <2>1. SUFFICES ASSUME q + 1 <= -H PROVE FALSE
    BY <1>2, <1>8
  <2>2. U * q + U <= -(U * H)
    <3>1. (q + 1) * U <= (-H) * U
      BY <1>2, <1>8, <1>9, <2>1
    <3>. QED BY <1>2, <1>8, <3>1
  <2>3. PICK v, w : v = U * q /\ w = U * H
    OBVIOUS
  <2>4. v \in Int /\ w \in Int /\ v + U <= -w /\ y >= -w /\ 2 * y - 2 * v <= U
    BY <1>2, <1>8, <1>11, <2>2, <2>3
  <2>. QED BY <1>2, <1>7, <2>4
<1>14. q \in -H .. (H - 1) /\ q + H \in 0 .. (2 * H - 1)
  BY <1>2, <1>8, <1>12, <1>13
<1>15. (q + H) % (2 * H) = q + H
  BY <1>2, <1>14
<1>16. Narrow(q) = q
  BY <1>1, <1>2, <1>8, <1>15 DEF Narrow
<1>17. n = q
  BY <1>1, <1>5, <1>6, <1>16 DEF Encoded
<1>. QED BY <1>1, <1>5, <1>6, <1>8, <1>14, <1>17 DEF Short

\* Read again it is two steps off at most: a half for the rounding, and what the two
\* scales differ by.
LEMMA DecodedIsNear ==
  ASSUME HalfScale >= 4, NEW x \in Loud, NEW error, error = x - Decoded(Encoded(x))
  PROVE  error * HalfScale <= 2 * Unit /\ -error * HalfScale <= 2 * Unit
<1>1. PICK H, h, U, n : H = HalfScale /\ h = HalfScale - 1 /\ U = Unit /\ n = Encoded(x)
  OBVIOUS
<1>2. H \in Nat /\ H >= 4 /\ h \in Nat /\ h >= 3 /\ h = H - 1 /\ U \in Nat /\ U = h * (2 * H)
  BY <1>1, Scales
<1>3. /\ n \in Int /\ n >= -H /\ n <= H - 1 /\ n # Undef
      /\ 2 * (x * h) - 2 * (U * n) <= U /\ 2 * (x * h) - 2 * (U * n) >= -U
  BY <1>1, <1>2, EncodedIsNearest, SoundFilesAssumption DEF Short
<1>4. x \in Int
  BY <1>1, <1>2 DEF Loud
<1>5. Decoded(n) = n * (2 * h)
  BY <1>1, <1>3, ScalesDivide DEF Decoded
<1>6. PICK nh, e : nh = n * h /\ e = error
  OBVIOUS
<1>7. nh \in Int /\ e \in Int /\ e = x - 2 * nh
  BY <1>1, <1>2, <1>3, <1>4, <1>5, <1>6
<1>8. 2 * (x * h) - 2 * (U * n) = 2 * (e * h) - 4 * nh
  <2>1. U * n = 2 * (nh * h) + 2 * nh
    BY <1>2, <1>3, <1>6
  <2>2. e * h = x * h - 2 * (nh * h)
    BY <1>2, <1>4, <1>7
  <2>3. PICK a, b, k : a = x * h /\ b = nh * h /\ k = e * h
    OBVIOUS
  <2>4. a \in Int /\ b \in Int /\ k \in Int
    BY <1>2, <1>4, <1>7, <2>3
  <2>. QED BY <1>7, <2>1, <2>2, <2>3, <2>4
<1>9. nh <= H * h /\ nh >= -(H * h) /\ U = 2 * (H * h) /\ H * h \in Nat
  BY <1>2, <1>3, <1>6
<1>10. e * h <= 3 * (H * h) /\ e * h >= -(3 * (H * h)) /\ e * h \in Int
  BY <1>2, <1>3, <1>7, <1>8, <1>9
<1>11. e <= 3 * H /\ e >= -(3 * H)
  <2>1. \A a, b \in Int, k \in Nat : k > 0 /\ a * k <= b * k => a <= b
    OBVIOUS
  <2>2. 3 * (H * h) = (3 * H) * h /\ -(3 * (H * h)) = (-(3 * H)) * h /\ 3 * H \in Int
    BY <1>2
  <2>. QED BY <1>2, <1>7, <1>10, <2>1, <2>2
<1>12. e * H <= (3 * H) * H /\ (-e) * H <= (3 * H) * H
  BY <1>2, <1>7, <1>11
<1>13. (3 * H) * H <= 2 * U
  <2>1. 3 * H <= 4 * h
    BY <1>2
  <2>2. (3 * H) * H <= (4 * h) * H
    BY <1>2, <2>1
  <2>. QED BY <1>2, <2>2
<1>. QED BY <1>1, <1>2, <1>6, <1>7, <1>12, <1>13

\* No sample of o is louder.
Quiet(o) ==
  \A c \in 0 .. (o.channels - 1), i \in 0 .. (o.size - 1) : o.data[c][i] \in Loud \cup {Undef}

LEMMA QuietOverlay ==
  ASSUME NEW o, Sound(o), Quiet(o), NEW rows,
         \A c \in DOMAIN rows : \A i \in DOMAIN rows[c] :
           c < o.channels /\ i < o.size => rows[c][i] \in Loud \cup {Undef}
  PROVE  Quiet(Buffer!Overlay(o, rows))
<1>1. Buffer!Overlay(o, rows).channels = o.channels /\ Buffer!Overlay(o, rows).size = o.size
  BY OverlayFields
<1>2. ASSUME NEW c \in 0 .. (o.channels - 1), NEW i \in 0 .. (o.size - 1)
      PROVE  Buffer!Overlay(o, rows).data[c][i] \in Loud \cup {Undef}
  <2>1. c < o.channels /\ i < o.size
    BY DEF Sound
  <2>2. o.data[c][i] \in Loud \cup {Undef}
    BY DEF Quiet
  <2>. QED BY <2>1, <2>2, OverlaySamples
<1>. QED BY <1>1, <1>2 DEF Quiet

LEMMA QuietResize ==
  ASSUME NEW o, Sound(o), Quiet(o), NEW n \in Nat, NEW s \in Nat
  PROVE  Quiet(Buffer!Resize(o, n, s))
<1>1. CASE n = o.channels /\ s = o.size
  BY <1>1 DEF Buffer!Resize
<1>2. CASE ~(n = o.channels /\ s = o.size)
  <2>1. PICK rows : rows = Buffer!Allocated(n, s)
    OBVIOUS
  <2>2. \A c \in 0 .. (n - 1), i \in 0 .. (s - 1) : rows[c][i] = Undef
    BY <2>1 DEF Buffer!Allocated, Buffer!Upto
  <2>3. Buffer!Resize(o, n, s) = [o EXCEPT !.channels = n, !.usedChannels = n, !.size = s, !.usedSize = s,
                                           !.data = rows, !.allocated = TRUE]
    BY <1>2, <2>1 DEF Buffer!Resize
  <2>4. /\ Buffer!Resize(o, n, s).channels = n /\ Buffer!Resize(o, n, s).size = s
        /\ Buffer!Resize(o, n, s).data = rows
    BY <2>3 DEF Sound, Fields
  <2>. QED BY <2>2, <2>4 DEF Quiet
<1>. QED BY <1>1, <1>2

\* What integers are read as.
LEMMA ReadsAreQuiet ==
  ASSUME NEW f \in Files, NEW j \in 1 .. Len(f.items)
  PROVE  /\ f.type \in SndfileFormats => Decoded(f.items[j]) \in Loud \cup {Undef}
         /\ f.type = "OGG" => OggDecoded(f.items[j]) \in Loud \cup {Undef}
<1>1. f.items[j] \in Holding(f.type)
  BY FileFacts
<1>2. PICK H, h, U : H = HalfScale /\ h = HalfScale - 1 /\ U = Unit
  OBVIOUS
<1>3. H \in Nat /\ H >= 2 /\ h \in Nat /\ h = H - 1 /\ U \in Nat /\ U = h * (2 * H) /\ U = H * (2 * h)
  BY <1>2, Scales
<1>4. Loud = -(2 * H * H) .. U
  BY <1>2 DEF Loud
<1>5. \A a, b \in Int, m \in Nat : a <= b => a * m <= b * m
  OBVIOUS
<1>6. ASSUME NEW k \in -H .. (H - 1) PROVE k * (2 * h) \in Loud /\ k * (2 * H) \in Loud
  <2>1. k \in Int /\ -H <= k /\ k <= h /\ -H \in Int
    BY <1>3
  <2>2. (-H) * (2 * h) <= k * (2 * h) /\ k * (2 * h) <= h * (2 * h)
    BY <1>3, <1>5, <2>1
  <2>3. (-H) * (2 * H) <= k * (2 * H) /\ k * (2 * H) <= h * (2 * H)
    BY <1>3, <1>5, <2>1
  <2>4. h * (2 * h) <= H * (2 * h)
    BY <1>3, <1>5
  <2>5. (-H) * (2 * H) <= (-H) * (2 * h)
    BY <1>3
  <2>6. (-H) * (2 * H) = -(2 * H * H) /\ -(2 * H * H) \in Int /\ k * (2 * h) \in Int /\ k * (2 * H) \in Int
    BY <1>3, <2>1
  <2>7. PICK a, b, lo : a = k * (2 * h) /\ b = k * (2 * H) /\ lo = -(2 * H * H)
    OBVIOUS
  <2>8. a \in Int /\ b \in Int /\ lo \in Int /\ lo <= a /\ lo <= b /\ a <= U /\ b <= U
    <3>1. lo <= (-H) * (2 * h) /\ (-H) * (2 * h) \in Int /\ h * (2 * h) \in Int
      BY <1>3, <2>5, <2>6, <2>7
    <3>. QED BY <1>3, <2>2, <2>3, <2>4, <2>6, <2>7, <3>1
  <2>9. Loud = lo .. U
    BY <1>4, <2>7
  <2>. QED BY <1>3, <2>7, <2>8, <2>9
<1>7. ASSUME f.type \in SndfileFormats PROVE Decoded(f.items[j]) \in Loud \cup {Undef}
  <2>1. f.items[j] \in -H .. (H - 1) \/ f.items[j] = Undef
    BY <1>1, <1>2, <1>7 DEF Holding, SndfileFormats
  <2>. QED BY <1>2, <1>6, <2>1, ScalesDivide DEF Decoded
<1>8. ASSUME f.type = "OGG" PROVE OggDecoded(f.items[j]) \in Loud \cup {Undef}
  <2>1. f.items[j] \in -H .. (H - 1)
    BY <1>1, <1>2, <1>8 DEF Holding
  <2>. QED BY <1>2, <1>6, <2>1, ScalesDivide DEF OggDecoded
<1>. QED BY <1>7, <1>8

LEMMA QuietReceiving ==
  ASSUME FInv, Quiet(buffer), Running("load", "sndfile", "loop"), NEW f, f = disk[call.path], NEW n \in Int
  PROVE  Quiet(Buffer!Overlay(buffer, Received(f, n)))
<1>1. /\ Sound(buffer) /\ LoadingFrom(f) /\ call.backend = "sndfile"
      /\ call.total \in Nat /\ call.running \in Nat
  BY RunningFacts
<1>2. /\ f \in Files /\ f.type \in SndfileFormats /\ buffer.size = call.total /\ call.total <= FramesOf(f)
  BY <1>1 DEF LoadingFrom, SndfileFormats, Compressed
<1>3. f.channels \in Nat /\ f.channels > 0 /\ FramesOf(f) \in Nat
  BY <1>2, FileFacts, FramesFit
<1>4. PICK p, rows : p = PerPosition(f.channels) /\ rows = Received(f, n)
  OBVIOUS
<1>5. p \in 1 .. f.channels
  BY <1>3, <1>4, PositionsFit
<1>6. /\ DOMAIN rows = 0 .. (p - 1)
      /\ \A c \in 0 .. (p - 1) :
           /\ DOMAIN rows[c] = call.running .. (call.running + n - 1)
           /\ \A i \in call.running .. (call.running + n - 1) : rows[c][i] = Decoded(f.items[p * i + c + 1])
  BY <1>4 DEF Received
<1>7. ASSUME NEW c \in DOMAIN rows, NEW i \in DOMAIN rows[c], i < buffer.size
      PROVE  rows[c][i] \in Loud \cup {Undef}
  <2>1. c \in 0 .. (p - 1) /\ i \in call.running .. (call.running + n - 1)
    BY <1>6
  <2>2. i \in 0 .. (FramesOf(f) - 1)
    BY <1>1, <1>2, <1>3, <1>7, <2>1
  <2>3. p * i + c + 1 \in 1 .. Len(f.items)
    BY <1>2, <1>5, <2>1, <2>2, InFile
  <2>4. rows[c][i] = Decoded(f.items[p * i + c + 1])
    BY <1>6, <2>1
  <2>. QED BY <1>2, <2>3, <2>4, ReadsAreQuiet
<1>8. Quiet(Buffer!Overlay(buffer, rows))
  BY <1>1, <1>7, QuietOverlay
<1>. QED BY <1>4, <1>8

LEMMA QuietClient ==
  ASSUME FInv, Quiet(buffer), Moderate, Client PROVE Quiet(buffer')
<1>1. Sound(buffer)
  BY DEF FInv, Sane
<1>2. CASE buffer' = buffer
  BY <1>2
<1>3. ASSUME NEW o \in Takes, Make(o) PROVE Quiet(buffer')
  <2>1. buffer' = o
    BY <1>3 DEF Make, Modify
  <2>2. /\ DOMAIN o.data = 0 .. (o.channels - 1)
        /\ \A c \in DOMAIN o.data : DOMAIN o.data[c] = 0 .. (o.size - 1)
    BY ManagerAssumption
  <2>3. \A c \in DOMAIN o.data : \A i \in DOMAIN o.data[c] : o.data[c][i] \in Loud
    BY DEF Moderate
  <2>4. ASSUME NEW c \in 0 .. (o.channels - 1), NEW i \in 0 .. (o.size - 1)
        PROVE  o.data[c][i] \in Loud
    <3>1. c \in DOMAIN o.data
      BY <2>2
    <3>2. i \in DOMAIN o.data[c]
      BY <2>2, <3>1
    <3>. QED BY <2>3, <3>1, <3>2
  <2>5. Quiet(o)
    BY <2>4 DEF Quiet
  <2>. QED BY <2>1, <2>5
<1>4. ASSUME NEW n \in 0 .. 2, UseChannels(n) PROVE Quiet(buffer')
  <2>1. n < buffer.usedChannels /\ buffer' = Buffer!WithUsedChannels(buffer, n)
    BY <1>4 DEF UseChannels, Modify
  <2>2. PICK o : o = Buffer!WithUsedChannels(buffer, n)
    OBVIOUS
  <2>3. /\ o.channels = buffer.channels /\ o.size = buffer.size
        /\ \A c \in 0 .. (buffer.channels - 1), i \in 0 .. (buffer.size - 1) : o.data[c][i] = buffer.data[c][i]
    BY <1>1, <2>1, <2>2, NarrowedSound
  <2>. QED BY <2>1, <2>2, <2>3 DEF Quiet
<1>5. ASSUME Silence PROVE Quiet(buffer')
  <2>1. PICK o : o = [buffer EXCEPT !.isSilent = TRUE]
    OBVIOUS
  <2>2. o.data = buffer.data /\ o.channels = buffer.channels /\ o.size = buffer.size
    BY <1>1, <2>1, FlagSound
  <2>3. buffer' = o
    BY <1>5, <2>1 DEF Silence, Modify
  <2>. QED BY <2>2, <2>3 DEF Quiet
<1>6. CASE Reset
  BY <1>6 DEF Reset, Modify, Buffer!Fresh, Quiet
<1>. QED BY <1>2, <1>3, <1>4, <1>5, <1>6 DEF Client, loadFile, writeFile, Dispatch

LEMMA QuietLoadOpen == ASSUME FInv, Quiet(buffer), LoadOpen PROVE Quiet(buffer')
<1>1. PICK f : f = disk[call.path]
  OBVIOUS
<1>2. f \in Files /\ Sound(buffer)
  BY <1>1, RunningFacts DEF LoadOpen, Opens
<1>3. PICK frames \in Announced(f) : buffer' = Buffer!Resize(buffer, f.channels, frames)
  BY <1>1 DEF LoadOpen
<1>4. frames \in Nat /\ f.channels \in Nat
  BY <1>2, AnnouncedFits, FileFacts
<1>. QED BY <1>2, <1>3, <1>4, QuietResize

LEMMA QuietLoadShort == ASSUME FInv, Quiet(buffer), LoadShort PROVE Quiet(buffer')
<1>1. Running("load", "sndfile", "loop")
  BY LoadShortIs
<1>2. PICK f : f = disk[call.path]
  OBVIOUS
<1>3. PICK got \in Int : buffer' = IF f.channels = 1 THEN Buffer!Overlay(buffer, Received(f, got)) ELSE buffer
  BY <1>2, LoadShortIs
<1>4. Quiet(Buffer!Overlay(buffer, Received(f, got)))
  BY <1>1, <1>2, <1>3, QuietReceiving
<1>. QED BY <1>3, <1>4

LEMMA QuietLoadTurn == ASSUME FInv, Quiet(buffer), LoadTurn PROVE Quiet(buffer')
<1>1. /\ Running("load", "sndfile", "loop") /\ call.running \in Nat /\ call.total \in Nat
      /\ LoadingFrom(disk[call.path]) /\ call.backend = "sndfile"
  BY RunningFacts, LoadTurnIs
<1>2. PICK f, n : f = disk[call.path] /\ n = TurnLength(call.running, call.total)
  OBVIOUS
<1>3. n \in Nat
  BY <1>1, <1>2, TurnFits DEF LoadingFrom
<1>4. PICK filled, o : filled = Buffer!Overlay(buffer, Received(f, n)) /\ o = [filled EXCEPT !.isSilent = FALSE]
  OBVIOUS
<1>5. Quiet(filled)
  BY <1>1, <1>2, <1>3, <1>4, QuietReceiving
<1>6. Sound(filled)
  BY <1>1, <1>2, <1>3, <1>4, Receiving
<1>7. o.data = filled.data /\ o.channels = filled.channels /\ o.size = filled.size
  BY <1>4, <1>6, FlagSound
<1>8. Quiet(o)
  BY <1>5, <1>7 DEF Quiet
<1>9. buffer' = filled \/ buffer' = o
  BY <1>2, <1>4, LoadTurnIs DEF TakeIn
<1>. QED BY <1>5, <1>8, <1>9

LEMMA QuietOggLoad == ASSUME FInv, OggLoad PROVE Quiet(buffer')
<1>1. Running("load", "ogg", "open") /\ Sound(buffer)
  BY RunningFacts DEF OggLoad
<1>2. PICK f : f = disk[call.path]
  OBVIOUS
<1>3. f \in Files /\ f.type = "OGG"
  BY <1>1, <1>2, RunningFacts DEF OggLoad, DecodesOgg
<1>4. PICK resized, filled, o : /\ resized = Buffer!Resize(buffer, f.channels, FramesOf(f))
                               /\ filled = Buffer!Overlay(resized, OggRows(f))
                               /\ o = [filled EXCEPT !.isSilent = FALSE]
  OBVIOUS
<1>5. /\ Sound(filled) /\ filled.channels = f.channels /\ filled.size = FramesOf(f)
      /\ \A c \in 0 .. (f.channels - 1), i \in 0 .. (FramesOf(f) - 1) :
           filled.data[c][i] = Sample(f, f.items[i * f.channels + c + 1])
  BY <1>1, <1>3, <1>4, OggFills
<1>6. Sound(filled) /\ o = [filled EXCEPT !.isSilent = FALSE]
  BY <1>4, <1>5
<1>7. o.data = filled.data /\ o.channels = filled.channels /\ o.size = filled.size
  BY <1>6, FlagSound
<1>8. ASSUME NEW c \in 0 .. (f.channels - 1), NEW i \in 0 .. (FramesOf(f) - 1)
      PROVE  filled.data[c][i] \in Loud \cup {Undef}
  <2>1. f.channels \in 1 .. f.channels
    BY <1>3, FileFacts
  <2>2. f.channels * i + c + 1 \in 1 .. Len(f.items) /\ i * f.channels + c + 1 = f.channels * i + c + 1
    BY <1>3, <2>1, InFile
  <2>3. PICK j : j = i * f.channels + c + 1
    OBVIOUS
  <2>4. j \in 1 .. Len(f.items) /\ filled.data[c][i] = Sample(f, f.items[j])
    BY <1>5, <2>2, <2>3
  <2>5. Sample(f, f.items[j]) = OggDecoded(f.items[j]) /\ OggDecoded(f.items[j]) \in Loud \cup {Undef}
    BY <1>3, <2>4, SampleFits, ReadsAreQuiet
  <2>. QED BY <2>4, <2>5
<1>9. Quiet(o)
  BY <1>5, <1>7, <1>8 DEF Quiet
<1>10. buffer' = o
  BY <1>2, <1>4 DEF OggLoad
<1>. QED BY <1>9, <1>10

LEMMA QuietStep ==
  ASSUME FInv, Quiet(buffer), Moderate, OnLinux, [Next]_<<vars, prudent>> PROVE Quiet(buffer')
<1>1. CASE CoreAudioNext
  <2>1. \E op, stage : Running(op, "coreaudio", stage)
    BY <1>1 DEF CoreAudioNext, CoreLoadCannotOpen, CoreLoadOpen, CoreLoadRefused, CoreLoadStray,
                CoreReadFails, CoreRead, CoreCannotCreate, CoreCreate, CoreFormatRefused,
                CoreWriteStray, CoreWrite
  <2>2. call # NULL /\ call.backend = "coreaudio"
    BY <2>1 DEF Running
  <2>. QED BY <2>2 DEF FInv, Sane
<1>2. CASE buffer' = buffer
  BY <1>2
<1>3. CASE SndfileNext /\ ~LoadOpen /\ ~LoadShort /\ ~LoadTurn
  BY <1>2, <1>3 DEF SndfileNext, LoadCannotOpen, WriteCannotOpen, WriteOpen, WriteTurn, WriteShort, WriteStray, Halt
<1>4. CASE OggCannotLoad
  BY <1>2, <1>4 DEF OggCannotLoad
<1>5. CASE UNCHANGED <<vars, prudent>>
  BY <1>2, <1>5 DEF vars
<1>6. CASE Client
  BY <1>6, QuietClient
<1>7. CASE LoadOpen \/ LoadShort \/ LoadTurn \/ OggLoad
  BY <1>7, QuietLoadOpen, QuietLoadShort, QuietLoadTurn, QuietOggLoad
<1>. QED BY <1>1, <1>3, <1>4, <1>5, <1>6, <1>7 DEF Next, Codecs, OggNext

LEMMA ReadsBack ==
  ASSUME FInv, Quiet(buffer), Moderate, OnLinux PROVE ReadsBackWithinTolerance
<1>1. SUFFICES ASSUME Ended("write"), buffer.channels <= 2, NEW f, f = disk[last.path]
               PROVE  /\ FramesOf(f) = buffer.size /\ f.rate = samplingRate
                      /\ \A c \in DOMAIN buffer.data : \A i \in DOMAIN buffer.data[c] :
                           buffer.data[c][i] # Undef =>
                             LET error == buffer.data[c][i] - Contents(f).rows[c][i]
                             IN  error * HalfScale <= 2 * Unit /\ -error * HalfScale <= 2 * Unit
  BY DEF ReadsBackWithinTolerance
<1>2. Wrote(f) /\ Sound(buffer)
  <2>1. Faithful
    BY <1>1 DEF Faithful
  <2>. QED BY <1>1, <2>1 DEF FInv, Sane, Recorded
<1>3. FramesOf(f) = buffer.size /\ f.rate = samplingRate /\ f \in Files /\ f.channels = buffer.channels
      /\ f.type \in SndfileFormats
  BY <1>2 DEF Wrote
<1>4. ASSUME NEW c \in DOMAIN buffer.data, NEW i \in DOMAIN buffer.data[c], buffer.data[c][i] # Undef,
             NEW error, error = buffer.data[c][i] - Contents(f).rows[c][i]
      PROVE  error * HalfScale <= 2 * Unit /\ -error * HalfScale <= 2 * Unit
  <2>1. c \in 0 .. (buffer.channels - 1) /\ i \in 0 .. (buffer.size - 1)
    BY <1>2 DEF Sound
  <2>2. PICK x : x = buffer.data[c][i]
    OBVIOUS
  <2>3. x \in Loud
    BY <1>4, <2>1, <2>2 DEF Quiet
  <2>4. f.items[i * f.channels + c + 1] = Encoded(x)
    <3>1. f.type # "FLOAT"
      BY <1>3 DEF SndfileFormats
    <3>. QED BY <1>2, <2>1, <2>2, <3>1 DEF Wrote
  <2>5. Contents(f).rows[c][i] = Sample(f, f.items[i * f.channels + c + 1])
    BY <1>3, <2>1 DEF Contents
  <2>6. Sample(f, Encoded(x)) = Decoded(Encoded(x))
    BY <1>3 DEF Sample, SndfileFormats
  <2>7. error = x - Decoded(Encoded(x))
    BY <1>4, <2>2, <2>4, <2>5, <2>6
  <2>. QED BY <2>3, <2>7, DecodedIsNear DEF Moderate
<1>. QED BY <1>3, <1>4

\* readWrite.cpp: a sample that 16 bits can hold, written by libsndfile and loaded again,
\* has moved by no more than 1 / 2^14, and the rows keep their size and rate.
THEOREM ReadsBack16Bits ==
  ASSUME OnLinux, Moderate
  PROVE  Spec => []ReadsBackWithinTolerance
<1>1. Init => Quiet(buffer)
  BY DEF Init, InitiallyOf, Quiet, Buffer!Fresh
<1>2. FInv /\ Quiet(buffer) /\ [Next]_<<vars, prudent>> => Quiet(buffer)'
  BY QuietStep
<1>3. FInv /\ Quiet(buffer) => ReadsBackWithinTolerance
  BY ReadsBack
<1>. QED BY <1>1, <1>2, <1>3, FilesInvariant, PTL DEF Spec

-----------------------------------------------------------------------------
(***************************************************************************)
(* The converter.  For every set of paths and files, every width of the    *)
(* samples, length of a turn and failure of the libraries: af_converter    *)
(* makes the steps of a Conversion.  It takes the file at its source;      *)
(* while it writes, nothing but its target changes; and it succeeds with a *)
(* closed, reencoded file there, or fails.  Reencoded says what is left of *)
(* a file of more than two channels.  (That it ends is not proved.)        *)
(*                                                                         *)
(* The invariant is the manager's own (FInv) and what main knows wherever  *)
(* it stands: that the call under way is the one it has made, and that     *)
(* from the end of the load on the buffer holds the file that was read,    *)
(* which the write may have overwritten by then.                           *)
(***************************************************************************)
\* The files of the library are closed, so that their headers tell their lengths.
Legible(f) == f \in Files /\ f.whole

LegibleLibraries ==
  \A library \in Libraries : \A path \in Paths : library[path] # NULL => Legible(library[path])

\* The steps that Conversion allows, without its fairness.
KeepsToConversion == Ideal!Init /\ [][Ideal!Next]_(Ideal!cvars)

-----------------------------------------------------------------------------
(***************************************************************************)
(* From the file that was read to the file that is written.                *)
(***************************************************************************)
RateOf(f) == IF f.type = "OGG" THEN OggRate ELSE f.rate

\* A buffer holds what a load takes of f, in the rows that a write stores.
Bears(o, f) ==
  /\ o.isSilent = FALSE /\ o.usedChannels = o.channels
  /\ o.channels = f.channels /\ o.size = FramesOf(f)
  /\ \A c \in 0 .. (PerPosition(f.channels) - 1), i \in 0 .. (FramesOf(f) - 1) :
       o.data[c][i] = Sample(f, f.items[Stride(f) * i + c + 1])

Holds(f) == Bears(buffer, f) /\ samplingRate = RateOf(f)

\* Every item of a file is at the place of a position and a channel.
LEMMA PlacesOf ==
  ASSUME NEW k \in {1, 2}, NEW n \in Nat, NEW j \in 1 .. (k * n)
  PROVE  /\ (j - 1) % k \in 0 .. (k - 1) /\ (j - 1) \div k \in 0 .. (n - 1)
         /\ j = k * ((j - 1) \div k) + ((j - 1) % k) + 1
<1>1. CASE k = 1
  BY <1>1
<1>2. CASE k = 2
  BY <1>2
<1>. QED BY <1>1, <1>2

\* A file that stores the whole buffer is the file that was read, reencoded.
LEMMA StoredIsReencoded ==
  ASSUME NEW f, Legible(f), Holds(f), NEW path, NEW h \in Files, h.whole, h.type = OutFormat(path),
         h.channels = buffer.channels, h.rate = samplingRate, Stores(h, buffer, buffer.size)
  PROVE  h = Reencoded(f, path)
<1>1. PICK k, n, w : k = PerPosition(f.channels) /\ n = FramesOf(f) /\ w = Stride(f)
  OBVIOUS
<1>2. f \in Files /\ k \in {1, 2} /\ n \in Nat
  BY <1>1, FileFacts, FramesFit, PositionsFit DEF Legible
<1>3. /\ buffer.size = n /\ h.channels = f.channels /\ h.rate = RateOf(f) /\ PerPosition(h.channels) = k
      /\ \A c \in 0 .. (k - 1), i \in 0 .. (n - 1) :
           buffer.data[c][i] = Sample(f, f.items[w * i + c + 1])
  BY <1>1, <1>2 DEF Holds, Bears
<1>4. /\ Len(h.items) = k * n
      /\ \A c \in 0 .. (k - 1), i \in 0 .. (n - 1) : h.items[k * i + c + 1] = Encoded(buffer.data[c][i])
  BY <1>3 DEF Stores
<1>5. /\ h.items \in Seq(Int \cup {Undef})
      /\ h \in [type : Formats \cup {"FLOAT"}, channels : Nat \ {0}, rate : Nat \cup {Undef},
                items : Seq(Int \cup {Undef}), whole : BOOLEAN]
  BY DEF Files
<1>6. ASSUME NEW j \in 1 .. (k * n)
      PROVE  h.items[j] = Encoded(Sample(f, f.items[w * ((j - 1) \div k) + ((j - 1) % k) + 1]))
  <2>1. PICK c, i : c = (j - 1) % k /\ i = (j - 1) \div k
    OBVIOUS
  <2>2. c \in 0 .. (k - 1) /\ i \in 0 .. (n - 1) /\ j = k * i + c + 1
    BY <1>2, <2>1, PlacesOf
  <2>3. h.items[j] = Encoded(buffer.data[c][i]) /\ buffer.data[c][i] = Sample(f, f.items[w * i + c + 1])
    BY <1>3, <1>4, <2>2
  <2>. QED BY <2>1, <2>3
<1>7. PICK items : items = [j \in 1 .. (k * n) |->
                              Encoded(Sample(f, f.items[w * ((j - 1) \div k) + ((j - 1) % k) + 1]))]
  OBVIOUS
<1>8. h.items = items
  <2>1. h.items = [j \in 1 .. (k * n) |-> h.items[j]]
    <3>1. h.items \in [1 .. (k * n) -> Int \cup {Undef}]
      BY <1>4, <1>5, LenProperties, ElementOfSeq
    <3>. QED BY <3>1
  <2>. QED BY <1>6, <1>7, <2>1
<1>9. Reencoded(f, path)
       = [type |-> OutFormat(path), channels |-> f.channels, rate |-> RateOf(f), items |-> items, whole |-> TRUE]
  BY <1>1, <1>7 DEF Reencoded, RateOf
<1>10. h = [type |-> h.type, channels |-> h.channels, rate |-> h.rate, items |-> h.items, whole |-> h.whole]
  BY <1>5
<1>11. h.whole = TRUE
  BY <1>5
<1>. QED BY <1>3, <1>8, <1>9, <1>10, <1>11

-----------------------------------------------------------------------------
(***************************************************************************)
(* What a step of a codec does to a call of a prudent client, on Linux.    *)
(***************************************************************************)
GoesOn == /\ call' # NULL /\ call'.op = call.op /\ call'.path = call.path /\ call'.format = call.format
          /\ call'.stage = "loop" /\ last' = NULL /\ fault' = "none"

Finishes(ok) ==
  call' = NULL /\ last' = [op |-> call.op, path |-> call.path, ok |-> ok] /\ fault' = "none"

Stops == call' = call /\ last' = NULL /\ fault' = "exit"

\* A file that is not whole is left at the call's path.
Spoils == \E g : g # NULL /\ g.whole = FALSE /\ disk' = [disk EXCEPT ![call.path] = g]

\* A whole file of all that the buffer holds is left there.
Completes == \E h \in Files : /\ h.whole /\ h.type = call.format /\ h.channels = buffer.channels
                             /\ h.rate = samplingRate /\ Stores(h, buffer, buffer.size)
                             /\ disk' = [disk EXCEPT ![call.path] = h]

LEMMA FinishFacts ==
  ASSUME FInv, NEW op, NEW backend, NEW stage, Running(op, backend, stage), NEW ok, Return(ok)
  PROVE  Finishes(ok)
  BY RunningFacts DEF Return, Finishes

LEMMA ProceedFacts ==
  ASSUME FInv, NEW op, NEW backend, NEW stage, Running(op, backend, stage), NEW next \in Calls, Proceed(next),
         next.op = call.op, next.path = call.path, next.format = call.format, next.stage = "loop"
  PROVE  GoesOn
<1>1. call' = next /\ UNCHANGED <<last, fault>> /\ next # NULL
  BY NullAssumption DEF Proceed
<1>2. fault = "none" /\ last = NULL
  BY RunningFacts, CallFacts
<1>. QED BY <1>1, <1>2 DEF GoesOn

LEMMA NoCoreAudio == ASSUME FInv, OnLinux PROVE ~CoreAudioNext
<1>1. \A op, stage : ~Running(op, "coreaudio", stage)
  BY DEF FInv, Sane, Running
<1>. QED BY <1>1 DEF CoreAudioNext, CoreLoadCannotOpen, CoreLoadOpen, CoreLoadRefused, CoreLoadStray, CoreReadFails,
            CoreRead, CoreCannotCreate, CoreCreate, CoreFormatRefused, CoreWriteStray, CoreWrite

\* A load leaves the files alone; if it succeeds, and its file was closed, the buffer
\* holds what it takes of it.
Loads == /\ disk[call.path] \in Files
         /\ disk[call.path].whole =>
              Bears(buffer', disk[call.path]) /\ samplingRate' = RateOf(disk[call.path])

LEMMA SndfileLoads ==
  ASSUME FInv, prudent, call.op = "load", SndfileNext
  PROVE  UNCHANGED disk /\ (GoesOn \/ Finishes(FALSE) \/ (Finishes(TRUE) /\ Loads))
<1>1. CASE LoadCannotOpen
  BY <1>1, FinishFacts DEF LoadCannotOpen
<1>2. CASE LoadOpen
  <2>1. Running("load", "sndfile", "open") /\ Opens(call.path) /\ UNCHANGED disk
    BY <1>2 DEF LoadOpen
  <2>2. call \in Calls /\ call.path \in Paths /\ disk \in [Paths -> Files \cup {NULL}]
    BY <2>1, RunningFacts
  <2>3. disk[call.path] \in Files
    BY <2>1, <2>2 DEF Opens
  <2>4. PICK frames \in Announced(disk[call.path]) :
          Proceed([call EXCEPT !.stage = "loop", !.total = frames, !.running = 0])
    BY <1>2 DEF LoadOpen
  <2>5. frames \in Nat
    BY <2>3, AnnouncedFits
  <2> DEFINE next == [call EXCEPT !.stage = "loop", !.total = frames, !.running = 0]
  <2>6. /\ next \in Calls /\ next.op = call.op /\ next.path = call.path /\ next.format = call.format
        /\ next.stage = "loop"
    BY <2>2, <2>5 DEF Calls
  <2>7. Proceed(next)
    BY <2>4
  <2> HIDE DEF next
  <2>. QED BY <2>1, <2>6, <2>7, ProceedFacts
<1>3. CASE LoadShort
  BY <1>3, LoadShortIs, FinishFacts
<1>4. CASE LoadTurn
  <2>1. /\ Running("load", "sndfile", "loop") /\ UNCHANGED disk
        /\ call # NULL /\ call \in Calls /\ call.path \in Paths /\ call.running \in Nat /\ call.total \in Nat
        /\ LoadingFrom(disk[call.path]) /\ call.backend = "sndfile" /\ call.stage = "loop"
    BY <1>4, LoadTurnIs, RunningFacts
  <2>2. PICK f, n : f = disk[call.path] /\ n = TurnLength(call.running, call.total)
    OBVIOUS
  <2>3. /\ f \in Files /\ f.type # "OGG" /\ call.running <= call.total
        /\ buffer.channels = f.channels /\ buffer.size = call.total /\ samplingRate = f.rate
        /\ (f.whole => call.total = FramesOf(f))
    BY <2>1, <2>2 DEF LoadingFrom, SndfileFormats, Compressed
  <2>4. n \in Nat /\ call.running + n <= call.total
    BY <2>1, <2>2, <2>3, TurnFits
  <2>5. PICK filled : filled = Buffer!Overlay(buffer, Received(f, n))
    OBVIOUS
  <2>6. /\ Sound(filled) /\ filled.channels = buffer.channels /\ filled.usedChannels = buffer.usedChannels
        /\ filled.size = buffer.size /\ Filled(filled, f, call.running + n)
    BY <2>1, <2>2, <2>4, <2>5, Receiving
  <2>7. CASE call.running + n < call.total
    <3> DEFINE next == [call EXCEPT !.running = @ + n]
    <3>1. Proceed(next)
      BY <1>4, <2>2, <2>7, LoadTurnIs DEF TakeIn
    <3>2. /\ next \in Calls /\ next.op = call.op /\ next.path = call.path /\ next.format = call.format
          /\ next.stage = "loop"
      BY <2>1, <2>4 DEF Calls
    <3> HIDE DEF next
    <3>. QED BY <2>1, <3>1, <3>2, ProceedFacts
  <2>8. CASE ~(call.running + n < call.total)
    <3>1. buffer' = [filled EXCEPT !.isSilent = FALSE] /\ Return(TRUE) /\ samplingRate' = samplingRate
      BY <1>4, <2>2, <2>5, <2>8, LoadTurnIs DEF TakeIn
    <3>2. PICK o : o = [filled EXCEPT !.isSilent = FALSE]
      OBVIOUS
    <3>3. /\ o.isSilent = FALSE /\ o.channels = filled.channels /\ o.usedChannels = filled.usedChannels
          /\ o.data = filled.data /\ o.size = filled.size
      BY <2>6, <3>2, FlagSound
    <3>4. buffer.usedChannels = buffer.channels
      BY <2>1 DEF FInv, Prudence, FullyUsed
    <3>5. ASSUME f.whole PROVE Bears(o, f) /\ samplingRate = RateOf(f)
      <4>1. call.running + n = FramesOf(f) /\ Stride(f) = PerPosition(f.channels)
        BY <2>1, <2>3, <2>4, <2>8, <3>5 DEF Stride
      <4>2. \A c \in 0 .. (PerPosition(f.channels) - 1), i \in 0 .. (FramesOf(f) - 1) :
              o.data[c][i] = Sample(f, f.items[Stride(f) * i + c + 1])
        BY <2>6, <3>3, <4>1 DEF Filled
      <4>. QED BY <2>3, <2>6, <3>3, <3>4, <3>5, <4>2 DEF Bears, RateOf
    <3>6. Loads
      BY <2>2, <2>3, <3>1, <3>2, <3>5 DEF Loads
    <3>. QED BY <2>1, <3>1, <3>6, FinishFacts
  <2>. QED BY <2>7, <2>8
<1>5. ~(WriteCannotOpen \/ WriteOpen \/ WriteTurn \/ WriteShort \/ WriteStray)
  BY DEF WriteCannotOpen, WriteOpen, WriteTurn, WriteShort, WriteStray, Running
<1>. QED BY <1>1, <1>2, <1>3, <1>4, <1>5 DEF SndfileNext

LEMMA OggLoads ==
  ASSUME FInv, prudent, call.op = "load", OggNext
  PROVE  UNCHANGED disk /\ (GoesOn \/ Finishes(FALSE) \/ (Finishes(TRUE) /\ Loads))
<1>1. CASE OggCannotLoad
  BY <1>1, FinishFacts DEF OggCannotLoad
<1>2. CASE OggLoad
  <2>1. /\ Running("load", "ogg", "open") /\ Return(TRUE) /\ UNCHANGED disk
        /\ call # NULL /\ call.path \in Paths /\ disk \in [Paths -> Files \cup {NULL}] /\ Sound(buffer)
    BY <1>2, RunningFacts DEF OggLoad
  <2>2. PICK f : f = disk[call.path]
    OBVIOUS
  <2>3. f \in Files /\ f.type = "OGG"
    BY <1>2, <2>1, <2>2 DEF OggLoad, DecodesOgg
  <2>4. PICK resized, filled, o : /\ resized = Buffer!Resize(buffer, f.channels, FramesOf(f))
                                 /\ filled = Buffer!Overlay(resized, OggRows(f))
                                 /\ o = [filled EXCEPT !.isSilent = FALSE]
    OBVIOUS
  <2>5. buffer' = o
    BY <1>2, <2>2, <2>4 DEF OggLoad
  <2>6. buffer.usedChannels = buffer.channels
    BY <2>1 DEF FInv, Prudence, FullyUsed
  <2>7. /\ Sound(filled) /\ filled.channels = f.channels /\ filled.usedChannels = f.channels
        /\ filled.size = FramesOf(f)
        /\ \A c \in 0 .. (f.channels - 1), i \in 0 .. (FramesOf(f) - 1) :
             filled.data[c][i] = Sample(f, f.items[i * f.channels + c + 1])
    BY <2>1, <2>3, <2>4, <2>6, OggFills
  <2>8. /\ o.isSilent = FALSE /\ o.channels = f.channels /\ o.usedChannels = f.channels
        /\ o.data = filled.data /\ o.size = FramesOf(f)
    <3>1. Sound(filled) /\ o = [filled EXCEPT !.isSilent = FALSE]
      BY <2>4, <2>7
    <3>. QED BY <2>7, <3>1, FlagSound
  <2>9. ASSUME NEW c \in 0 .. (PerPosition(f.channels) - 1), NEW i \in 0 .. (FramesOf(f) - 1)
        PROVE  o.data[c][i] = Sample(f, f.items[Stride(f) * i + c + 1])
    <3>1. f.channels \in Nat /\ f.channels > 0 /\ Stride(f) = f.channels
      BY <2>3, FileFacts DEF Stride
    <3>2. c \in 0 .. (f.channels - 1) /\ f.channels \in 1 .. f.channels
      BY <3>1, PositionsFit
    <3>3. i * f.channels + c + 1 = f.channels * i + c + 1
      BY <2>3, <3>2, InFile
    <3>4. filled.data[c][i] = Sample(f, f.items[i * f.channels + c + 1])
      BY <2>7, <3>2
    <3>. QED BY <2>8, <3>1, <3>3, <3>4
  <2>10. Bears(o, f) /\ samplingRate' = RateOf(f)
    BY <1>2, <2>3, <2>8, <2>9 DEF Bears, RateOf, OggLoad
  <2>11. Loads
    BY <2>2, <2>3, <2>5, <2>10 DEF Loads
  <2>. QED BY <2>1, <2>11, FinishFacts
<1>. QED BY <1>1, <1>2 DEF OggNext

\* A write leaves the buffer alone and, while it has not succeeded, no whole file.
Writes == \/ Finishes(FALSE) /\ UNCHANGED disk
          \/ Spoils /\ (GoesOn \/ Finishes(FALSE) \/ Stops)
          \/ Completes /\ Finishes(TRUE)

LEMMA SndfileWrites ==
  ASSUME FInv, prudent, call.op = "write", SndfileNext,
         call.stage = "loop" => disk[call.path].whole = FALSE
  PROVE  UNCHANGED <<buffer, samplingRate>> /\ Writes
<1>1. CASE WriteCannotOpen
  BY <1>1, FinishFacts DEF WriteCannotOpen, Writes
<1>2. CASE WriteOpen
  <2>1. /\ Running("write", "sndfile", "open") /\ buffer.channels > 0 /\ UNCHANGED <<buffer, samplingRate>>
        /\ disk' = [disk EXCEPT ![call.path] = NewFile(call.format, buffer.channels, samplingRate)]
        /\ Proceed([call EXCEPT !.stage = "loop", !.total = buffer.size, !.running = 0])
    BY <1>2 DEF WriteOpen
  <2>2. call \in Calls /\ call.format \in Formats /\ Sound(buffer) /\ samplingRate \in Nat \cup {Undef}
    BY <2>1, RunningFacts DEF Calls
  <2>3. buffer.channels \in Nat /\ buffer.size \in Nat
    BY <2>2 DEF Sound
  <2>4. PICK f : f = NewFile(call.format, buffer.channels, samplingRate)
    OBVIOUS
  <2>5. f \in Files
    BY <2>1, <2>2, <2>3, <2>4, NewFileFits
  <2>6. f # NULL /\ f.whole = FALSE
    BY <2>4, <2>5, NullAssumption DEF NewFile
  <2> DEFINE next == [call EXCEPT !.stage = "loop", !.total = buffer.size, !.running = 0]
  <2>7. /\ next \in Calls /\ next.op = call.op /\ next.path = call.path /\ next.format = call.format
        /\ next.stage = "loop"
    BY <2>2, <2>3 DEF Calls
  <2>8. Proceed(next)
    BY <2>1
  <2> HIDE DEF next
  <2>9. GoesOn
    BY <2>1, <2>7, <2>8, ProceedFacts
  <2>10. Spoils
    BY <2>1, <2>4, <2>6 DEF Spoils
  <2>. QED BY <2>1, <2>9, <2>10 DEF Writes
<1>3. CASE WriteTurn
  <2>1. /\ Running("write", "sndfile", "loop") /\ UNCHANGED <<buffer, samplingRate>>
        /\ call # NULL /\ call \in Calls /\ call.path \in Paths /\ call.stage = "loop"
        /\ call.running \in Nat /\ call.total \in Nat
    BY <1>3, RunningFacts DEF WriteTurn
  <2>2. PICK f, n, g : f = disk[call.path] /\ n = WriteLength /\ g = Stored(f, n)
    OBVIOUS
  <2>3. /\ f \in Files /\ f.type = call.format /\ f.channels = buffer.channels /\ f.rate = samplingRate
        /\ n \in Nat /\ call.running + n <= call.total /\ call.total = buffer.size
        /\ (buffer.channels = 1 => call.running + n = call.total)
        /\ g \in Files /\ g.type = f.type /\ g.channels = f.channels /\ g.rate = f.rate
        /\ Stores(g, buffer, call.running + n)
    BY <2>1, <2>2, StoredFits
  <2>4. CASE buffer.channels # 1 /\ call.running + n < call.total
    <3> DEFINE next == [call EXCEPT !.running = @ + n]
    <3>1. disk' = [disk EXCEPT ![call.path] = g] /\ Proceed(next)
      BY <1>3, <2>2, <2>4 DEF WriteTurn
    <3>2. /\ next \in Calls /\ next.op = call.op /\ next.path = call.path /\ next.format = call.format
          /\ next.stage = "loop"
      BY <2>1, <2>3 DEF Calls
    <3> HIDE DEF next
    <3>3. GoesOn
      BY <2>1, <3>1, <3>2, ProceedFacts
    <3>4. g # NULL /\ g.whole = FALSE
      <4>1. f.whole = FALSE
        BY <2>1, <2>2
      <4>2. f \in [type : Formats \cup {"FLOAT"}, channels : Nat \ {0}, rate : Nat \cup {Undef},
                   items : Seq(Int \cup {Undef}), whole : BOOLEAN]
        BY <2>3 DEF Files
      <4>3. g.whole = f.whole
        BY <2>2, <4>2 DEF Stored
      <4>. QED BY <2>3, <4>1, <4>3, NullAssumption
    <3>5. Spoils
      BY <3>1, <3>4 DEF Spoils
    <3>. QED BY <2>1, <3>3, <3>5 DEF Writes
  <2>5. CASE ~(buffer.channels # 1 /\ call.running + n < call.total)
    <3>1. PICK h : h = Closed(g)
      OBVIOUS
    <3>2. disk' = [disk EXCEPT ![call.path] = h] /\ Return(TRUE)
      BY <1>3, <2>2, <2>5, <3>1 DEF WriteTurn
    <3>3. /\ h \in Files /\ h.whole /\ h.type = g.type /\ h.channels = g.channels /\ h.rate = g.rate
          /\ h.items = g.items
      BY <2>3, <3>1, ClosedFits
    <3>4. call.running + n = buffer.size
      BY <2>1, <2>3, <2>5
    <3>5. Stores(h, buffer, buffer.size)
      BY <2>3, <3>3, <3>4 DEF Stores
    <3>6. Completes
      BY <2>3, <3>2, <3>3, <3>5 DEF Completes
    <3>7. Finishes(TRUE)
      BY <2>1, <3>2, FinishFacts
    <3>. QED BY <2>1, <3>6, <3>7 DEF Writes
  <2>. QED BY <2>4, <2>5
<1>4. CASE WriteShort
  <2>1. /\ Running("write", "sndfile", "loop") /\ UNCHANGED <<buffer, samplingRate>>
        /\ call # NULL /\ call.path \in Paths /\ call.stage = "loop" /\ last = NULL
        /\ disk \in [Paths -> Files \cup {NULL}]
    BY <1>4, RunningFacts, CallFacts DEF WriteShort
  <2>2. PICK g \in Files : g.whole = disk[call.path].whole /\ disk' = [disk EXCEPT ![call.path] = g]
    BY <1>4, ShortFits
  <2>3. Spoils
    BY <2>1, <2>2, NullAssumption DEF Spoils
  <2>4. CASE buffer.channels = 1
    <3>1. Finishes(FALSE)
      BY <1>4, <2>1, <2>4, FinishFacts DEF WriteShort
    <3>. QED BY <2>1, <2>3, <3>1 DEF Writes
  <2>5. CASE buffer.channels # 1
    <3>1. Stops
      BY <1>4, <2>1, <2>5 DEF WriteShort, Stops
    <3>. QED BY <2>1, <2>3, <3>1 DEF Writes
  <2>. QED BY <2>4, <2>5
<1>5. ~(LoadCannotOpen \/ LoadOpen \/ LoadShort \/ LoadTurn)
  BY DEF LoadCannotOpen, LoadOpen, LoadShort, LoadTurn, Running
<1>6. ~WriteStray
  <2>1. ASSUME WriteStray PROVE FALSE
    <3>1. Running("write", "sndfile", "loop") /\ ~(WriteReaches /\ (buffer.channels = 1 => buffer.usedChannels > 0))
      <4>1. CASE buffer.channels = 1 /\ buffer.usedChannels = 0
        BY <2>1, <4>1 DEF WriteStray
      <4>2. CASE ~(buffer.channels = 1 /\ buffer.usedChannels = 0)
        BY <2>1, <4>2 DEF WriteStray
      <4>. QED BY <4>1, <4>2
    <3>. QED BY <3>1, WriteReachesIn
  <2>. QED BY <2>1
<1>. QED BY <1>1, <1>2, <1>3, <1>4, <1>5, <1>6 DEF SndfileNext

-----------------------------------------------------------------------------
(***************************************************************************)
(* Conversion's side of a step.                                            *)
(***************************************************************************)
Waits == step = "writing" /\ Returned /\ last.ok

LEMMA PhaseIs ==
  ASSUME ConverterAssumption
  PROVE  /\ status = NULL /\ Waits => Phase = "delivered"
         /\ status = NULL /\ step = "writing" /\ ~Waits => Phase = "taken"
         /\ status = NULL /\ step = "loading" /\ Returned /\ last.ok => Phase = "taken"
         /\ status = NULL /\ step = "loading" /\ ~(Returned /\ last.ok) => Phase = "begun"
         /\ status = NULL /\ step = "begin" => Phase = "begun"
         /\ status = 0 => Phase = "succeeded"
         /\ status = 1 => Phase = "failed"
  BY DEF ConverterAssumption, Phase, Loaded, Written, Waits

Fixed == UNCHANGED <<source, target, original>>

LEMMA StutterMaps ==
  ASSUME Fixed, UNCHANGED disk, Phase' = Phase
  PROVE  UNCHANGED Ideal!cvars
  BY DEF Fixed, Ideal!cvars

LEMMA TakeMaps ==
  ASSUME Fixed, UNCHANGED disk, Phase = "begun", Phase' = "taken",
         source \in Paths, original = Whole(disk[source])
  PROVE  Ideal!Take
  BY DEF Fixed, Ideal!Take

LEMMA FailMaps ==
  ASSUME Fixed, UNCHANGED disk, Phase \in {"begun", "taken"}, Phase' = "failed"
  PROVE  Ideal!Fail
  BY DEF Fixed, Ideal!Fail

LEMMA SucceedMaps ==
  ASSUME Fixed, UNCHANGED disk, Phase = "delivered", Phase' = "succeeded"
  PROVE  Ideal!Succeed
  BY DEF Fixed, Ideal!Succeed

\* A file put at the target.
LEMMA PutMaps ==
  ASSUME disk \in [Paths -> Files \cup {NULL}], target \in Paths, NEW g, disk' = [disk EXCEPT ![target] = g]
  PROVE  [p \in Paths |-> Whole(disk[p])]' = [[p \in Paths |-> Whole(disk[p])] EXCEPT ![target] = Whole(g)]
<1>1. \A p \in Paths : disk'[p] = IF p = target THEN g ELSE disk[p]
  OBVIOUS
<1>. QED BY <1>1

LEMMA SpoilMaps ==
  ASSUME Fixed, disk \in [Paths -> Files \cup {NULL}], target \in Paths, call.path = target, Spoils,
         Phase = "taken", Phase' = "taken"
  PROVE  Ideal!Spoil
<1>1. PICK g : g # NULL /\ g.whole = FALSE /\ disk' = [disk EXCEPT ![target] = g]
  BY DEF Spoils
<1>2. Whole(g) = Undef
  BY <1>1 DEF Whole
<1>. QED BY <1>1, <1>2, PutMaps DEF Fixed, Ideal!Spoil, Ideal!Put

LEMMA DeliverMaps ==
  ASSUME Fixed, disk \in [Paths -> Files \cup {NULL}], target \in Paths, call.path = target, Completes,
         call.format = OutFormat(target), Legible(original), Holds(original),
         Phase = "taken", Phase' = "delivered"
  PROVE  Ideal!Deliver
<1>1. PICK h \in Files : /\ h.whole /\ h.type = OutFormat(target) /\ h.channels = buffer.channels
                         /\ h.rate = samplingRate /\ Stores(h, buffer, buffer.size)
                         /\ disk' = [disk EXCEPT ![target] = h]
  BY DEF Completes
<1>2. h = Reencoded(original, target)
  BY <1>1, StoredIsReencoded
<1>3. Whole(h) = Reencoded(original, target)
  BY <1>1, <1>2 DEF Whole
<1>. QED BY <1>1, <1>3, PutMaps DEF Fixed, Ideal!Deliver, Ideal!Put

-----------------------------------------------------------------------------
(***************************************************************************)
(* What main knows, and its steps.                                         *)
(***************************************************************************)
AtBegin == Idle /\ last = NULL /\ buffer.isSilent = TRUE /\ FullyUsed /\ original = disk[source]

AtLoad == /\ original = disk[source]
          /\ call # NULL => call.op = "load" /\ call.path = source
          /\ call = NULL => last # NULL /\ (last.ok => original # NULL /\ Holds(original))

AtWrite == /\ original # NULL /\ Holds(original)
           /\ call # NULL => /\ call.op = "write" /\ call.path = target /\ call.format = OutFormat(target)
                             /\ call.stage = "loop" => disk[target].whole = FALSE
           /\ call = NULL => last # NULL

AtEnd == fault # "none" \/ call = NULL

Knows ==
  /\ prudent = TRUE /\ source \in Paths /\ target \in Paths
  /\ original # NULL => Legible(original)
  /\ \/ step = "begin" /\ status = NULL /\ AtBegin
     \/ step = "loading" /\ status = NULL /\ AtLoad
     \/ step = "writing" /\ status = NULL /\ AtWrite
     \/ step = "ended" /\ status \in {0, 1} /\ AtEnd

CInv == FInv /\ Knows

LEMMA CodecsRun == Codecs => call # NULL /\ fault = "none"
<1>1. \A op, backend, stage : Running(op, backend, stage) => call # NULL /\ fault = "none"
  BY DEF Running
<1>2. SndfileNext => call # NULL /\ fault = "none"
  BY <1>1 DEF SndfileNext, LoadCannotOpen, LoadOpen, LoadShort, LoadTurn, WriteCannotOpen, WriteOpen, WriteTurn,
              WriteShort, WriteStray
<1>3. OggNext => call # NULL /\ fault = "none"
  BY <1>1 DEF OggNext, OggCannotLoad, OggLoad
<1>4. CoreAudioNext => call # NULL /\ fault = "none"
  BY <1>1 DEF CoreAudioNext, CoreLoadCannotOpen, CoreLoadOpen, CoreLoadRefused, CoreLoadStray, CoreReadFails,
              CoreRead, CoreCannotCreate, CoreCreate, CoreFormatRefused, CoreWriteStray, CoreWrite
<1>. QED BY <1>2, <1>3, <1>4 DEF Codecs

LEMMA ConverterStarts ==
  ASSUME LegibleLibraries, ConverterInit
  PROVE  CInv
<1>1. PICK library \in Libraries : InitiallyOf(library)
  BY DEF ConverterInit
<1>2. FInv
  BY <1>1, InitiallyHolds
<1>3. /\ prudent = TRUE /\ source \in Paths /\ target \in Paths /\ step = "begin" /\ status = NULL
      /\ original = disk[source] /\ disk = library /\ buffer = Buffer!Fresh
      /\ call = NULL /\ last = NULL /\ fault = "none"
  BY <1>1 DEF ConverterInit, InitiallyOf
<1>4. original # NULL => Legible(original)
  BY <1>1, <1>3 DEF LegibleLibraries
<1>5. AtBegin
  BY <1>3 DEF AtBegin, Idle, FullyUsed, Buffer!Fresh
<1>. QED BY <1>2, <1>3, <1>4, <1>5 DEF CInv, Knows

LEMMA ConversionBegins ==
  ASSUME ConverterInit
  PROVE  Ideal!Init
<1>1. status = NULL /\ step = "begin"
  BY DEF ConverterInit
<1>2. Phase = "begun"
  BY <1>1, ConverterAssumption, PhaseIs
<1>. QED BY <1>2 DEF Ideal!Init

\* main returns: what it returns depends on where it stood.
LEMMA EndKeeps ==
  ASSUME CInv, NEW result \in {0, 1}, End(result), UNCHANGED prudent, AtEnd
  PROVE  CInv'
<1>1. FInv'
  <2>1. UNCHANGED <<vars, prudent>>
    BY DEF End
  <2>. QED BY <2>1, StepKeeps DEF CInv
<1>2. AtEnd'
  BY DEF AtEnd, End, vars
<1>3. Knows'
  BY <1>2 DEF CInv, Knows, End, vars, Legible
<1>. QED BY <1>1, <1>3 DEF CInv

LEMMA FailingMaps ==
  ASSUME CInv, step # "ended", ~Waits, End(1)
  PROVE  Ideal!Fail
<1>1. status = NULL
  BY DEF CInv, Knows
<1>2. Phase \in {"begun", "taken"}
  BY <1>1, ConverterAssumption, PhaseIs DEF CInv, Knows
<1>3. Fixed /\ UNCHANGED disk /\ status' = 1
  BY DEF End, Fixed, vars
<1>4. Phase' = "failed"
  BY <1>3, ConverterAssumption DEF ConverterAssumption, Phase
<1>. QED BY <1>2, <1>3, <1>4, FailMaps

LEMMA DoneMaps ==
  ASSUME CInv, Done
  PROVE  Ideal!Succeed
<1>1. status = NULL /\ Waits
  BY DEF Done, Waits, CInv, Knows
<1>2. Phase = "delivered"
  BY <1>1, ConverterAssumption, PhaseIs
<1>3. Fixed /\ UNCHANGED disk /\ status' = 0
  BY DEF Done, End, Fixed, vars
<1>4. Phase' = "succeeded"
  BY <1>3, ConverterAssumption DEF ConverterAssumption, Phase
<1>. QED BY <1>2, <1>3, <1>4, SucceedMaps

LEMMA ReadKeeps ==
  ASSUME CInv, Read, UNCHANGED prudent
  PROVE  CInv' /\ UNCHANGED Ideal!cvars
<1>1. /\ step = "begin" /\ loadFile(source) /\ step' = "loading" /\ status' = NULL /\ Fixed /\ status = NULL
      /\ AtBegin /\ FInv
  BY DEF Read, CInv, Knows, Fixed
<1>2. FInv'
  <2>1. Client
    BY <1>1 DEF Client, AtBegin, CInv, Knows
  <2>. QED BY <1>1, <2>1, ClientKeeps
<1>3. UNCHANGED <<disk, buffer, samplingRate, fault>> /\ fault = "none"
  BY <1>1 DEF loadFile, Dispatch, Idle
<1>4. AtLoad' /\ ~(Returned /\ last.ok)'
  <2>1. CASE Reader(Extension[source]) = NULL
    <3>1. last' = [op |-> "load", path |-> source, ok |-> FALSE] /\ call' = NULL
      BY <1>1, <2>1 DEF loadFile, Dispatch, Idle
    <3>2. last' \in Ends
      BY <3>1 DEF Ends, CInv, Knows
    <3>. QED BY <1>1, <1>3, <3>1, <3>2, EndIsNotNull DEF AtLoad, AtBegin, Fixed
  <2>2. CASE Reader(Extension[source]) # NULL
    <3>1. call' = [op |-> "load", path |-> source, format |-> Extension[source],
                   backend |-> Reader(Extension[source]), stage |-> "open", total |-> 0, running |-> 0]
      BY <1>1, <2>2 DEF loadFile, Dispatch
    <3>2. call'.op = "load" /\ call'.path = source /\ last' = NULL
      BY <1>1, <2>2, <3>1 DEF loadFile, Dispatch
    <3>3. call' # NULL
      <4>1. call' \in Calls
        <5>1. Extension[source] \in Formats
          BY SoundFilesAssumption DEF CInv, Knows
        <5>. QED BY <2>2, <3>1, <5>1, FirstIs DEF Calls, Reader, CInv, Knows
      <4>. QED BY <4>1, NullAssumption
    <3>. QED BY <1>1, <1>3, <3>2, <3>3 DEF AtLoad, AtBegin, Fixed, Returned, Idle
  <2>. QED BY <2>1, <2>2
<1>5. Knows'
  BY <1>1, <1>3, <1>4 DEF CInv, Knows, Fixed, Legible
<1>6. Phase = "begun"
  BY <1>1, ConverterAssumption, PhaseIs
<1>7. Phase' = "begun"
  BY <1>1, <1>4, ConverterAssumption DEF ConverterAssumption, Phase, Loaded, Written
<1>. QED BY <1>1, <1>2, <1>3, <1>5, <1>6, <1>7, StutterMaps DEF CInv

LEMMA WriteStepKeeps ==
  ASSUME OnLinux, CInv, Write, UNCHANGED prudent
  PROVE  CInv' /\ UNCHANGED Ideal!cvars
<1>1. /\ step = "loading" /\ Returned /\ last.ok /\ writeFile(target, OutFormat(target)) /\ step' = "writing"
      /\ status' = NULL /\ Fixed /\ status = NULL /\ AtLoad /\ FInv
      /\ target \in Paths /\ original # NULL /\ Holds(original) /\ fault = "none" /\ call = NULL
  BY DEF Write, CInv, Knows, Fixed, AtLoad, Returned, Idle
<1>2. OutFormat(target) \in Formats
  BY <1>1, SoundFilesAssumption DEF OutFormat
<1>3. PICK backend : backend = Writer(OutFormat(target))
  OBVIOUS
<1>4. backend # NULL => /\ backend \in {"coreaudio", "ogg", "sndfile"} /\ (backend = "coreaudio" => ~OnLinux)
                        /\ OutFormat(target) \in ForWriting[backend]
  BY <1>3, FirstIs DEF Writer
<1>5. Dispatch("write", target, OutFormat(target), backend)
  BY <1>1, <1>3 DEF writeFile
<1>6. FInv'
  <2>1. FullyUsed /\ buffer.isSilent = FALSE
    BY <1>1 DEF Holds, Bears, FullyUsed
  <2>. QED BY <1>1, <1>2, <1>4, <1>5, <2>1, DispatchKeeps
<1>7. UNCHANGED <<disk, buffer, samplingRate, fault>>
  BY <1>5 DEF Dispatch
<1>8. AtWrite' /\ ~Waits'
  <2>1. CASE backend = NULL
    <3>1. last' = [op |-> "write", path |-> target, ok |-> FALSE] /\ call' = NULL
      BY <1>1, <1>5, <2>1 DEF Dispatch
    <3>2. last' \in Ends
      BY <1>1, <3>1 DEF Ends
    <3>. QED BY <1>1, <1>7, <3>1, <3>2, EndIsNotNull DEF AtWrite, Waits, Fixed, Holds, Bears
  <2>2. CASE backend # NULL
    <3>1. call' = [op |-> "write", path |-> target, format |-> OutFormat(target),
                   backend |-> backend, stage |-> "open", total |-> 0, running |-> 0]
      BY <1>5, <2>2 DEF Dispatch
    <3>2. call' # NULL
      <4>1. call' \in Calls
        BY <1>1, <1>2, <1>4, <2>2, <3>1 DEF Calls
      <4>. QED BY <4>1, NullAssumption
    <3>3. call'.op = "write" /\ call'.path = target /\ call'.format = OutFormat(target) /\ call'.stage = "open"
      BY <3>1
    <3>. QED BY <1>1, <1>7, <3>2, <3>3 DEF AtWrite, Waits, Fixed, Holds, Bears, Returned, Idle, OutFormat
  <2>. QED BY <2>1, <2>2
<1>9. Knows'
  BY <1>1, <1>8 DEF CInv, Knows, Fixed, Legible
<1>10. Phase = "taken"
  BY <1>1, ConverterAssumption, PhaseIs
<1>11. Phase' = "taken"
  BY <1>1, <1>8, ConverterAssumption DEF ConverterAssumption, Phase, Loaded, Written, Waits
<1>. QED BY <1>1, <1>6, <1>7, <1>9, <1>10, <1>11, StutterMaps DEF CInv

\* The load under way.
LEMMA LoadingKeeps ==
  ASSUME OnLinux, CInv, step = "loading", InCodec, UNCHANGED prudent
  PROVE  CInv' /\ [Ideal!Next]_(Ideal!cvars)
<1>1. /\ Codecs /\ Fixed /\ step' = "loading" /\ status' = NULL /\ status = NULL /\ AtLoad /\ FInv /\ prudent
      /\ source \in Paths /\ (original # NULL => Legible(original))
  BY DEF InCodec, CInv, Knows, Fixed
<1>2. call # NULL /\ call.op = "load" /\ call.path = source /\ original = disk[source]
  BY <1>1, CodecsRun DEF AtLoad
<1>3. UNCHANGED disk /\ (GoesOn \/ Finishes(FALSE) \/ (Finishes(TRUE) /\ Loads))
  BY <1>1, <1>2, NoCoreAudio, SndfileLoads, OggLoads DEF Codecs
<1>4. FInv'
  BY <1>1, StepKeeps DEF Next
<1>5. Phase = "begun"
  BY <1>1, <1>2, ConverterAssumption, PhaseIs DEF Returned, Idle
<1>6. CASE GoesOn
  <2>1. AtLoad'
    BY <1>1, <1>2, <1>3, <1>6 DEF AtLoad, GoesOn, Fixed
  <2>2. Phase' = "begun"
    BY <1>1, <1>6, ConverterAssumption DEF ConverterAssumption, Phase, Loaded, Written, Returned, Idle, GoesOn
  <2>3. Knows'
    BY <1>1, <2>1 DEF CInv, Knows, Fixed, Legible
  <2>. QED BY <1>1, <1>3, <1>4, <1>5, <2>2, <2>3, StutterMaps DEF CInv
<1>7. CASE Finishes(FALSE)
  <2>1. call' = NULL /\ last'.ok = FALSE /\ last' # NULL
    <3>1. last' \in Ends
      BY <1>1, <1>2, <1>7 DEF Finishes, Ends
    <3>. QED BY <1>7, <3>1, EndIsNotNull DEF Finishes
  <2>2. AtLoad'
    BY <1>1, <1>2, <1>3, <2>1 DEF AtLoad, Fixed
  <2>3. Phase' = "begun"
    BY <1>1, <2>1, ConverterAssumption DEF ConverterAssumption, Phase, Loaded, Written
  <2>4. Knows'
    BY <1>1, <2>2 DEF CInv, Knows, Fixed, Legible
  <2>. QED BY <1>1, <1>3, <1>4, <1>5, <2>3, <2>4, StutterMaps DEF CInv
<1>8. CASE Finishes(TRUE) /\ Loads
  <2>1. call' = NULL /\ last'.ok = TRUE /\ last'.op = "load" /\ last'.path = source /\ last' # NULL /\ fault' = "none"
    <3>1. last' \in Ends
      BY <1>1, <1>2, <1>8 DEF Finishes, Ends
    <3>. QED BY <1>2, <1>8, <3>1, EndIsNotNull DEF Finishes
  <2>2. original \in Files /\ original # NULL /\ Legible(original)
    BY <1>1, <1>2, <1>8, NullAssumption DEF Loads
  <2>3. original' = original /\ disk'[source] = original
    BY <1>1, <1>2, <1>3 DEF Fixed
  <2>4. Holds(original)'
    BY <1>2, <1>8, <2>2, <2>3 DEF Holds, Loads, Legible
  <2>5. AtLoad'
    BY <1>1, <2>1, <2>2, <2>3, <2>4 DEF AtLoad, Fixed
  <2>6. Phase' = "taken"
    BY <1>1, <2>1, ConverterAssumption DEF ConverterAssumption, Phase, Loaded, Written, Returned, Idle
  <2>7. Knows'
    BY <1>1, <2>5 DEF CInv, Knows, Fixed, Legible
  <2>8. original = Whole(disk[source])
    BY <1>2, <2>2 DEF Whole, Legible
  <2>9. Ideal!Take
    BY <1>1, <1>3, <1>5, <2>6, <2>8, TakeMaps
  <2>. QED BY <1>4, <2>7, <2>9 DEF CInv, Ideal!Next
<1>. QED BY <1>3, <1>6, <1>7, <1>8

\* The write under way.
LEMMA WritingKeeps ==
  ASSUME OnLinux, CInv, step = "writing", InCodec, UNCHANGED prudent
  PROVE  CInv' /\ [Ideal!Next]_(Ideal!cvars)
<1>1. /\ Codecs /\ Fixed /\ step' = "writing" /\ status' = NULL /\ status = NULL /\ AtWrite /\ FInv /\ prudent
      /\ target \in Paths /\ Legible(original) /\ Holds(original) /\ original # NULL
      /\ disk \in [Paths -> Files \cup {NULL}]
  BY DEF InCodec, CInv, Knows, Fixed, AtWrite, FInv, Sane
<1>2. /\ call # NULL /\ call.op = "write" /\ call.path = target /\ call.format = OutFormat(target)
      /\ call.stage = "loop" => disk[call.path].whole = FALSE
  BY <1>1, CodecsRun DEF AtWrite
<1>3. ~OggNext
  BY <1>2 DEF OggNext, OggCannotLoad, OggLoad, Running
<1>4. UNCHANGED <<buffer, samplingRate>> /\ Writes
  BY <1>1, <1>2, <1>3, NoCoreAudio, SndfileWrites DEF Codecs
<1>5. FInv'
  BY <1>1, StepKeeps DEF Next
<1>6. Holds(original)'
  BY <1>1, <1>4 DEF Holds, Bears, Fixed
<1>7. Phase = "taken"
  BY <1>1, <1>2, ConverterAssumption, PhaseIs DEF Waits, Returned, Idle
<1>8. AtWrite' => Knows'
  BY <1>1 DEF CInv, Knows, Fixed, Legible
<1>9. ASSUME NEW ok \in BOOLEAN, Finishes(ok)
      PROVE  /\ AtWrite' /\ (ok = FALSE => Phase' = "taken") /\ (ok = TRUE => Phase' = "delivered")
  <2>1. call' = NULL /\ last'.ok = ok /\ last' # NULL /\ fault' = "none"
    <3>1. last' \in Ends
      BY <1>1, <1>2, <1>9 DEF Finishes, Ends
    <3>. QED BY <1>9, <3>1, EndIsNotNull DEF Finishes
  <2>2. AtWrite'
    BY <1>1, <1>6, <2>1 DEF AtWrite, Fixed
  <2>3. ok = FALSE => Phase' = "taken"
    BY <1>1, <2>1, ConverterAssumption DEF ConverterAssumption, Phase, Loaded, Written
  <2>4. ok = TRUE => Phase' = "delivered"
    BY <1>1, <2>1, ConverterAssumption DEF ConverterAssumption, Phase, Loaded, Written, Returned, Idle
  <2>. QED BY <2>2, <2>3, <2>4
<1>10. ASSUME Spoils, GoesOn \/ Stops
       PROVE  AtWrite' /\ Phase' = "taken"
  <2>1. disk'[target].whole = FALSE
    BY <1>1, <1>2, <1>10 DEF Spoils
  <2>2. call' # NULL /\ call'.op = call.op /\ call'.path = call.path /\ call'.format = call.format
    BY <1>2, <1>10 DEF GoesOn, Stops
  <2>3. AtWrite'
    BY <1>1, <1>2, <1>6, <2>1, <2>2 DEF AtWrite, Fixed, OutFormat
  <2>4. Phase' = "taken"
    BY <1>1, <2>2, ConverterAssumption DEF ConverterAssumption, Phase, Loaded, Written, Returned, Idle
  <2>. QED BY <2>3, <2>4
<1>11. CASE Finishes(FALSE) /\ UNCHANGED disk
  <2>1. AtWrite' /\ Phase' = "taken"
    BY <1>9, <1>11
  <2>. QED BY <1>1, <1>5, <1>7, <1>8, <1>11, <2>1, StutterMaps DEF CInv
<1>12. CASE Spoils /\ (GoesOn \/ Finishes(FALSE) \/ Stops)
  <2>1. AtWrite' /\ Phase' = "taken"
    BY <1>9, <1>10, <1>12
  <2>2. Ideal!Spoil
    BY <1>1, <1>2, <1>7, <1>12, <2>1, SpoilMaps
  <2>. QED BY <1>5, <1>8, <2>1, <2>2 DEF CInv, Ideal!Next
<1>13. CASE Completes /\ Finishes(TRUE)
  <2>1. AtWrite' /\ Phase' = "delivered"
    BY <1>9, <1>13
  <2>2. Ideal!Deliver
    BY <1>1, <1>2, <1>7, <1>13, <2>1, DeliverMaps
  <2>. QED BY <1>5, <1>8, <2>1, <2>2 DEF CInv, Ideal!Next
<1>. QED BY <1>4, <1>11, <1>12, <1>13 DEF Writes

LEMMA ConverterSteps ==
  ASSUME OnLinux, CInv, ConverterNext
  PROVE  CInv' /\ [Ideal!Next]_(Ideal!cvars)
<1>1. UNCHANGED prudent
  BY DEF ConverterNext
<1>2. ASSUME End(1), step # "ended", ~Waits, AtEnd
      PROVE  CInv' /\ [Ideal!Next]_(Ideal!cvars)
  <2>1. CInv'
    BY <1>1, <1>2, EndKeeps
  <2>2. Ideal!Fail
    BY <1>2, FailingMaps
  <2>. QED BY <2>1, <2>2 DEF Ideal!Next
<1>3. CASE InvalidFormat
  <2>1. End(1) /\ step = "begin" /\ AtEnd /\ ~Waits
    BY <1>3 DEF InvalidFormat, CInv, Knows, AtBegin, Idle, AtEnd, Waits
  <2>. QED BY <1>2, <2>1
<1>4. CASE Read
  BY <1>1, <1>4, ReadKeeps
<1>5. CASE InputProblem
  <2>1. End(1) /\ step = "loading" /\ AtEnd /\ ~Waits
    BY <1>5 DEF InputProblem, Returned, Idle, AtEnd, Waits
  <2>. QED BY <1>2, <2>1
<1>6. CASE Write
  BY <1>1, <1>6, WriteStepKeeps
<1>7. CASE OutputProblem
  <2>1. End(1) /\ step = "writing" /\ AtEnd /\ ~Waits
    BY <1>7 DEF OutputProblem, Returned, Idle, AtEnd, Waits
  <2>. QED BY <1>2, <2>1
<1>8. CASE Done
  <2>1. End(0) /\ AtEnd
    BY <1>8 DEF Done, Returned, Idle, AtEnd
  <2>2. CInv'
    BY <1>1, <2>1, EndKeeps
  <2>. QED BY <1>8, <2>2, DoneMaps DEF Ideal!Next
<1>9. CASE ExitInCodec
  <2>1. End(1) /\ step # "ended" /\ AtEnd /\ ~Waits
    BY <1>9 DEF ExitInCodec, AtEnd, Waits, Returned, Idle
  <2>. QED BY <1>2, <2>1
<1>10. CASE InCodec
  <2>1. call # NULL /\ fault = "none"
    BY <1>10, CodecsRun DEF InCodec
  <2>2. step = "loading" \/ step = "writing"
    BY <2>1 DEF CInv, Knows, AtBegin, Idle, AtEnd
  <2>. QED BY <1>1, <1>10, <2>2, LoadingKeeps, WritingKeeps
<1>. QED BY <1>3, <1>4, <1>5, <1>6, <1>7, <1>8, <1>9, <1>10 DEF ConverterNext

LEMMA ConverterRests ==
  ASSUME CInv, UNCHANGED all
  PROVE  CInv' /\ UNCHANGED Ideal!cvars
<1>1. /\ UNCHANGED <<disk, buffer, samplingRate, call, last, lost, fault, prudent>>
      /\ UNCHANGED <<source, target, step, status, original>>
  BY DEF all, vars
<1>2. FInv'
  <2>1. UNCHANGED <<vars, prudent>>
    BY DEF all
  <2>. QED BY <2>1, StepKeeps DEF CInv
<1>3. Knows'
  BY <1>1 DEF CInv, Knows, AtBegin, AtLoad, AtWrite, AtEnd, Holds, Bears, Idle, FullyUsed
<1>4. Phase' = Phase
  BY <1>1 DEF Phase, Loaded, Written, Returned, Idle
<1>. QED BY <1>1, <1>2, <1>3, <1>4, StutterMaps DEF CInv, Fixed

\* With libsndfile and the Vorbis decoder, whatever they refuse or cut short, closed
\* files of any number of channels and any paths, the same one twice included:
\* af_converter takes the file at the source, touches no file but its target, and
\* reports success exactly after it has left the closed, reencoded file there, with
\* every sample of a mono or stereo source and two of every frame of a wider one.
THEOREM ConverterConverts ==
  ASSUME OnLinux, LegibleLibraries
  PROVE  ConverterSpec => KeepsToConversion
<1>1. ConverterInit => CInv /\ Ideal!Init
  BY ConverterStarts, ConversionBegins
<1>2. CInv /\ [ConverterNext]_all => CInv'
  BY ConverterSteps, ConverterRests
<1>3. CInv /\ [ConverterNext]_all => [Ideal!Next]_(Ideal!cvars)
  BY ConverterSteps, ConverterRests
<1>. QED BY <1>1, <1>2, <1>3, PTL DEF ConverterSpec, KeepsToConversion
=============================================================================
