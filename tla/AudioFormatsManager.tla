-------------------------- MODULE AudioFormatsManager --------------------------
(***************************************************************************)
(* AudioFormatsManager of src/src/AudioFormatsManager.cpp: a number of     *)
(* backends, of which it finds one by the extension of a path to read and  *)
(* by the requested format to write.  Its client has one buffer, which it  *)
(* makes, silences, narrows, loads and writes.                             *)
(***************************************************************************)
EXTENDS AudioFormat_sndfile, AudioFormat_ogg, AudioFormat_CoreAudio

CONSTANTS
  Backends,   \* in the order of the constructor: <<"ogg", "sndfile">> on Linux,
              \* <<"coreaudio", "ogg">> on Apple's systems
  Libraries,  \* the files there may be at first: functions from Paths
  Targets,    \* the paths the client writes
  Wanted,     \* the formats it asks for
  Takes,      \* buffers the client makes: audible, all channels used
  Habits      \* whether clients may be prudent

ASSUME ManagerAssumption ==
  /\ Backends \in Seq({"coreaudio", "ogg", "sndfile"})
  /\ Targets \subseteq Paths /\ Wanted \subseteq Formats
  /\ Habits \subseteq BOOLEAN
  /\ Libraries \subseteq [Paths -> Files \cup {NULL}]
  /\ \A o \in Takes :
       /\ DOMAIN o = DOMAIN Buffer!Fresh
       /\ o.channels \in Nat \ {0} /\ o.size \in Nat \ {0} /\ o.isSilent = FALSE
       /\ o.usedChannels = o.channels /\ o.usedSize = o.size
       /\ DOMAIN o.data = 0 .. (o.channels - 1)
       /\ \A c \in DOMAIN o.data : /\ DOMAIN o.data[c] = 0 .. (o.size - 1)
                                  /\ \A i \in DOMAIN o.data[c] : o.data[c][i] \in Int

VARIABLE prudent  \* the client loads into silent buffers, writes audible ones, and
                  \* either only with all channels in use

ForReading == [coreaudio |-> CoreAudioReads, ogg |-> {"OGG"}, sndfile |-> SndfileFormats]
ForWriting == [coreaudio |-> CoreAudioWrites, ogg |-> {}, sndfile |-> SndfileFormats]

\* addFormat: the first backend that offers a format keeps it.
Offering(offers, format) == {j \in DOMAIN Backends : format \in offers[Backends[j]]}
FirstOffering(offers, format) ==
  IF Offering(offers, format) = {} THEN NULL ELSE Backends[Min(Offering(offers, format))]

Reader(format) == FirstOffering(ForReading, format)
Writer(format) == FirstOffering(ForWriting, format)

-----------------------------------------------------------------------------
Idle == fault = "none" /\ call = NULL

Dispatch(op, path, format, backend) ==
  /\ Idle
  /\ IF backend = NULL
     THEN last' = [op |-> op, path |-> path, ok |-> FALSE] /\ UNCHANGED call
     ELSE /\ last' = NULL
          /\ call' = [op |-> op, path |-> path, format |-> format, backend |-> backend,
                      stage |-> "open", total |-> 0, running |-> 0]
  /\ UNCHANGED <<disk, buffer, samplingRate, lost, fault>>

loadFile(path) == Dispatch("load", path, Extension[path], Reader(Extension[path]))

writeFile(path, format) == Dispatch("write", path, format, Writer(format))

\* What the client does between calls.
Modify(new) == /\ Idle
               /\ buffer' = new
               /\ last' = NULL
               /\ UNCHANGED <<disk, samplingRate, call, lost, fault>>

Make(o) == Modify(o)

Reset == buffer # Buffer!Fresh /\ Modify(Buffer!Fresh)

\* zero()
Silence == ~buffer.isSilent /\ Modify([buffer EXCEPT !.isSilent = TRUE])

\* setUsedChannels()
UseChannels(n) == n < buffer.usedChannels /\ Modify(Buffer!WithUsedChannels(buffer, n))

FullyUsed == buffer.usedChannels = buffer.channels

Client ==
  \/ /\ prudent => buffer.isSilent /\ FullyUsed
     /\ \E path \in Paths : loadFile(path)
  \/ /\ prudent => ~buffer.isSilent /\ FullyUsed
     /\ \E path \in Targets, format \in Wanted : writeFile(path, format)
  \/ \E o \in Takes : Make(o)
  \/ \E n \in 0 .. 2 : UseChannels(n)
  \/ Silence
  \/ Reset

InitiallyOf(library) ==
  /\ disk = library
  /\ buffer = Buffer!Fresh
  /\ samplingRate = Undef
  /\ call = NULL
  /\ last = NULL
  /\ lost = {}
  /\ fault = "none"

Codecs == SndfileNext \/ OggNext \/ CoreAudioNext

Init == prudent \in Habits /\ \E library \in Libraries : InitiallyOf(library)

Next == (Client \/ Codecs) /\ UNCHANGED prudent

\* A call that was begun is carried on.
Spec == Init /\ [][Next]_<<vars, prudent>> /\ WF_vars(Codecs /\ UNCHANGED prudent)

-----------------------------------------------------------------------------
Ended(op) == last # NULL /\ last.op = op /\ last.ok

\* What a reader gets from a file.
Contents(f) ==
  [len |-> FramesOf(f),
   rows |-> [c \in 0 .. (f.channels - 1) |-> [i \in 0 .. (FramesOf(f) - 1) |->
               Sample(f, f.items[i * f.channels + c + 1])]]]

Plain(f) == f.whole /\ f.channels <= 2 /\ f.type \notin Compressed

\* A load of a whole, uncompressed mono or stereo file that succeeds leaves its
\* contents to be heard, each channel on its row and each frame at its place, over
\* all turns of the loops, and its rate, except that a Vorbis file has one rate
\* only.  (Into a buffer of the same shape that was narrowed, it stays narrow.)
LoadedIsHeard ==
  Ended("load") /\ Plain(disk[last.path]) /\ FullyUsed =>
    LET f == disk[last.path]
    IN  /\ Buffer!Heard(buffer) = Contents(f)
        /\ samplingRate = IF f.type = "OGG" THEN OggRate ELSE f.rate

\* The file that was written is whole and holds what is heard, sample by sample:
\* the float itself or the nearest 16 bits.
HoldsWhatIsHeard(f, heard) ==
  /\ f.whole /\ f.channels = buffer.usedChannels /\ f.rate = samplingRate
  /\ FramesOf(f) = heard.len
  /\ \A c \in DOMAIN heard.rows : \A i \in DOMAIN heard.rows[c] :
       f.items[i * f.channels + c + 1] =
         IF f.type = "FLOAT" THEN heard.rows[c][i] ELSE Encoded(heard.rows[c][i])

\* A write of an audible mono or stereo buffer that succeeds leaves such a file.
WrittenIsHeard ==
  Ended("write") /\ ~buffer.isSilent /\ FullyUsed /\ buffer.channels <= 2 =>
    HoldsWhatIsHeard(disk[last.path], Buffer!Heard(buffer))

\* The same for mono buffers.
MonoIsWritten == buffer.channels = 1 => WrittenIsHeard

\* readWrite.cpp:29-56: written and loaded again, the rows of a mono or stereo
\* buffer, silent or not, have their size and rate, and no sample is further off
\* than 1 / 2^14, two steps of HalfScale.
ReadsBackWithinTolerance ==
  Ended("write") /\ buffer.channels <= 2 =>
    LET f == disk[last.path]
    IN  /\ FramesOf(f) = buffer.size /\ f.rate = samplingRate
        /\ \A c \in DOMAIN buffer.data : \A i \in DOMAIN buffer.data[c] :
             buffer.data[c][i] # Undef =>
               LET error == buffer.data[c][i] - Contents(f).rows[c][i]
               IN  error * HalfScale <= 2 * Unit /\ -error * HalfScale <= 2 * Unit

\* The samples of a buffer that are heard and that nobody wrote.  (The codecs have no
\* branch of their own for more than two channels.)
HeardUnwritten(b) ==
  IF b.channels > 2 THEN {}
  ELSE {at \in (0 .. (b.usedChannels - 1)) \X (0 .. (b.size - 1)) : b.data[at[1]][at[2]] = Undef}

\* A compressed file has fewer frames than the load made room for.
EndsEarly == /\ call # NULL /\ call.op = "load" /\ call.stage = "loop"
             /\ disk[call.path].type \in Compressed
             /\ call.total > FramesOf(disk[call.path])

\* The file being loaded holds samples that nobody wrote: it was written from a buffer
\* after such a load.
HoldsUnwritten == /\ call # NULL /\ call.op = "load" /\ disk[call.path] # NULL
                  /\ \E j \in DOMAIN disk[call.path].items : disk[call.path].items[j] = Undef

\* With a prudent client no step of a load, a failed one included, makes a sample
\* heard that nobody wrote, but for the end of a compressed file that has fewer
\* frames than it announced, and for a file that holds such samples itself.
AudibleDefined ==
  [][prudent /\ ~buffer'.isSilent /\ ~EndsEarly /\ ~HoldsUnwritten =>
       HeardUnwritten(buffer') \subseteq (IF buffer.isSilent THEN {} ELSE HeardUnwritten(buffer))]_vars

\* Neither the rows nor the program's end are overrun: a prudent client's program
\* stops only when libsndfile cuts a write short.
StopsOnlyOnShortWrites == prudent => fault \in {"none", "exit"}

\* A handle is lost only by a call that failed.
HandlesAreClosed ==
  [][lost' \ lost \subseteq {"decoded", "CFString"} \/ (last' # NULL /\ ~last'.ok)]_vars

\* Every call comes to its end, or stops the program, whatever the libraries
\* deliver.
CallsEnd == call # NULL ~> call = NULL \/ fault # "none"
=============================================================================
