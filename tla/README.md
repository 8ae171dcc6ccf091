# asutilities in TLA+

This directory holds a verification project for the C++ library `asutilities`:
TLA+ modules of its classes, TLC configurations that check them on small
instances, and theorems that the TLAPS proof system checks for instances of any
size. `PROJECT.json` lists the runs, the mutants that show that each property
can fail, the source lines behind every definition, the findings and the
hazards.

The library is sequential. What is hard in it is not threads but state that is
spread over several fields, a flag that tells readers to ignore the memory, calls
that fail half way, callbacks that change the list that is being walked, and, in the
Vorbis decoder, three layers (pages, packets, frames) whose books must agree although
each fails on its own.

    tlasany M.tla                          parse
    tlc -workers 2 -config X.cfg MC.tla    check a run
    tlapm MProofs.tla                      check proofs

## The system

| component | state | operations | hard parts | what makes it correct |
|---|---|---|---|---|
| AudioBuffer (`include/AudioBuffer.hpp`) | `channels`, `usedChannels`, `size`, `usedSize`, `isSilent`, rows in one block | construct, copy, resize, assign, mix, sum, zero, zeroAndcopy, fill, noise, sine, gain, mono, setUsedChannels | a silent buffer has stale rows; resize returns early; nothing is checked | the heard signal is what the methods' names promise; counters and rows agree; no access outside rows |
| signal analysis (same file) | none | findPeak, findZeroCrossing, normalize, removeDC, requantize, applyOnePole, deinterleave, convolveTd | bounds and extremes | agreement with a reference definition |
| AudioFormatsManager | the backends by format | loadFile, writeFile, getFileInfo | reads go by extension, writes by format; first backend wins | the right backend; buffer and file agree |
| AudioFormat_sndfile | the loops' locals | loadFile, writeFile | turns of 512 positions, short reads and writes, exit(1), unclosed handles | round trip; nothing unwritten is audible |
| AudioFormat_ogg | none | loadFile | scale, rate, leak | contents at their places |
| AudioFormat_CoreAudio | the handles of AudioToolbox | loadFile, writeFile, getFileInfo | lengths that are estimates, short reads, results nobody looks at, bytes against samples | the same |
| AudioFormat_aac | decoder and encoder, their buffers | loadFile, writeFile | whole packets, a tail that is flushed | the same |
| af_converter (`samples/`) | where main stands | load, write | each may fail, target may be the source | exit status tells the truth, other files untouched |
| ConfigurationParser | stack of sequences, pass flag | ParseConfiguration with callbacks | passes broken off and begun again, aliases | every permutation once, in order; it ends |
| Subject, Observer (`DataStructureUtilities.h`) | list of observers | subscribe, unsubscribe, notifyObservers | callbacks re-enter | each subscription called once per round |
| sorting, math, strings | none | pure functions | edges, ties, separators | agreement with a reference definition |
| stb_vorbis, pages (`src/stb_vorbis.c`) | read position, table of segments, what is left of one, end of packet | start a packet, deliver a byte, go on to the next page | packets over pages, segments of no bytes, lost and damaged pages | every byte delivered is one of the packet that was started |
| stb_vorbis, frames | window kept, position, output so far, the caller's buffer | open, decode a packet, finish a frame, grow the buffer | overlap of two sizes, positions known late, truncation of the last frame | output and position agree with the stream; nothing is dropped; it ends |
| stb_vorbis, codebooks | free leaves, codes, accumulator | add an entry, DECODE, get_bits | any order of lengths, three searches, whole bytes | codes of one tree; the symbol the bits say |
| stb_vorbis, spectrum | none | floor curve, residue, coupling | interleaving, silent channels, edges of a range | agreement with a reference definition |
| fdk-aac | third party | | | |

The converter calls the manager, the manager calls one codec, the codecs resize
and fill (or read) an AudioBuffer behind its methods. AudioFormat_ogg hands its file
to stb_vorbis, whose frame layer asks the page layer for bytes and the codebooks for
symbols. The parser and Subject
stand alone and interact with their clients by callbacks.

## Modules

**Signal** is the abstract specification of a buffer: what is heard, as rows of
numbers, and what each method is meant to do to it. **AudioBuffer** is the
detailed one: `buf[b]` is an object with the fields of the class, and every
method is an operator on objects (`Resize`, `CopyFrom`, `Summed`...) and an
action that applies it to a named object. Rows that were allocated and not
written hold `Undef`. An access that leaves a row sets `fault` to `"access"`, an
`assert(false)` inside a method to `"assert"`; an assertion at a method's head is
a guard. Since the class trusts its clients, their habits are members of
`Liberties`: the empty set is the careful client, and each liberty is what one
guarantee needs a client to refrain from. The refinement mapping takes the zero
row for a silent buffer and the first `usedChannels` rows for one that is not.

**ConfigurationParser** has one action for each way an entry of the map is
visited (`VisitScalar`, `Push`, `Advance`, `Pop`, `Replay`) and `EndPass` for the
end of the do loop. Nodes have an identity because `YAML::Node` compares by it.
**Odometer** is the abstract specification: permutations, the last parameter
fastest.

**Subject** models the list with addresses, because a loop over a `std::list`
stands at a node and follows its link when the callback returns. Loops nest.
`rude` says whether callbacks may erase the node that a loop stands at.

**SoundFiles** has the files, the buffer, the call under way, and libsndfile
modelled from its use: an open may fail, a read or write may come up short
(`Troubles`), a count that is not a number of frames is refused. Samples in memory
are multiples of 1/`Unit` and samples in files are integers of the width
2 * `HalfScale`, so that the conversions (k/32768, k/32767, x * 32767 rounded and
narrowed) are computed as they are and not as the identity.
**AudioFormat_sndfile** has one action for each call of libsndfile with the code
behind it; **AudioFormat_ogg** one for the decoder's single call. The operations on
the buffer are those of AudioBuffer (`Buffer!Resize`, `Buffer!Overlay`). A load or write
that goes to a place that no row has halts with `fault = "access"` (`LoadReaches`,
`WriteReaches`), so that `StopsOnlyOnShortWrites` speaks of both.
**AudioFormat_CoreAudio** has the build for Apple's systems: the load in its three
steps (open and resize, set the client's format, read), each of which may fail, and
the write in two (create, write). AudioToolbox is modelled from its use; compressed
files announce an estimate of their length.
**AudioFormatsManager** composes the backends, in the order in which the constructor
registers them, `<<"ogg", "sndfile">>` on Linux and `<<"coreaudio", "ogg">>` on
Apple's systems (`Backends`), with a client that makes, silences, narrows, loads and
writes one buffer. A client that is `prudent` loads into silent buffers, writes
audible ones, and has all channels in use; the properties say where they need one.
**Converter** is `af_converter` on top of it, and **Conversion** its abstract
specification. What a conversion gives is `Reencoded`: every sample of a mono or stereo
file; of a wider one what the codec's branch for two channels moves, two samples of every
frame (`Stride`), provided libsndfile takes them as whole frames.

**OneCall** is the frame for the code without state: an action calls one function on
one input of the instance and keeps what came of it. Four modules use it, and
**MCOneCall** gives them their inputs; each property compares the result with a
definition that has no loop.

 * **SignalAnalysis** has the methods of the buffer that compute with its samples
   (findPeak, findZeroCrossing, requantize, normalize, removeDC, applyOnePole,
   convolveTd) and, beside them, `sort` and `reorder`. The rows
   lie in one block, so that a read behind a row gets what lies there, the next row
   or `Undef`. Samples and quotients are exact; the rounding of floats is left out.
 * **StringUtilities** has tokenize, the functions that take paths apart,
   splitToFloats, safeGetline and numeric_string_compare, on sequences of character
   codes, and **Utilities** the calls of these and the powers of two. They use
   recursive and bit operators, so they are kept apart from what is proved.
 * **VorbisSpectrum** has what stb_vorbis computes for a block before the transform:
   the heights of floor 1 and the lines between them, where each component of a
   residue of the three types goes, and the inverse coupling with its silent
   channels. A component is the name of what was read (pass, partition, channel,
   vector, place), so that a property can say where it must be. A channel that is not
   decoded has no buffer: the first component that falls to it ends the call with an
   access (`Decoded`).

**OggPackets** is the page layer of stb_vorbis: the pages of a stream, the read
position as the file has it, and the decoder's own books (`next_seg`, `last_seg`,
`bytes_in_seg`, `end_seg_with_known_loc`...). `ReaderNext` is any decoder: it starts a
packet or asks for a byte whenever it likes. **StbVorbis** extends it by the frame
layer with the control of `start_decoder`, `vorbis_decode_initial`,
`vorbis_decode_packet_rest`, `vorbis_finish_frame` and `stb_vorbis_decode_filename`;
samples are counted, not computed, and any number of bytes may be read from a packet
before it is flushed. A setup packet that is cut (`IsCut`) reads as zeros from there on,
which may pass, or be refused, or hold `start_decoder` in the loop over the lengths of a
codebook for ever (`LengthsRunOut`, place `"lengths"`). A frame that was cut short may leave
a `previous_length` that is no half block: `get_window` has an assertion there (`NoWindow`,
place `"aborted"`). **MCStbVorbis** makes the streams: blocks of both sizes as an
encoder writes them (`EncodersAssumption` of StbVorbis says what that is), laced and cut
into pages at every place, then damaged, or one behind the other.
**VorbisCodebook** builds a codebook entry by entry (`compute_codewords`) and then
reads a packet through the accumulator by `DECODE` (fast table, binary search, one by
one) and `get_bits`. Codes are kept as addresses of leaves, the bit-reversed words.

Definitions whose comment begins with "Variant" are mutants: they are used by no
specification, and each differs from the definition behind it by one plausible
slip. Every property is violated by one of them.

## Runs

| run | shows | bounds |
|---|---|---|
| buffer_channels | `ImplementsSignal`, `AudibleDefined`, `NoLeak`, `RowsMatch`, `NoFault` | two objects, up to 2 channels of one sample or one of two |
| buffer_anyclient | `RowLength`, `CopiesAgree` with every liberty | two objects, up to 3 channels |
| parser_anydoc | `ImplementsOdometer`, `EmitsOnlyPermutations`, `Terminates` | up to 4 entries of up to 3 values, aliased or not |
| parser_sharedsequence | a finding | 2 entries |
| subject_callbacks | `CalledUpToHere`, `RoundIsComplete` | 3 observers, 4 nodes, 3 nested loops |
| files_linux | `LoadedIsHeard`, `WrittenIsHeard`, `ReadsBackWithinTolerance`, `StopsOnlyOnShortWrites`, `AudibleDefined`, `HandlesAreClosed`, `CallsEnd` | files of 0 to 5 frames and 1 to 4 channels, turns of 2 positions, 8 values of a stored sample, all failures |
| files_apple | `LoadedIsHeard`, `MonoIsWritten`, `AudibleDefined` | files of 0 to 3 frames, opens and reads that fail, an MP3 file shorter than announced |
| files_applestereo | a finding | the same without any failure |
| functions | `SearchesFind`, `SamplesAreComputed`, `PowersAreNext`, `SortsInOrder`, `TextIsTakenApart`, `FloorIsDrawn`, `ResidueIsDecoded` | all signals of 1 to 5 samples over 2 to 6 values, mono and stereo; words of 6 bits; texts of up to 5 characters over 3, names of up to 3; floors of up to 5 points; residues of up to 3 partitions of 6 components, with and without channels that are not decoded; 3 channels with 2 steps of coupling |
| converter_trouble | `ImplementsConversion` | all pairs of five paths, files of 1 to 4 channels |
| vorbis_streams | `ReadsItsPacket`, `SamplesMatchTheStream`, `NothingIsDropped`, `EndsWhereTheStreamEnds`, `Terminates` | 2 to 4 blocks of 4 and 16 samples, a page break anywhere (two in some), greatest segment of 2 bytes, packets of up to 3; one page lost, short, unreadable or empty; two streams of 2 blocks, one behind the other |
| vorbis_codebook | `LowestIsEarliest`, `PrefixFree`, `KraftDecides`, `DecodesTheSymbol` | all lengths of up to 3 entries, chosen ones of up to 16; words of 6 bits, bytes of 3, packets of up to 2 bytes |

buffer_channels checks its module's `TypeOK` as well; in the other modules with
proofs the types are a conjunct of the inductive invariant.

Why these are enough: two objects make every binary method and aliasing (`x = x`)
happen; two channels are where mono and stereo differ, and the third, with which
`sum` stops, is there in `buffer_anyclient`. Four entries give a stack three deep
with a sequence that is popped and pushed again under one that advances. Three
nested loops over four nodes let an inner callback change the list before, at and
behind the place of two outer ones. Turns of two positions make files that are
shorter than, as long as, a multiple of and one more than a turn. Four blocks have
every triple of sizes with a neighbour; a greatest segment of two bytes makes packets
that end on one, that need a segment of no bytes and that go on over a page, and a
block of one and one of more segments make pages end in the middle of a packet and
between two. `Wrap` of 256 lets the position before the first sample wrap. A book of
three entries has every order of lengths that can collide or leave a gap; six bits of
word over bytes of three let a code lie across two bytes, end with the packet or
behind it. One to four
channels take the mono branch, the stereo branch, and the stereo branch with a
number it was not written for: a frame of four is two positions, so that the library
lets half of the file pass, and frames of three come up short. The analysis loops look at a sample and its
neighbour, so three samples have a first, an inner and a last one, and five leave a
search room to pass over equal signs; 6 bits make all powers, their neighbours and
the wrap above the greatest one. Counters that the code leaves unbounded are bounded
by `Sizes`, `MaxChannels`, `Loudest`, `MaxNodes`, `MaxDepth`, `HalfScale`,
`BufferSize` and `Bits`; the last three are 2^15, 512 and 32 in the code, and `Wrap`
is 2^32. `CHECK_DEADLOCK FALSE` stands where the program stops: after a fault, at a
function's return, at the converter's exit.

Fairness: the parser's function, a call of a codec that was begun, the Vorbis decoder
(`WF_vars(Next)`) and the converter's main run on their caller's thread to their end, so they get weak
fairness of their own steps. For the decoder this is not enough in one place, and `Terminates`
names it: behind a cut setup packet the loop at stb_vorbis.c:3657 reads zeros, and a turn of it that
reads zero changes nothing but the length it is at. Nothing obliges a client to call again, so client
actions get none.

### Findings

 * Entries of a configuration that alias one sequence skip values of it
   (`EmitsEveryValue`).
 * The CoreAudio backend counts the bytes of a write as if there were one channel, so
   a stereo buffer is written to half its length and success is returned
   (`WrittenIsHeard` in files_applestereo). Mono buffers are written in full
   (`MonoIsWritten` in files_apple).

Observed while modelling, without a run of its own; those of stb_vorbis follow under
the limits of its modules. The modules do what the code does
here, and the liberty, the exception in a property or the hazard in `PROJECT.json`
that stands for it is named:

 * `mix()` does nothing to a target that is audible, where its comment says that it
   mixes; Signal states what it does.
 * `sum()` of stereo onto mono writes a second row that a mono buffer has only if it
   was wider before (liberty `noRoom`).
 * `resize()` to the geometry a buffer already has leaves `usedChannels` narrow
   (liberty `narrowed`).
 * `createNoise()`, `fill()` and `addSine()` leave the flag `isSilent` on (liberty
   `writeSilent`).
 * `convolveTd` reads one sample behind the row (`ConvolvedUpToTheEnd`, a part of `SamplesAreComputed`, says which
   outputs are off and by what) and leaves an output that is flagged silent.
 * `removeDC` subtracts the mean of every channel from the first row; `normalize`
   divides by zero on a signal of zeros (exceptions in `SamplesAreRescaled`, a part of
   `SamplesAreComputed`).
 * `findPeak` does not find a peak that is the first sample of the range (exception in
   `PeakIsFound`, a part of `SearchesFind`); `findZeroCrossing` from 0 that meets no change walks out of the row
   (exception in `CrossingIsTheLast`).
 * A compressed file with fewer frames than announced makes samples audible that were
   never written (`EndsEarly` in `AudibleDefined`). A client that writes such a buffer
   stores them, and a later load of that file makes them audible once more, although it
   does all it should (`HoldsUnwritten`; TLC found this with a mono MP3 file). The branches of the CoreAudio
   backend that trim AAC compare a four-character code with an enumeration and never
   run.
 * The codec's stereo branch runs for more than two channels: af_converter makes of a file
   of four channels one that has two samples for each of its frames, and exits with 0
   (`Reencoded`), and a load leaves the rows behind the second unwritten but makes them
   audible (`HeardUnwritten` leaves such buffers out). Every Vorbis file is
   reported at 44100; its decoded samples are never freed (`HandlesAreClosed` excepts
   them, and the path and URL of CoreAudio's write).
 * A path of dots or slashes alone has no token, and the last of none is read;
   `getFilePathWithoutFilename` makes a relative path absolute; `splitToFloats` gives
   nothing for a text without the separator. The model has these outcomes, and the
   properties state nothing of them.
 * An empty sequence gives `update` a value that does not exist (the proofs assume it
   away by name).

### What the properties of the Vorbis modules leave out

Each is an exception that a property names, or a precondition of the instances, because
the code does something else there.

 * Pages: one without segments is taken for the end of the file; a page that does not
   continue an open packet ends it for one call only, and a packet that fails to start
   in the middle of another leaves the reader inside that one (`skipped`,
   `WellPaged`).
 * A setup packet that is cut within the lengths of an ordered codebook holds the decoder
   for ever: `get_bits` gives 0 behind the end, and with 0 entries of each length
   `current_entry` never gets to the end (stb_vorbis.c:3657-3664). `Terminates` excepts this
   place, with a packet that is cut, and no other.
 * Behind a frame that was cut short `previous_length` may be no half block, and
   `get_window` asserts (:3055); a negative one passes where assertions are compiled out.
   It takes a stream that goes on behind its last page, as one of two streams in a file
   does (`Chained`).
 * The position of a page whose last ending segment has index 0 is not looked at
   (stb_vorbis.c:1383), so such a last page truncates nothing
   (`EndsWhereTheStreamEnds`).
 * A last long block that announces a short neighbour loses a quarter of the difference
   of the sizes too much, since `n - right_end` (:3388) is not the distance to the end
   that the position speaks of.
 * A stream that begins with a long block before a short one discards its samples from
   the second frame, which may have fewer (`even`).
 * `decode_filename` makes room for 4096 samples at a time; a block of 8192 may give
   6128. `EverythingIsHandedOver` assumes frames that fit (`RoomForAFrame`).
 * Codebooks: a code of more than 25 bits may fail although it is there, because only
   whole bytes are put into 32 bits; codes of 32 bits are left out. In a tree that is
   not full, bits that begin no code may be read as some entry.
 * Residues: `residue_decode` takes the start of a partition off its length twice for
   type 0 (`n-offset-k`, :2044), so that vectors are cut, or missing, in every partition
   but those at the start of the block; `Kept` says which components remain. If all
   channels are read together (type 2) and one is not decoded, the code writes through
   its null pointer (:3284, :1795-1806, :1859-1882), and the property says that this is
   what stops it. The books fill a partition with whole vectors, and a residue lies
   inside the block (`ResiduesAssumption`); a vector that would leave it is stopped short
   at :1777 and :1843, where the place is computed with the sign of `c_inter` wrong.
 * The setup packet's fields are not modelled. Two look wrong beside the format: channels
   of a coupling are read with `ilog(channels) - 1` bits (:3967) and the number of
   submaps without adding 1 (:3959). The first two heights of a floor are read with
   `ilog(range) - 1` bits (:3191), one too few for a range of 86.

## Proofs

Every invariant that speaks of counters, rows or files needs more than itself to be
inductive; the paragraphs say what.

`AudioBufferProofs`, for every set of objects, number of channels, sizes and
samples:

 * `RowsAlwaysMatch`: `Spec => []RowsMatch`, if the client refrains from three of the
   ten liberties (`Trusted`: `noRoom`, `garbageMatches`, `assignFloat`). The counters of
   an object and its rows agree. RowsMatch alone is not inductive: that the rows are
   functions with the object's fields has to be carried along, and the resize that
   returns early is the one step where the old rows must already fit. The lemmas on
   `Overlay`, `Resize`, `CopyFrom`, `Mixed` and `Summed` say what each helper preserves;
   the step theorem has one case per method.
 * `NoStrayAccess`: no access outside a row, for any number of channels; `NeverFaults`:
   with at most two channels `sum` supports every configuration that occurs, hence
   `Spec => []NoFault`.
 * `TypesHold` and `RowsStayLong`: `Spec => [](TypeOK)` and `Spec => []RowLength` for
   clients with any liberties. Rows may then be missing or stale, but never of another
   length than `size`.
 * `NothingLeaks`: `Spec => []NoLeak`, if nobody makes an empty buffer
   (`Careful("empty")`), which is what the model's `liberties` say the leak needs. The
   invariant relates `size`, `usedChannels` and `allocated`, because the destructor
   decides by the first two what to delete.
 * `CopiesAlwaysAgree`: `Spec => CopiesAgree`, of any client; an action property.
 * `AudibleIsDefined`: `Spec => []AudibleDefined` for `Trustful` clients, who may make
   empty buffers, write to silent ones and reuse narrowed geometries. The invariant adds
   that what is heard of every object is numbers (`AllSound`).
 * `BuffersImplementSignals`: `Spec => ImplementsSignal`, the refinement of Signal, for
   `Modest` clients, who do not reuse narrowed ones either, since Signal
   gives a resized buffer all its channels. Each method has a lemma
   that its object, seen through the refinement mapping, is the operator of Signal
   applied to the mapped arguments; the copies, `mix` and `sum` also when both objects
   are the same. `NullIsApart` says that NULL is no buffer's address.

`ConfigurationParserProofs`, for every set of documents without an empty
sequence (`NoEmptySequence`):

 * `StackAlwaysHoldsValues`: `Spec => []StackHoldsValues`, no node twice on the stack
   and every index one of a value, aliases included.
 * `OnlyPermutations`: `Spec => []EmitsOnlyPermutations`, aliases included. The invariant
   adds that all entries behind the iterator already have a value of this pass,
   which is what a pass that reaches its end hands to `emit`.
 * `ParserImplementsOdometer`: `Spec => ImplementsOdometer`: for documents without aliases,
   all permutations, each once, the last parameter fastest, and none missing when the
   function returns. The invariant `Counting` says where a pass stands: it first rests on
   the reading shown last, while it goes over the sequences that are held (`Resting`);
   then the topmost one advances, and until the end of the pass the stack rises to the
   successor (`Rising`).

`SubjectProofs`, for every set of observers, number of nodes and depth of nesting:

 * `EveryLoopHasCalledUpToHere`: `Spec => []CalledUpToHere`. The invariant speaks of
   every node at a loop's address instead of the node's position; it needs addresses to
   be distinct and a new node to get one that no list entry and no loop has, and that
   there always is one is a counting argument (`FewAddresses`).
 * `EveryRoundIsComplete`: `Spec => RoundIsComplete`, from the same invariant: a loop
   whose node is the last one has called all of them.

`AudioFormatsManagerProofs`, for every set of files and buffers, every `HalfScale` and
`BufferSize`, all backends in any order and every failure of the libraries:

 * `FilesInvariant`: `Spec => []FInv`. `Sane` has the types, and that the rows of the
   buffer have its size; `Prudence` what a prudent client's calls begin with; `Underway`
   how far a load or write has come and that what it has moved by then lies where it
   should (`Filled`, `Stores`); `LoadedIsHeard` and `Recorded` what holds when it has
   returned. `Recorded` is stronger than `WrittenIsHeard`: it speaks of the rows whether
   they are heard or not, and of buffers that are read back.
 * `LoadsAreHeard`: `Spec => []LoadedIsHeard`, on both systems.
 * `WritesAreHeard`: `Spec => []WrittenIsHeard` `OnLinux`, where CoreAudio is no backend;
   with it the property is false, see the findings. `MonoWritesAreHeard`:
   `Spec => []MonoIsWritten`, on Linux, and on Apple's systems if AudioToolbox takes what
   it is given and AAC is not asked for.
 * `ProgramsStopOnShortWrites`: `Spec => []StopsOnlyOnShortWrites`.
 * `HandlesStayClosed` and `AudibleIsWritten`: the action properties `HandlesAreClosed`
   and `AudibleDefined`.
 * `ReadsBack16Bits`: `Spec => []ReadsBackWithinTolerance` `OnLinux`, if the clients'
   samples fit into 16 bits and `HalfScale` is at least 4 (`Moderate`). It needs a second
   invariant (`Quiet`: no sample leaves the range that every load gives) and the
   arithmetic of `lrintf` (`NearestError`, `EncodedIsNearest`, `DecodedIsNear`).

and for every pair of paths, `OnLinux`, if the library's
files are closed (`LegibleLibraries`), of any number of channels and with or without a
part of a frame at their end:

 * `ConverterConverts`: `ConverterSpec => Ideal!Init /\ [][Ideal!Next]_(Ideal!cvars)`, the
   refinement of Conversion without its fairness. What main knows at each of its steps
   (`Knows`) stands beside `FInv`: that the call under way is its own, and that from the
   end of the load on the buffer holds the file that was read (`Holds`), which is needed
   because source and target may be one path and the write destroys it first. Each step
   of a codec is summed up as one that goes on, finishes or stops, and leaves at the
   target a file that is not whole, or the whole one (`SndfileLoads`, `OggLoads`,
   `SndfileWrites`), and these are Conversion's `Take`, `Spoil`, `Deliver`, `Fail` and
   stutters.

`OggPacketsProofs`, for every stream, every greatest segment and both block sizes:

 * `ReaderIsFaithful`: `ReaderSpec => []ReadsItsPacket`. The invariant says where the
   read position must be: in front of `bytes_in_seg` bytes of the segment before
   `next_seg`, or at the end of a page; and that the segments since `start` are one
   packet. It holds as long as no packet is started inside another.
 * `DecoderUsesReader`: `Spec => ReaderSpec`, the frame layer implements "any decoder";
   hence `DecoderReadsItsPackets`: `Spec => []ReadsItsPacket`.
 * `EverythingIsHandedOver`: `Spec => []NothingIsDropped`, if `RoomForAFrame`: the
   longest frame, of a long block behind a long one and before a short one, has no more
   than `Limit` samples. The room is at least `Limit` whenever a frame comes.

and for every stream that is as encoders write it, which is what the field `whole`
stands for (`EncodersAssumption`: pages are good and only the last is flagged so, a
packet goes on behind each full segment, blocks know the size of their neighbours,
positions grow by a quarter of each of two neighbours, and the last page tells one within
the last block). TLC evaluates it for every stream of the run marked as whole:

 * `EverySampleOnce`: `Spec => []SamplesMatchTheStream`. Two invariants carry it, beside
   that of the page layer. `WholeInv`: on such a stream the page layer is never lost, an
   ended packet has taken its last segment and the index kept of it is right, so that
   the test against `end_seg_with_known_loc` finds the packet that the page's position
   speaks of, and no other (`OnePacketOnly`, `OneMeaning`). `FrameInv`: `Placed` says for
   each place in the code which packet is open, and `Counting` that all blocks before it
   have been decoded and that what is kept and counted is what the last of them says
   (`LastIs`, `Stands`). A step from one block to the next needs the arithmetic of the windows: the
   right one of a block is as wide as the left one of the next, and what lies between is
   a quarter of each (`WindowsMeet`); the counter of 32 bits wraps (`ModuloOfSum`).
 * `OutputEndsWithTheStream`: `Spec => []EndsWhereTheStreamEnds`, if `RoomForAFrame`, and if
   no position comes within a block of the counter's width (`FitsTheCounter`: the test
   that truncates compares wrapped positions). `StopInv` says that the decoder only stops at the end
   (every earlier frame has samples, and a frame of none is what stops
   `stb_vorbis_decode_filename`), and that the last frame reaches the position told.

`VorbisCodebookProofs`, for every book and depth:

 * `FirstLeafIsEarliest`: `Spec => []LowestIsEarliest`, and `CodesArePrefixFree`:
   `Spec => []PrefixFree`. One invariant carries both, the shape of the free leaves:
   deeper ones lie lower and apart, every code lies apart from them and from the
   other codes. The comment at stb_vorbis.c:1028 calls this "not totally trivial to
   prove".
 * `RefusedByKraft`: `Spec => []KraftDecides`. The words of the codes given so far and
   those of the free leaves are all words (`Shared`): splitting a leaf of depth d down to
   a code of depth n leaves one free leaf at each depth between, and these sums
   telescope. A book is refused when every free leaf is deeper than the entry, and then
   the free leaves together, one at most at each depth, have fewer words than it wants.
 * `DecoderFindsTheSymbol`: `Spec => []DecodesTheSymbol`. `SymbolInv` adds four facts to
   the shape of the tree: a leaf begins at a multiple of its words (`Aligned`), every word
   is in the leaf of a code or in a free one (`Covered`), a book that is built has all its
   codes (`Whole`), and the accumulator is filled in whole bytes, up to the end of the
   packet at most (`Stream`). From `Aligned` follows that a code's own bits decide and
   what comes behind them does not (`BitsOfItsOwn`), from `PrefixFree` that one entry fits
   at most (`OneFits`), from `Covered` and Kraft's sum that in a full tree one does
   (`FullTree`). `SearchFinds` is the loop invariant of the binary search, stb_vorbis.c:1567,
   for every increasing sequence: what remains is the function of a recursion that
   exists because "the last word that is not greater" satisfies it. `SearchComesTo` is the
   `assert` of compute_sorted_huffman that the search finds each code's own place.

`OneCallProofs`, for every set of signals and every resolution, coefficient and impulse
about `SignalSpec`, the calls of SignalAnalysis, and for every legal setup about
`SpectrumSpec`, those of VorbisSpectrum:

 * `SearchesAreRight`: `SignalSpec => []SearchesFind`. findPeak hands its tempVal from one
   channel to the next; the loop invariant `PeakSoFar` says what that may be. The walk of
   findZeroCrossing is a recursion that goes down: it is the function that says where one
   comes to rest (`WalkExists`, `WalkComesTo`), since it never leaves the block far enough.
 * `SamplesAreRight`: `SignalSpec => []SamplesAreComputed`. Every loop is a fold, and what
   it leaves is said for the places it has passed (`OnePoleReads`) or as a sum over them
   (`AddsUp`, with one sample behind the row that may not be there); `SumOfPlaces` compares
   the order of convolveTd's loop with the product of polynomials. `RequantizedRounds`,
   `ScaledIs` are the arithmetic of the quotients.
 * `SortsIntoItself`: `SignalSpec => []SortedIntoItself`, one half of `SortsInOrder`; the
   other, file names, stays with TLC.

 * `FloorsAreDrawn`: `SpectrumSpec => []FloorIsDrawn`, for every legal floor
   (`FloorsAssumption`: the points differ and lie inside the block, as do_floor writes
   without looking) and whatever was read for it. `MovedIsOnto` is the arithmetic of
   finalY: each half of the range below twice the nearer side, then what is left of the
   other. `StepGoesOn` is the loop invariant of draw_line: what y has moved, times adx, plus
   err is ady for every place so far, so that y is predict_point's quotient at each of
   them (`LineIsStraight`), although one divides once and the other at every place.
   `OrderIs` is that there is a sorted order and that it has every point; `DrawnUpTo`,
   the invariant of do_floor, that the curve ends at the last used point so far, so that
   the next one is its neighbor (`NextIsNeighbor`).
 * `UncouplesWhatWasCoupled`: `SpectrumSpec => []CouplingIsUndone`, one half of
   `ResidueIsDecoded`, for any channels and steps (`CouplingsAssumption`: a step couples
   two different channels, stb_vorbis.c:3969-3971). `LeftOversAreSilent` goes through the
   steps backwards, as the decoder does: what an earlier block left is, with every step
   that is undone, only where zero_channel was set before that step was looked at, and in
   the end only in channels without a floor.
 * `ResiduesAreDecoded`: `SpectrumSpec => []ResidueIsDecoded`, with the other half, for any
   residue of the three types inside its block, whichever channels are not decoded
   (`ResiduesAssumption`). `RightSoFar` is the invariant of all
   five loops of decode_residue: what was added before a vector are the components of
   earlier vectors, each at its place and once, all of them but those that `Kept` leaves
   out, and in their order. A
   vector that is read moves it on (`GrownIsRight`), a partition without a book, or of a
   channel that is not decoded, has no
   components to step over (`BehindSource`), and at the end of the packet it stays what it
   was before some vector (`EndedRight`). The first component that falls to a channel
   without a buffer cuts this off (`DecodedIsPlaced`): because it came in order, what stays
   is all that was coded before it. For channels together it needs `AtPlace`, that
   c_inter and p_inter are the remainder and the quotient of the place in the interleaved
   block: the loop over pairs keeps that because it starts behind an odd component
   (`PairedGrows`), the step over a partition and the class words set it again.
   `OneToAPlace` is that a pass and a place name the component.

FoldLeft of the community modules chooses a function on sets of places by a recursion. That
there is one, and which values it has, is proved once (`FoldingsExist`, `ChainIterates`), for
any step given as a function, so that each loop of the code becomes a sequence of states to
which `UptoInduction` applies.

`SumProofs` has the facts about `SumFunctionOnSet` that the library does not state: a
sum over a set with one more element, over two parts, over equal, greater, scaled and
renamed summands. `FoldFunctionOnSet` chooses the order, so one more element at the end is one
anywhere only because addition commutes; the proof takes a smallest counterexample of the
well-founded order on finite sets, since induction theorems have an operator parameter.

Assumptions: those of the modules' ASSUMEs (`ConstantsAssumption` and the like),
which TLC evaluates in every run, and those named above, which are hypotheses of
the theorems.

Only model-checked: liveness (`Terminates` of two modules, `CallsEnd`, the fairness of
Conversion), which TLAPS cannot prove from fairness here; and the texts, names and powers of two
(`TextIsTakenApart`, `PowersAreNext`, the names of `SortsInOrder`), whose operators are
recursive or use bit operators that the prover does not take.

## Not modelled

 * AudioFormat_aac: switched off in the build (`IF (FALSE)` in CMakeLists.txt), and
   written against an interface of another namespace, so that it does not compile with
   the current headers. fdk-aac is vendored (some 97000 of the repository's 141000
   lines) and serves nothing but AudioFormat_aac.
 * stb_vorbis: the fields of the setup packet, the values of vectors, windows and the
   inverse MDCT (floats), floor 0 (which the decoder refuses), seeking and the pushdata
   interface, which nothing in the library calls.
 * StringUtilities: trimming, printing of vectors, and what wraps the operating system
   (directories, time, terminal).
 * `resample`: compiled only with `USE_SAMPLERATE`, which is off.
 * `getFileInfo`: changes no state, and no Linux backend implements it.
 * `formatDetail_`: the manager drops it, so AudioFormatOptions and the markers of
   CoreAudio are out of reach.
 * A failing allocation; the uninitialised `SF_INFO` that is handed to `sf_open` for
   reading; the rounding of floats.
 * libsndfile, AudioToolbox, yaml-cpp and fdk-aac, except as the code uses
   them. Printing.

## Order of the work

Signal and AudioBuffer came first, because every other part reads or writes a buffer
behind its methods; then the parser and Subject, which stand alone; then the codecs,
the manager and the converter over them; then CoreAudio and the analysis methods; then
the Vorbis decoder from the pages up, strings, and the proofs of both and of Subject.
What would add most from here:

 1. The setup packet's fields as a module between VorbisCodebook and VorbisSpectrum, in
    which the widths listed above become properties.
 2. The manager's dispatch through `getFileExtension` instead of the constant
    `Extension`, and StbVorbis in the place of the one step that AudioFormat_ogg takes for
    the decoder (`DecodesOgg`, `OggDecoded`).
