----------------------------- MODULE AudioBuffer -----------------------------
(***************************************************************************)
(* The container of src/include/AudioBuffer.hpp, template AudioBufferC: a  *)
(* block of `channels' rows of `size' samples, of which the first          *)
(* `usedChannels' rows are meant to be heard, and a flag isSilent that     *)
(* tells the readers to take every sample for zero without touching the    *)
(* rows.                                                                   *)
(*                                                                         *)
(* buf[b] is the object named b, NULL while no such object exists; its     *)
(* data maps the channels that have a row to their rows, none of them when *)
(* the pointer is null; allocated tells a null pointer from an empty table.*)
(* A row that has been allocated and not written holds Undef.  A sample    *)
(* accessed outside its row, or through the null row table, stops the      *)
(* program with fault = "access"; an assert(false) in the middle of a      *)
(* method stops it with fault = "assert".  An assert at the head of a      *)
(* method is a precondition of its caller, hence a guard.                  *)
(*                                                                         *)
(* The class guards against little, so what holds depends on what its      *)
(* clients refrain from.  Each habit that a client may or may not have is  *)
(* a member of Liberties: Liberties = {} is the careful client.            *)
(***************************************************************************)
EXTENDS Integers, FiniteSetsExt

CONSTANTS
  Buffers,      \* names of the objects
  MaxChannels,  \* bound on the number of channels
  Geometries,   \* the shapes asked for: channels and samples per channel
  Levels,       \* sample values that fill() is given
  Recordings,   \* what noise() and the decoders may produce: rows of samples
  Sines,        \* what addSine() adds: functions from positions to samples
  Gains,        \* factors given to applyGain()
  Loudest,      \* bound on the absolute value of a sample
  Garbage,      \* what the memory of an object under copy construction holds
  Liberties,    \* what the clients allow themselves
  Undef,        \* the content of a sample nobody has written
  NULL          \* no object

AllLiberties == {
  "noRoom",         \* sum, zeroAndcopy, fill past the rows or their ends
  "empty",          \* buffers without channels or without samples
  "resizeAudible",  \* resize a buffer that is not silent
  "writeSilent",    \* write samples and leave the flag isSilent on
  "shortExpand",    \* sum stereo onto mono for a part of the samples
  "narrowCopy",     \* zeroAndcopy from a buffer with fewer channels
  "narrowed",       \* reuse the geometry of a buffer that uses fewer channels
  "monoCopy",       \* the copy constructor with convertToMono = true
  "garbageMatches", \* copy construct where stale memory has the same geometry
  "assignFloat" }   \* operator=(float)

\* Objects under construction hold anything, except that the copy constructor
\* has set data to nullptr.
ASSUME ConstantsAssumption ==
  /\ MaxChannels \in Nat
  /\ Geometries \subseteq (0 .. MaxChannels) \X Nat
  /\ Levels \subseteq Int
  /\ Loudest \in Nat
  /\ Liberties \subseteq AllLiberties
  /\ \A g \in Garbage : /\ DOMAIN g = {"channels", "usedChannels", "size", "usedSize",
                                        "isSilent", "data", "allocated"}
                        /\ g.channels \in Nat /\ g.usedChannels \in Nat
                        /\ g.size \in Nat /\ g.usedSize \in Nat
                        /\ g.isSilent \in BOOLEAN
                        /\ g.data = <<>> /\ g.allocated = FALSE

\* What is recorded, decoded, added or multiplied with are numbers.
ASSUME SamplesAssumption ==
  /\ Undef \notin Int
  /\ Gains \subseteq Int
  /\ \A shape \in Geometries : \A i \in 0 .. (shape[2] - 1) :
       /\ \A wave \in Sines : wave[i] \in Int
       /\ \A rec \in Recordings, c \in 0 .. (MaxChannels - 1) : rec[c][i] \in Int

VARIABLES
  buf,     \* the objects
  fault,   \* "none", or how the program stopped
  leaked   \* some storage lost its last owner without being deleted

vars == <<buf, fault, leaked>>

May(liberty) == liberty \in Liberties
Careful(liberty) == ~May(liberty)

-----------------------------------------------------------------------------
(***************************************************************************)
(* The methods as functions of the object they run on.                     *)
(***************************************************************************)
Upto(n) == 0 .. (n - 1)

Wider(m, n) == IF m > n THEN m ELSE n

\* Variant: a constructor that leaves the flag uninitialised.
FlaglessFresh == [channels |-> 0, usedChannels |-> 0, size |-> 0, usedSize |-> 0,
                  isSilent |-> Undef, data |-> <<>>, allocated |-> FALSE]

\* The object of the default constructor.
Fresh == [channels |-> 0, usedChannels |-> 0, size |-> 0, usedSize |-> 0,
          isSilent |-> TRUE, data |-> <<>>, allocated |-> FALSE]

\* n rows of s samples as the allocator returns them.
Allocated(n, s) == [c \in Upto(n) |-> [i \in Upto(s) |-> Undef]]

\* Variants: the early return compares only the sizes; usedSize is forgotten.
HastyResize(o, n, s) ==
  IF s = o.size
  THEN [o EXCEPT !.channels = n, !.usedChannels = n]
  ELSE [o EXCEPT !.channels = n, !.usedChannels = n, !.size = s, !.usedSize = s,
                 !.data = Allocated(n, s), !.allocated = TRUE]
ResizeWithoutUsedSize(o, n, s) ==
  IF n = o.channels /\ s = o.size
  THEN o
  ELSE [o EXCEPT !.channels = n, !.usedChannels = n, !.size = s, !.data = Allocated(n, s), !.allocated = TRUE]

Resize(o, n, s) ==
  IF n = o.channels /\ s = o.size
  THEN o
  ELSE [o EXCEPT !.channels = n, !.usedChannels = n, !.size = s, !.usedSize = s,
                 !.data = Allocated(n, s), !.allocated = TRUE]

\* The first n rows of o exist and have k samples.
Reaches(o, n, k) ==
  \A c \in Upto(n) : c \in DOMAIN o.data /\ Upto(k) \subseteq DOMAIN o.data[c]

\* o after the samples of rows (from channels to positions) are stored in it.
Overlay(o, rows) ==
  [o EXCEPT !.data =
     [c \in DOMAIN o.data |-> [i \in DOMAIN o.data[c] |->
        IF c \in DOMAIN rows /\ i \in DOMAIN rows[c] THEN rows[c][i] ELSE o.data[c][i]]]]

\* n rows holding one value at the positions of span.
Constant(n, span, v) == [c \in Upto(n) |-> [i \in span |-> v]]

\* The first k samples of every used channel.
UsedRows(o, k) == [c \in Upto(o.usedChannels) |-> [i \in Upto(k) |-> o.data[c][i]]]

\* Variants: a copy that keeps the target's flag; one that forgets usedChannels.
FlagKeepingCopyFrom(o, rhs) ==
  IF rhs.isSilent
  THEN [o EXCEPT !.usedChannels = rhs.usedChannels]
  ELSE [Overlay(o, UsedRows(rhs, o.size)) EXCEPT !.usedChannels = rhs.usedChannels]
WidthKeepingCopyFrom(o, rhs) ==
  IF rhs.isSilent
  THEN [o EXCEPT !.isSilent = TRUE]
  ELSE [Overlay(o, UsedRows(rhs, o.size)) EXCEPT !.isSilent = FALSE]

\* What operator= and the copy constructor share after the resize.
CopyFrom(o, rhs) ==
  IF rhs.isSilent
  THEN [o EXCEPT !.isSilent = TRUE, !.usedChannels = rhs.usedChannels]
  ELSE [Overlay(o, UsedRows(rhs, o.size)) EXCEPT !.isSilent = FALSE,
                                                 !.usedChannels = rhs.usedChannels]

CopyReaches(o, rhs) ==
  rhs.isSilent \/ /\ Reaches(o, rhs.usedChannels, o.size)
                  /\ Reaches(rhs, rhs.usedChannels, o.size)

Assigned(o, rhs) == CopyFrom(Resize(o, rhs.channels, rhs.size), rhs)
AssignReaches(o, rhs) == CopyReaches(Resize(o, rhs.channels, rhs.size), rhs)

\* mix() resizes and then assigns, which resizes again: the second finds the
\* geometry in place.
MixCopies(o, rhs) == /\ ~rhs.isSilent /\ rhs.usedChannels > 0
                     /\ o.isSilent \/ o.usedChannels = 0
MixTarget(o, rhs) == Resize(o, rhs.channels, rhs.size)
Mixed(o, rhs) == IF MixCopies(o, rhs) THEN Assigned(MixTarget(o, rhs), rhs) ELSE o
MixReaches(o, rhs) == MixCopies(o, rhs) => AssignReaches(MixTarget(o, rhs), rhs)

\* Arithmetic on a sample nobody wrote gives a sample nobody can rely on.
Plus(x, y) == IF x = Undef \/ y = Undef THEN Undef ELSE x + y
Times(x, y) == IF x = Undef THEN Undef ELSE x * y

-----------------------------------------------------------------------------
(***************************************************************************)
(* sum().                                                                  *)
(***************************************************************************)
SumIsIdle(o, rhs) == o.usedChannels = 0 \/ rhs.isSilent \/ rhs.usedChannels = 0

SumSupported(o, rhs) == \/ o.usedChannels = rhs.usedChannels
                        \/ {o.usedChannels, rhs.usedChannels} = {1, 2}

\* Variant: the stale rows are summed onto without being zeroed.
StaleUnsilenced(o, rhs) == o

\* Summing onto a silent buffer first writes the zeros that the flag stood for.
Unsilenced(o, rhs) ==
  IF o.isSilent
  THEN Overlay(o, Constant(Wider(o.usedChannels, rhs.usedChannels), Upto(o.size), 0))
  ELSE o

\* A mono operand feeds both channels of a stereo one.
SumRows(base, rhs, k) ==
  LET pick(o, c) == IF c < o.usedChannels THEN c ELSE 0
  IN  [c \in Upto(Wider(base.usedChannels, rhs.usedChannels)) |-> [i \in Upto(k) |->
         Plus(base.data[pick(base, c)][i], rhs.data[pick(rhs, c)][i])]]

Summed(o, rhs, k) ==
  IF SumIsIdle(o, rhs)
  THEN o
  ELSE [Overlay(Unsilenced(o, rhs), SumRows(Unsilenced(o, rhs), rhs, k))
          EXCEPT !.usedChannels = Wider(o.usedChannels, rhs.usedChannels),
                 !.isSilent = FALSE]

SumReaches(o, rhs, k) ==
  LET wide == Wider(o.usedChannels, rhs.usedChannels)
  IN  SumIsIdle(o, rhs) \/ /\ o.isSilent => Reaches(o, wide, o.size)
                           /\ SumSupported(o, rhs) => /\ Reaches(o, wide, k)
                                                      /\ Reaches(rhs, rhs.usedChannels, k)

-----------------------------------------------------------------------------
(***************************************************************************)
(* zeroAndcopy(), setUsedChannels(), convertToMono() and the rest.         *)
(***************************************************************************)
ZeroedAndCopied(o, rhs) ==
  IF o.usedChannels = 0 \/ rhs.isSilent
  THEN [o EXCEPT !.isSilent = TRUE]
  ELSE [Overlay(o, UsedRows(rhs, o.size))
          EXCEPT !.usedChannels = Wider(o.usedChannels, rhs.usedChannels),
                 !.isSilent = FALSE]

ZeroAndCopyReaches(o, rhs) ==
  o.usedChannels = 0 \/ CopyReaches(o, rhs)

\* Variant: the channels that come into use keep what they hold.
StaleWithUsedChannels(o, n) == [o EXCEPT !.usedChannels = n]

WithUsedChannels(o, n) ==
  [Overlay(o, [c \in o.usedChannels .. (n - 1) |-> [i \in Upto(o.size) |-> 0]])
     EXCEPT !.usedChannels = n]

\* Sum over the used channels at one position.
Downmix(o, i) ==
  IF \E c \in Upto(o.usedChannels) : o.data[c][i] = Undef
  THEN Undef
  ELSE SumFunction([c \in Upto(o.usedChannels) |-> o.data[c][i]])

\* Samples are fixed-point here: an average that needs a finer resolution than
\* one is out of the bound.
Halves(x, n) == x # Undef => x % n = 0
Mean(x, n) == IF x = Undef THEN Undef ELSE x \div n

MonoExact(o) == \A i \in Upto(o.usedSize) : Halves(Downmix(o, i), o.usedChannels)

Mono(o) ==
  IF o.usedChannels = 1
  THEN o
  ELSE [Overlay(o, [c \in {0} |-> [i \in Upto(o.usedSize) |->
                      Mean(Downmix(o, i), o.usedChannels)]])
          EXCEPT !.usedChannels = 1]

\* The copy constructor with convertToMono = true: every pass of its loop
\* overwrites the row with channel 0 + channel n, the mean divides by the
\* usedChannels of the new object, and nothing sets its flag.
MonoCopied(o, rhs) ==
  LET d == Resize(o, 1, rhs.size)
      last == rhs.usedChannels - 1
  IN  [Overlay(d, [c \in {0} |-> [i \in Upto(d.usedSize) |->
                     Plus(rhs.data[0][i], rhs.data[last][i])]])
         EXCEPT !.usedChannels = 1]

MonoCopyReaches(o, rhs) ==
  LET d == Resize(o, 1, rhs.size)
  IN  Reaches(d, 1, d.usedSize) /\ Reaches(rhs, rhs.usedChannels, d.usedSize)

-----------------------------------------------------------------------------
(***************************************************************************)
(* The operations.  Call(b, reaches, new) runs a method on b: it stores    *)
(* the object the method leaves, or stops the program at the first access  *)
(* outside a row.                                                          *)
(***************************************************************************)
Alive == {b \in Buffers : buf[b] # NULL}

\* Bound: samples louder than Loudest are not explored.
Bounded(o) ==
  \A c \in DOMAIN o.data : \A i \in DOMAIN o.data[c] :
    o.data[c][i] \in (-Loudest .. Loudest) \cup {Undef}

Store(b, new) == /\ Bounded(new)
                 /\ buf' = [buf EXCEPT ![b] = new]
                 /\ UNCHANGED <<fault, leaked>>

Stop(why) == /\ fault' = why
             /\ UNCHANGED <<buf, leaked>>

Call(b, reaches, new) == IF reaches THEN Store(b, new) ELSE Stop("access")

\* A geometry a careful client asks for.
Sound(n, s) == Careful("empty") => n > 0 /\ s > 0

\* The rows that a resize to the current geometry would leave unused.
FullyUsed(o, n, s) ==
  Careful("narrowed") /\ <<n, s>> = <<o.channels, o.size>> => o.usedChannels = o.channels

DefaultConstruct(b) ==
  /\ buf[b] = NULL
  /\ Store(b, Fresh)

Construct(b, n, s) ==
  /\ buf[b] = NULL
  /\ Sound(n, s)
  /\ Store(b, Resize(Fresh, n, s))

\* A copy keeps the source's channels, also when it has none.
CopyConstruct(b, r, g) ==
  /\ buf[b] = NULL
  /\ Sound(buf[r].channels, buf[r].size)
  /\ Careful("garbageMatches") => <<g.channels, g.size>> # <<buf[r].channels, buf[r].size>>
  /\ Call(b, AssignReaches(g, buf[r]), Assigned(g, buf[r]))

CopyConstructMono(b, r, g) ==
  /\ buf[b] = NULL
  /\ May("monoCopy")
  /\ Careful("garbageMatches") => <<g.channels, g.size>> # <<1, buf[r].size>>
  /\ buf[r].usedChannels > 1
  /\ Call(b, MonoCopyReaches(g, buf[r]), MonoCopied(g, buf[r]))

\* Variant: the destructor takes a silent buffer for an empty one.
DestroyAudible(b) ==
  LET o == buf[b]
  IN  /\ buf' = [buf EXCEPT ![b] = NULL]
      /\ leaked' = (leaked \/ (o.allocated /\ o.isSilent))
      /\ UNCHANGED fault

\* Deletes the rows only of a buffer with used channels and samples.
Destroy(b) ==
  LET o == buf[b]
  IN  /\ buf' = [buf EXCEPT ![b] = NULL]
      /\ leaked' = (leaked \/ (o.allocated /\ (o.usedChannels = 0 \/ o.size = 0)))
      /\ UNCHANGED fault

DoResize(b, n, s) ==
  /\ Sound(n, s)
  /\ Careful("resizeAudible") => buf[b].isSilent \/ <<n, s>> = <<buf[b].channels, buf[b].size>>
  /\ FullyUsed(buf[b], n, s)
  /\ Store(b, Resize(buf[b], n, s))

Assign(b, r) ==
  /\ <<buf[r].channels, buf[r].size>> # <<buf[b].channels, buf[b].size>>
       => Sound(buf[r].channels, buf[r].size)
  /\ Call(b, AssignReaches(buf[b], buf[r]), Assigned(buf[b], buf[r]))

Mix(b, r) == Call(b, MixReaches(buf[b], buf[r]), Mixed(buf[b], buf[r]))

Zero(b) == Store(b, [buf[b] EXCEPT !.isSilent = TRUE])

ZeroRange(b, k, pos) ==
  /\ buf[b].size >= pos + k
  /\ Call(b, Reaches(buf[b], buf[b].usedChannels, pos + k),
          Overlay(buf[b], Constant(buf[b].usedChannels, pos .. (pos + k - 1), 0)))

\* zero() runs first, so a buffer copied onto itself is silent by then.
ZeroAndCopy(b, r) ==
  LET rhs == IF r = b THEN [buf[b] EXCEPT !.isSilent = TRUE] ELSE buf[r]
  IN  /\ Careful("noRoom") /\ ~rhs.isSilent => /\ rhs.size >= buf[b].size
                                              /\ rhs.usedChannels <= buf[b].channels
      /\ Careful("narrowCopy") /\ ~rhs.isSilent => rhs.usedChannels >= buf[b].usedChannels
      /\ Call(b, ZeroAndCopyReaches(buf[b], rhs), ZeroedAndCopied(buf[b], rhs))

Sum(b, r, k) ==
  LET o == buf[b]
      rhs == buf[r]
  IN  /\ Careful("noRoom") => k <= o.size /\ k <= rhs.size /\ rhs.usedChannels <= o.channels
      /\ Careful("shortExpand") /\ rhs.usedChannels > o.usedChannels => o.isSilent \/ k = o.size
      /\ IF SumReaches(o, rhs, k) /\ ~SumIsIdle(o, rhs) /\ ~SumSupported(o, rhs)
         THEN Stop("assert")
         ELSE Call(b, SumReaches(o, rhs, k), Summed(o, rhs, k))

Fill(b, v, k, pos) ==
  /\ buf[b].usedChannels > 0
  /\ Careful("writeSilent") => ~buf[b].isSilent
  /\ Careful("noRoom") => pos + k <= buf[b].size
  /\ Call(b, k = 0 \/ Reaches(buf[b], buf[b].usedChannels, pos + k),
          IF k = 0 THEN buf[b]
          ELSE Overlay(buf[b], Constant(buf[b].usedChannels, pos .. (pos + k - 1), v)))

\* One value drawn per sample of the used channels.
CreateNoise(b, rec) ==
  LET o == buf[b]
  IN  /\ Careful("writeSilent") => ~o.isSilent
      /\ Call(b, Reaches(o, o.usedChannels, o.usedSize),
              Overlay(o, [c \in Upto(o.usedChannels) |-> [i \in Upto(o.usedSize) |-> rec[c][i]]]))

AddSine(b, wave) ==
  LET o == buf[b]
  IN  /\ Careful("writeSilent") => ~o.isSilent
      /\ Call(b, Reaches(o, o.usedChannels, o.size),
              Overlay(o, [c \in Upto(o.usedChannels) |-> [i \in Upto(o.size) |->
                            Plus(o.data[c][i], wave[i])]]))

ApplyGain(b, gain) ==
  LET o == buf[b]
  IN  Call(b, Reaches(o, o.usedChannels, o.usedSize),
           Overlay(o, [c \in Upto(o.usedChannels) |-> [i \in Upto(o.usedSize) |->
                         Times(o.data[c][i], gain)]]))

SetUsedChannels(b, n) ==
  /\ n <= buf[b].channels /\ n < 3
  /\ Sound(n, 1)
  /\ Call(b, n <= buf[b].usedChannels \/ Reaches(buf[b], n, buf[b].size),
          WithUsedChannels(buf[b], n))

ConvertToMono(b) ==
  LET o == buf[b]
      reaches == o.usedChannels = 1 \/ Reaches(o, o.usedChannels, o.usedSize)
  IN  /\ o.usedChannels > 0
      /\ o.usedChannels > 1 /\ reaches => MonoExact(o)
      /\ Call(b, reaches, Mono(o))

AssignFloat(b) ==
  /\ May("assignFloat")
  /\ Store(b, [buf[b] EXCEPT !.isSilent = TRUE, !.channels = 1])

\* What a decoder does with its output buffer (AudioFormat_ogg::loadFile):
\* resize, write every sample of every channel, clear the flag.
Load(b, n, s, rec) ==
  LET d == Resize(buf[b], n, s)
  IN  /\ Sound(n, s)
      /\ FullyUsed(buf[b], n, s)
      /\ Call(b, Reaches(d, n, s),
              [Overlay(d, [c \in Upto(n) |-> [i \in Upto(s) |-> rec[c][i]]])
                 EXCEPT !.isSilent = FALSE])

-----------------------------------------------------------------------------
Init == /\ buf = [b \in Buffers |-> NULL]
        /\ fault = "none"
        /\ leaked = FALSE

Extents == UNION {0 .. shape[2] : shape \in Geometries}

Constructors ==
  \E b \in Buffers :
    \/ DefaultConstruct(b)
    \/ \E shape \in Geometries : Construct(b, shape[1], shape[2])
    \/ \E r \in Alive, g \in Garbage : CopyConstruct(b, r, g)
    \/ \E r \in Alive, g \in Garbage : CopyConstructMono(b, r, g)

Geometry ==
  \E b \in Alive :
    \/ Destroy(b)
    \/ \E shape \in Geometries : DoResize(b, shape[1], shape[2])
    \/ \E n \in 0 .. MaxChannels : SetUsedChannels(b, n)
    \/ ConvertToMono(b)
    \/ AssignFloat(b)

Combining ==
  \E b \in Alive, r \in Alive :
    \/ Assign(b, r)
    \/ Mix(b, r)
    \/ ZeroAndCopy(b, r)
    \/ \E k \in Extents : Sum(b, r, k)

Writing ==
  \E b \in Alive :
    \/ Zero(b)
    \/ \E k \in Extents, pos \in Extents : ZeroRange(b, k, pos)
    \/ \E v \in Levels, k \in Extents, pos \in Extents : Fill(b, v, k, pos)
    \/ \E rec \in Recordings : CreateNoise(b, rec)
    \/ \E wave \in Sines : AddSine(b, wave)
    \/ \E gain \in Gains : ApplyGain(b, gain)
    \/ \E shape \in Geometries, rec \in Recordings : Load(b, shape[1], shape[2], rec)

Next == fault = "none" /\ (Constructors \/ Geometry \/ Combining \/ Writing)

Spec == Init /\ [][Next]_vars

-----------------------------------------------------------------------------
(***************************************************************************)
(* What holds.                                                             *)
(***************************************************************************)

\* The objects, the stop and the leak keep their kinds.
TypeOK ==
  /\ \A b \in Alive :
       /\ buf[b].channels \in Nat /\ buf[b].usedChannels \in Nat
       /\ buf[b].size \in Nat /\ buf[b].usedSize \in Nat
       /\ buf[b].isSilent \in BOOLEAN /\ buf[b].allocated \in BOOLEAN
       /\ Bounded(buf[b])
  /\ fault \in {"none", "access", "assert"}
  /\ leaked \in BOOLEAN

\* Every row that exists has `size' samples, which usedSize counts too.  It
\* holds for every client, whatever was resized, copied or overwritten.
RowsAreLong(o) ==
  /\ o.allocated => o.usedSize = o.size
  /\ \A c \in DOMAIN o.data : DOMAIN o.data[c] = Upto(o.size)
RowLength == \A b \in Alive : RowsAreLong(buf[b])

\* The rows are those the counters announce, and the used ones are among them:
\* what the loops of every method take for granted.
Shaped(o) ==
  /\ o.usedChannels <= o.channels
  /\ o.usedSize = o.size
  /\ DOMAIN o.data = Upto(o.channels)
  /\ \A c \in DOMAIN o.data : DOMAIN o.data[c] = Upto(o.size)
RowsMatch == \A b \in Alive : Shaped(buf[b])

\* No method of any object touches a sample outside its rows or runs into an
\* assert(false).
NoFault == fault = "none"

\* A buffer that is not silent holds no sample that nobody wrote: resize, copy,
\* sum, widening and mono conversion never let stale storage be heard.
AudibleDefined ==
  \A b \in Alive : ~buf[b].isSilent =>
    \A c \in Upto(buf[b].usedChannels), i \in Upto(buf[b].size) : buf[b].data[c][i] # Undef

\* The destructor and the reallocations delete all storage ever allocated.
NoLeak == ~leaked

\* What a reader that honours the flag gets from an object.
Heard(o) ==
  [len |-> o.size,
   rows |-> [c \in Upto(o.usedChannels) |-> [i \in Upto(o.size) |->
               IF o.isSilent THEN 0 ELSE o.data[c][i]]]]

Signals == [b \in Buffers |-> IF buf[b] = NULL THEN NULL ELSE Heard(buf[b])]

Ideal == INSTANCE Signal WITH sig <- Signals, Shapes <- Geometries

\* Every method does to the signal that is heard what its name says: the flag,
\* the stale rows behind it and the spare rows never show.
ImplementsSignal == Ideal!Spec

\* A copy is heard as its source, also when the new object's memory pretended
\* to have the right geometry already, and an assignment as what was assigned.
CopiesAgree ==
  [][\A b \in Buffers, r \in Alive :
       /\ buf'[b] # buf[b]
       /\ \/ \E g \in Garbage : CopyConstruct(b, r, g)
          \/ b \in Alive /\ Assign(b, r)
       => Heard(buf'[b]) = Heard(buf[r])]_vars
=============================================================================
