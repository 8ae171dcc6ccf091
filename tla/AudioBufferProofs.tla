-------------------------- MODULE AudioBufferProofs --------------------------
(***************************************************************************)
(* For every number of objects, channels and samples: a client that gives  *)
(* sum, zeroAndcopy and fill room enough, does not use operator=(float)    *)
(* and is lucky with the memory it copy constructs in never makes a method *)
(* touch a sample outside a row, whatever else it does.                    *)
(*                                                                         *)
(* For every client: the kinds of the counters, the lengths of the rows    *)
(* and that a copy is heard as its source; and that nothing leaks where    *)
(* nobody makes an empty buffer.                                           *)
(*                                                                         *)
(* What a reader hears: never a sample that nobody wrote; and, of a        *)
(* careful client that may make empty buffers and write to silent ones,    *)
(* exactly what the methods' names say, that is what Signal specifies.     *)
(***************************************************************************)
EXTENDS AudioBuffer, SumProofs

Fields == {"channels", "usedChannels", "size", "usedSize", "isSilent", "data", "allocated"}

Record(o) == /\ DOMAIN o = Fields
             /\ o.channels \in Nat /\ o.usedChannels \in Nat /\ o.size \in Nat

\* What every object is between two calls.
Fit(o) == Record(o) /\ Shaped(o) /\ o.channels <= MaxChannels

\* What the clients the theorems are about refrain from.
Trusted == Liberties \cap {"noRoom", "garbageMatches", "assignFloat"} = {}

-----------------------------------------------------------------------------
\* Storing samples changes no field but data, and no row but in its samples.
LEMMA OverlayFrame ==
  ASSUME NEW o, DOMAIN o = Fields, NEW rows
  PROVE  LET d == Overlay(o, rows)
         IN  /\ DOMAIN d = Fields
             /\ d.channels = o.channels /\ d.usedChannels = o.usedChannels
             /\ d.size = o.size /\ d.usedSize = o.usedSize
             /\ d.isSilent = o.isSilent /\ d.allocated = o.allocated
             /\ DOMAIN d.data = DOMAIN o.data
             /\ \A c \in DOMAIN o.data : DOMAIN d.data[c] = DOMAIN o.data[c]
  BY DEF Overlay, Fields

\* Hence a fit object stays fit, whatever is stored in it.
LEMMA OverlayFit ==
  ASSUME NEW o, Fit(o), NEW rows
  PROVE  /\ Fit(Overlay(o, rows))
         /\ Overlay(o, rows).channels = o.channels
         /\ Overlay(o, rows).usedChannels = o.usedChannels
         /\ Overlay(o, rows).size = o.size
         /\ DOMAIN Overlay(o, rows) = Fields
  BY OverlayFrame DEF Fit, Record, Shaped

\* A new value of the counter of used channels that the rows can serve, with
\* any flag, leaves a fit object fit.
LEMMA UsedFit ==
  ASSUME NEW o, Fit(o), NEW n \in Nat, n <= o.channels, NEW flag
  PROVE  /\ Fit([o EXCEPT !.usedChannels = n])
         /\ Fit([o EXCEPT !.isSilent = flag])
         /\ Fit([o EXCEPT !.isSilent = flag, !.usedChannels = n])
         /\ Fit([o EXCEPT !.usedChannels = n, !.isSilent = flag])
  BY DEF Fit, Record, Shaped, Fields

\* A resize gives a fit object of the geometry asked for: of a fit object, and
\* of memory with any content but that geometry.
LEMMA ResizeFit ==
  ASSUME NEW o, Record(o), NEW n \in Nat, n <= MaxChannels, NEW s \in Nat,
         Fit(o) \/ <<o.channels, o.size>> # <<n, s>>
  PROVE  /\ Fit(Resize(o, n, s))
         /\ Resize(o, n, s).channels = n
         /\ Resize(o, n, s).size = s
<1>1. CASE n = o.channels /\ s = o.size
  BY <1>1 DEF Resize, Fit
<1>2. CASE ~(n = o.channels /\ s = o.size)
  <2> DEFINE d == Resize(o, n, s)
  <2>1. d = [o EXCEPT !.channels = n, !.usedChannels = n, !.size = s, !.usedSize = s,
                      !.data = Allocated(n, s), !.allocated = TRUE]
    BY <1>2 DEF Resize
  <2>2. /\ DOMAIN d = Fields /\ d.channels = n /\ d.usedChannels = n
        /\ d.size = s /\ d.usedSize = s /\ d.data = Allocated(n, s)
    BY <2>1 DEF Record, Fields
  <2>3. /\ DOMAIN Allocated(n, s) = Upto(n)
        /\ \A c \in Upto(n) : DOMAIN Allocated(n, s)[c] = Upto(s)
    BY DEF Allocated
  <2>. QED BY <2>2, <2>3 DEF Fit, Record, Shaped
<1>. QED BY <1>1, <1>2

\* A fit object serves every access to at most its channels and its samples.
LEMMA FitReaches ==
  ASSUME NEW o, Fit(o), NEW n \in Nat, n <= o.channels, NEW k \in Int, k <= o.size
  PROVE  Reaches(o, n, k)
  BY DEF Fit, Record, Shaped, Reaches, Upto

LEMMA FreshFit == Fit(Fresh)
  BY ConstantsAssumption DEF Fresh, Fit, Record, Shaped, Fields, Upto

-----------------------------------------------------------------------------
\* operator=, the copy constructor and mix() reach only rows that exist.
LEMMA CopyFit ==
  ASSUME NEW o, Fit(o), NEW rhs, Fit(rhs),
         o.channels = rhs.channels, o.size = rhs.size
  PROVE  CopyReaches(o, rhs) /\ Fit(CopyFrom(o, rhs))
<1>1. /\ rhs.usedChannels \in Nat /\ rhs.usedChannels <= rhs.channels
      /\ o.size \in Nat
  BY DEF Fit, Record, Shaped
<1>2. CopyReaches(o, rhs)
  BY <1>1, FitReaches DEF CopyReaches
<1>3. Fit([o EXCEPT !.isSilent = TRUE, !.usedChannels = rhs.usedChannels])
  BY <1>1, UsedFit
<1>4. ASSUME NEW rows
      PROVE  Fit([Overlay(o, rows) EXCEPT !.isSilent = FALSE, !.usedChannels = rhs.usedChannels])
  BY <1>1, OverlayFit, UsedFit
<1>. QED BY <1>2, <1>3, <1>4 DEF CopyFrom

LEMMA AssignFit ==
  ASSUME NEW o, Record(o), NEW rhs, Fit(rhs),
         Fit(o) \/ <<o.channels, o.size>> # <<rhs.channels, rhs.size>>
  PROVE  AssignReaches(o, rhs) /\ Fit(Assigned(o, rhs))
<1>1. rhs.channels \in Nat /\ rhs.channels <= MaxChannels /\ rhs.size \in Nat
  BY DEF Fit, Record
<1>2. LET d == Resize(o, rhs.channels, rhs.size)
      IN  Fit(d) /\ d.channels = rhs.channels /\ d.size = rhs.size
  BY <1>1, ResizeFit
<1>. QED BY <1>2, CopyFit DEF AssignReaches, Assigned

LEMMA MixFit ==
  ASSUME NEW o, Fit(o), NEW rhs, Fit(rhs)
  PROVE  MixReaches(o, rhs) /\ Fit(Mixed(o, rhs))
<1>1. rhs.channels \in Nat /\ rhs.channels <= MaxChannels /\ rhs.size \in Nat /\ Record(o)
  BY DEF Fit, Record
<1>2. Fit(MixTarget(o, rhs))
  BY <1>1, ResizeFit DEF MixTarget
<1>3. AssignReaches(MixTarget(o, rhs), rhs) /\ Fit(Assigned(MixTarget(o, rhs), rhs))
  BY <1>2, AssignFit DEF Fit
<1>. QED BY <1>3 DEF MixReaches, Mixed

\* The counter of used channels a pair of operands ends up with fits in the
\* target that has room for both.
LEMMA WiderFits ==
  ASSUME NEW m \in Nat, NEW n \in Nat, NEW room \in Nat, m <= room, n <= room
  PROVE  Wider(m, n) \in Nat /\ Wider(m, n) <= room
  BY DEF Wider

LEMMA ZeroAndCopyFit ==
  ASSUME NEW o, Fit(o), NEW rhs, Fit(rhs),
         ~rhs.isSilent => o.size <= rhs.size /\ rhs.usedChannels <= o.channels
  PROVE  ZeroAndCopyReaches(o, rhs) /\ Fit(ZeroedAndCopied(o, rhs))
<1>1. /\ rhs.usedChannels \in Nat /\ rhs.usedChannels <= rhs.channels
      /\ o.usedChannels \in Nat /\ o.usedChannels <= o.channels
      /\ o.size \in Nat /\ o.channels \in Nat
  BY DEF Fit, Record, Shaped
<1>2. Fit([o EXCEPT !.isSilent = TRUE])
  BY <1>1, UsedFit
<1>3. CASE rhs.isSilent
  BY <1>2, <1>3 DEF ZeroAndCopyReaches, CopyReaches, ZeroedAndCopied
<1>4. CASE ~rhs.isSilent
  <2>1. ZeroAndCopyReaches(o, rhs)
    BY <1>1, <1>4, FitReaches DEF ZeroAndCopyReaches, CopyReaches
  <2>2. /\ Wider(o.usedChannels, rhs.usedChannels) \in Nat
        /\ Wider(o.usedChannels, rhs.usedChannels) <= o.channels
    BY <1>1, <1>4, WiderFits
  <2>3. ASSUME NEW rows
        PROVE  Fit([Overlay(o, rows)
                      EXCEPT !.usedChannels = Wider(o.usedChannels, rhs.usedChannels),
                             !.isSilent = FALSE])
    BY <2>2, OverlayFit, UsedFit
  <2>. QED BY <2>1, <2>3, <1>2 DEF ZeroedAndCopied
<1>. QED BY <1>3, <1>4

LEMMA SumFit ==
  ASSUME NEW o, Fit(o), NEW rhs, Fit(rhs), NEW k \in Int,
         k <= o.size, k <= rhs.size, rhs.usedChannels <= o.channels
  PROVE  SumReaches(o, rhs, k) /\ Fit(Summed(o, rhs, k))
<1> DEFINE wide == Wider(o.usedChannels, rhs.usedChannels)
<1>1. /\ rhs.usedChannels \in Nat /\ rhs.usedChannels <= rhs.channels
      /\ o.usedChannels \in Nat /\ o.usedChannels <= o.channels
      /\ o.size \in Nat /\ o.channels \in Nat
  BY DEF Fit, Record, Shaped
<1>2. wide \in Nat /\ wide <= o.channels
  BY <1>1, WiderFits
<1>3. SumReaches(o, rhs, k)
  <2>1. Reaches(o, wide, o.size) /\ Reaches(o, wide, k) /\ Reaches(rhs, rhs.usedChannels, k)
    BY <1>1, <1>2, FitReaches
  <2>. QED BY <2>1 DEF SumReaches
<1>4. Fit(Unsilenced(o, rhs)) /\ Unsilenced(o, rhs).channels = o.channels
  BY OverlayFit DEF Unsilenced
<1>5. ASSUME NEW rows
      PROVE  Fit([Overlay(Unsilenced(o, rhs), rows) EXCEPT !.usedChannels = wide, !.isSilent = FALSE])
  BY <1>2, <1>4, OverlayFit, UsedFit
<1>. QED BY <1>3, <1>5 DEF Summed

LEMMA WithUsedChannelsFit ==
  ASSUME NEW o, Fit(o), NEW n \in Nat, n <= o.channels
  PROVE  Reaches(o, n, o.size) /\ Fit(WithUsedChannels(o, n))
<1>1. o.size \in Int /\ o.size <= o.size
  BY DEF Fit, Record
<1>2. Reaches(o, n, o.size)
  BY <1>1, FitReaches
<1>3. ASSUME NEW rows
      PROVE  Fit([Overlay(o, rows) EXCEPT !.usedChannels = n])
  BY OverlayFit, UsedFit
<1>. QED BY <1>2, <1>3 DEF WithUsedChannels

LEMMA MonoFit ==
  ASSUME NEW o, Fit(o), o.usedChannels > 0
  PROVE  Reaches(o, o.usedChannels, o.usedSize) /\ Fit(Mono(o))
<1>1. /\ o.usedChannels \in Nat /\ o.usedChannels <= o.channels
      /\ o.size \in Int /\ o.usedSize = o.size /\ o.channels \in Nat
  BY DEF Fit, Record, Shaped
<1>2. Reaches(o, o.usedChannels, o.usedSize)
  BY <1>1, FitReaches
<1>3. ASSUME NEW rows
      PROVE  Fit([Overlay(o, rows) EXCEPT !.usedChannels = 1])
  <2>1. 1 \in Nat /\ 1 <= o.channels
    BY <1>1
  <2>. QED BY <2>1, OverlayFit, UsedFit
<1>. QED BY <1>2, <1>3 DEF Mono

\* The mono copy constructor, in memory that does not look like its result.
LEMMA MonoCopyFit ==
  ASSUME NEW o, Record(o), NEW rhs, Fit(rhs), rhs.usedChannels > 1,
         <<o.channels, o.size>> # <<1, rhs.size>>
  PROVE  MonoCopyReaches(o, rhs) /\ Fit(MonoCopied(o, rhs))
<1> DEFINE d == Resize(o, 1, rhs.size)
<1>1. /\ rhs.usedChannels \in Nat /\ rhs.usedChannels <= rhs.channels
      /\ rhs.size \in Nat /\ 1 <= MaxChannels
  BY ConstantsAssumption DEF Fit, Record, Shaped
<1>2. Fit(d) /\ d.channels = 1 /\ d.size = rhs.size /\ d.usedSize = rhs.size
  <2>1. Fit(d) /\ d.channels = 1 /\ d.size = rhs.size
    BY <1>1, ResizeFit
  <2>. QED BY <2>1 DEF Fit, Shaped
<1>3. MonoCopyReaches(o, rhs)
  BY <1>1, <1>2, FitReaches DEF MonoCopyReaches
<1>4. ASSUME NEW rows
      PROVE  Fit([Overlay(d, rows) EXCEPT !.usedChannels = 1])
  <2>1. 1 \in Nat /\ 1 <= d.channels
    BY <1>2
  <2> HIDE DEF d
  <2>. QED BY <1>2, <2>1, OverlayFit, UsedFit
<1>. QED BY <1>3, <1>4 DEF MonoCopied

-----------------------------------------------------------------------------
\* The inductive invariant: RowsMatch alone does not say that the objects are
\* records over natural numbers.
AllFit == /\ DOMAIN buf = Buffers
          /\ \A b \in Buffers : buf[b] # NULL => Fit(buf[b])

\* An assert(false) is out of reach only where there are at most two channels.
IInv == /\ AllFit
        /\ fault \in {"none", "assert"}
        /\ MaxChannels <= 2 => fault = "none"

\* Storing a fit object, or NULL, preserves the invariant; so does a call that
\* reaches only existing samples.
LEMMA CallKeeps ==
  ASSUME IInv, NEW b \in Buffers, NEW STATE reaches, NEW STATE new,
         reaches, Fit(new), Call(b, reaches, new)
  PROVE  IInv'
  BY DEF IInv, AllFit, Call, Store

LEMMA Counts ==
  /\ \A shape \in Geometries : /\ shape[1] \in Nat /\ shape[2] \in Nat
                                /\ shape[1] <= MaxChannels
  /\ Extents \subseteq Nat
  /\ 0 .. MaxChannels \subseteq Nat
<1>1. Geometries \subseteq (0 .. MaxChannels) \X Nat /\ MaxChannels \in Nat
  BY ConstantsAssumption
<1>2. 0 .. MaxChannels \subseteq Nat /\ \A n \in 0 .. MaxChannels : n <= MaxChannels
  OBVIOUS
<1>3. ASSUME NEW shape \in Geometries
      PROVE  shape[1] \in Nat /\ shape[2] \in Nat /\ shape[1] <= MaxChannels
  <2>1. shape[1] \in 0 .. MaxChannels /\ shape[2] \in Nat
    BY <1>1
  <2>. QED BY <1>1, <1>2, <2>1
<1>4. ASSUME NEW k \in Extents PROVE k \in Nat
  <2>1. PICK shape \in Geometries : k \in 0 .. shape[2]
    BY DEF Extents
  <2>. QED BY <1>1, <2>1
<1>. QED BY <1>2, <1>3, <1>4

LEMMA GarbageRecord ==
  ASSUME NEW g \in Garbage
  PROVE  Record(g)
  BY ConstantsAssumption DEF Record, Fields

LEMMA ConstructorsKeep ==
  ASSUME Trusted, IInv, Constructors
  PROVE  IInv'
<1> PICK b \in Buffers :
         \/ DefaultConstruct(b)
         \/ \E shape \in Geometries : Construct(b, shape[1], shape[2])
         \/ \E r \in Alive, g \in Garbage : CopyConstruct(b, r, g)
         \/ \E r \in Alive, g \in Garbage : CopyConstructMono(b, r, g)
  BY DEF Constructors
<1>1. ASSUME NEW r \in Alive PROVE Fit(buf[r])
  BY DEF Alive, IInv, AllFit
<1>2. CASE DefaultConstruct(b)
  BY <1>2, FreshFit DEF DefaultConstruct, Store, IInv, AllFit
<1>3. ASSUME NEW shape \in Geometries, Construct(b, shape[1], shape[2])
      PROVE  IInv'
  <2>1. Fit(Resize(Fresh, shape[1], shape[2]))
    BY FreshFit, ResizeFit, Counts DEF Fit
  <2>. QED BY <1>3, <2>1 DEF Construct, Store, IInv, AllFit
<1>4. ASSUME NEW r \in Alive, NEW g \in Garbage, CopyConstruct(b, r, g)
      PROVE  IInv'
  <2>1. <<g.channels, g.size>> # <<buf[r].channels, buf[r].size>>
    BY <1>4 DEF CopyConstruct, Careful, May, Trusted
  <2>2. AssignReaches(g, buf[r]) /\ Fit(Assigned(g, buf[r]))
    BY <1>1, <2>1, GarbageRecord, AssignFit
  <2>. QED BY <1>4, <2>2, CallKeeps DEF CopyConstruct
<1>5. ASSUME NEW r \in Alive, NEW g \in Garbage, CopyConstructMono(b, r, g)
      PROVE  IInv'
  <2>1. <<g.channels, g.size>> # <<1, buf[r].size>>
    BY <1>5 DEF CopyConstructMono, Careful, May, Trusted
  <2>2. MonoCopyReaches(g, buf[r]) /\ Fit(MonoCopied(g, buf[r]))
    BY <1>1, <1>5, <2>1, GarbageRecord, MonoCopyFit DEF CopyConstructMono
  <2>. QED BY <1>5, <2>2, CallKeeps DEF CopyConstructMono
<1>. QED BY <1>2, <1>3, <1>4, <1>5

LEMMA GeometryKeeps ==
  ASSUME Trusted, IInv, Geometry
  PROVE  IInv'
<1> PICK b \in Alive :
         \/ Destroy(b)
         \/ \E shape \in Geometries : DoResize(b, shape[1], shape[2])
         \/ \E n \in 0 .. MaxChannels : SetUsedChannels(b, n)
         \/ ConvertToMono(b)
         \/ AssignFloat(b)
  BY DEF Geometry
<1>1. b \in Buffers /\ Fit(buf[b])
  BY DEF Alive, IInv, AllFit
<1>2. CASE Destroy(b)
  BY <1>2 DEF Destroy, IInv, AllFit
<1>3. ASSUME NEW shape \in Geometries, DoResize(b, shape[1], shape[2])
      PROVE  IInv'
  <2>1. Fit(Resize(buf[b], shape[1], shape[2]))
    BY <1>1, ResizeFit, Counts DEF Fit
  <2>. QED BY <1>1, <1>3, <2>1 DEF DoResize, Store, IInv, AllFit
<1>4. ASSUME NEW n \in 0 .. MaxChannels, SetUsedChannels(b, n)
      PROVE  IInv'
  <2>1. Reaches(buf[b], n, buf[b].size) /\ Fit(WithUsedChannels(buf[b], n))
    BY <1>1, <1>4, WithUsedChannelsFit, Counts DEF SetUsedChannels
  <2>. QED BY <1>1, <1>4, <2>1 DEF SetUsedChannels, Call, Store, IInv, AllFit
<1>5. CASE ConvertToMono(b)
  <2>1. Reaches(buf[b], buf[b].usedChannels, buf[b].usedSize) /\ Fit(Mono(buf[b]))
    BY <1>1, <1>5, MonoFit DEF ConvertToMono
  <2>. QED BY <1>1, <1>5, <2>1 DEF ConvertToMono, Call, Store, IInv, AllFit
<1>6. CASE AssignFloat(b)
  BY <1>6 DEF AssignFloat, May, Trusted
<1>. QED BY <1>2, <1>3, <1>4, <1>5, <1>6

LEMMA CombiningKeeps ==
  ASSUME Trusted, IInv, Combining
  PROVE  IInv'
<1> PICK b \in Alive, r \in Alive :
         \/ Assign(b, r)
         \/ Mix(b, r)
         \/ ZeroAndCopy(b, r)
         \/ \E k \in Extents : Sum(b, r, k)
  BY DEF Combining
<1>1. b \in Buffers /\ Fit(buf[b]) /\ Fit(buf[r])
  BY DEF Alive, IInv, AllFit
<1>2. CASE Assign(b, r)
  <2>1. AssignReaches(buf[b], buf[r]) /\ Fit(Assigned(buf[b], buf[r]))
    BY <1>1, AssignFit DEF Fit
  <2>. QED BY <1>1, <1>2, <2>1, CallKeeps DEF Assign
<1>3. CASE Mix(b, r)
  <2>1. MixReaches(buf[b], buf[r]) /\ Fit(Mixed(buf[b], buf[r]))
    BY <1>1, MixFit
  <2>. QED BY <1>1, <1>3, <2>1, CallKeeps DEF Mix
<1>4. CASE ZeroAndCopy(b, r)
  <2> DEFINE rhs == IF r = b THEN [buf[b] EXCEPT !.isSilent = TRUE] ELSE buf[r]
  <2>1. Fit(rhs)
    <3>1. Fit([buf[b] EXCEPT !.isSilent = TRUE])
      BY <1>1, UsedFit DEF Fit, Record, Shaped
    <3>. QED BY <1>1, <3>1
  <2>2. ~rhs.isSilent => buf[b].size <= rhs.size /\ rhs.usedChannels <= buf[b].channels
    <3>1. ~rhs.isSilent => rhs.size >= buf[b].size /\ rhs.usedChannels <= buf[b].channels
      BY <1>4 DEF ZeroAndCopy, Careful, May, Trusted
    <3>2. rhs.size \in Nat /\ buf[b].size \in Nat
      BY <1>1, <2>1 DEF Fit, Record
    <3>. QED BY <3>1, <3>2
  <2>3. ZeroAndCopyReaches(buf[b], rhs) /\ Fit(ZeroedAndCopied(buf[b], rhs))
    BY <1>1, <2>1, <2>2, ZeroAndCopyFit
  <2>. QED BY <1>1, <1>4, <2>3, CallKeeps DEF ZeroAndCopy
<1>5. ASSUME NEW k \in Extents, Sum(b, r, k)
      PROVE  IInv'
  <2>1. k <= buf[b].size /\ k <= buf[r].size /\ buf[r].usedChannels <= buf[b].channels
    BY <1>5 DEF Sum, Careful, May, Trusted
  <2>2. SumReaches(buf[b], buf[r], k) /\ Fit(Summed(buf[b], buf[r], k))
    BY <1>1, <2>1, SumFit, Counts
  <2>3. CASE Stop("assert") /\ ~SumIsIdle(buf[b], buf[r]) /\ ~SumSupported(buf[b], buf[r])
    <3>1. ~(MaxChannels <= 2)
      <4> SUFFICES ASSUME MaxChannels <= 2
                   PROVE  SumIsIdle(buf[b], buf[r]) \/ SumSupported(buf[b], buf[r])
        BY <2>3
      <4>1. /\ buf[b].usedChannels \in 0 .. 2
            /\ buf[r].usedChannels \in 0 .. 2
        BY <1>1, ConstantsAssumption DEF Fit, Record, Shaped
      <4>. QED BY <4>1 DEF SumIsIdle, SumSupported
    <3>. QED BY <2>3, <3>1 DEF Stop, IInv, AllFit
  <2>4. CASE Call(b, SumReaches(buf[b], buf[r], k), Summed(buf[b], buf[r], k))
    BY <1>1, <2>2, <2>4 DEF Call, Store, IInv, AllFit
  <2>. QED BY <1>5, <2>3, <2>4 DEF Sum
<1>. QED BY <1>2, <1>3, <1>4, <1>5

LEMMA WritingKeeps ==
  ASSUME Trusted, IInv, Writing
  PROVE  IInv'
<1> PICK b \in Alive :
         \/ Zero(b)
         \/ \E k \in Extents, pos \in Extents : ZeroRange(b, k, pos)
         \/ \E v \in Levels, k \in Extents, pos \in Extents : Fill(b, v, k, pos)
         \/ \E rec \in Recordings : CreateNoise(b, rec)
         \/ \E wave \in Sines : AddSine(b, wave)
         \/ \E gain \in Gains : ApplyGain(b, gain)
         \/ \E shape \in Geometries, rec \in Recordings : Load(b, shape[1], shape[2], rec)
  BY DEF Writing
<1>1. /\ b \in Buffers /\ Fit(buf[b]) /\ Record(buf[b])
      /\ buf[b].usedChannels \in Nat /\ buf[b].usedChannels <= buf[b].channels
      /\ buf[b].size \in Nat /\ buf[b].usedSize = buf[b].size
  BY DEF Alive, IInv, AllFit, Fit, Record, Shaped
<1>2. /\ Reaches(buf[b], buf[b].usedChannels, buf[b].size)
      /\ Reaches(buf[b], buf[b].usedChannels, buf[b].usedSize)
  BY <1>1, FitReaches
<1>3. ASSUME NEW rows PROVE Fit(Overlay(buf[b], rows))
  BY <1>1, OverlayFit
<1>4. CASE Zero(b)
  <2>1. Fit([buf[b] EXCEPT !.isSilent = TRUE])
    BY <1>1, UsedFit
  <2>. QED BY <1>1, <1>4, <2>1 DEF Zero, Store, IInv, AllFit
<1>5. ASSUME NEW k \in Extents, NEW pos \in Extents, ZeroRange(b, k, pos)
      PROVE  IInv'
  <2>1. pos + k \in Int /\ pos + k <= buf[b].size
    BY <1>1, <1>5, Counts DEF ZeroRange
  <2>2. Reaches(buf[b], buf[b].usedChannels, pos + k)
    BY <1>1, <2>1, FitReaches
  <2>. QED BY <1>1, <1>3, <1>5, <2>2 DEF ZeroRange, Call, Store, IInv, AllFit
<1>6. ASSUME NEW v \in Levels, NEW k \in Extents, NEW pos \in Extents, Fill(b, v, k, pos)
      PROVE  IInv'
  <2>1. pos + k \in Int /\ pos + k <= buf[b].size
    BY <1>1, <1>6, Counts DEF Fill, Careful, May, Trusted
  <2>2. Reaches(buf[b], buf[b].usedChannels, pos + k)
    BY <1>1, <2>1, FitReaches
  <2>. QED BY <1>1, <1>3, <1>6, <2>2 DEF Fill, Call, Store, IInv, AllFit
<1>7. ASSUME NEW rec \in Recordings, CreateNoise(b, rec) PROVE IInv'
  BY <1>1, <1>2, <1>3, <1>7 DEF CreateNoise, Call, Store, IInv, AllFit
<1>8. ASSUME NEW wave \in Sines, AddSine(b, wave) PROVE IInv'
  BY <1>1, <1>2, <1>3, <1>8 DEF AddSine, Call, Store, IInv, AllFit
<1>9. ASSUME NEW gain \in Gains, ApplyGain(b, gain) PROVE IInv'
  BY <1>1, <1>2, <1>3, <1>9 DEF ApplyGain, Call, Store, IInv, AllFit
<1>10. ASSUME NEW shape \in Geometries, NEW rec \in Recordings,
              Load(b, shape[1], shape[2], rec)
       PROVE  IInv'
  <2> DEFINE d == Resize(buf[b], shape[1], shape[2])
  <2>1. Fit(d) /\ d.channels = shape[1] /\ d.size = shape[2]
    BY <1>1, ResizeFit, Counts
  <2>2. Reaches(d, shape[1], shape[2])
    BY <2>1, FitReaches, Counts
  <2>3. ASSUME NEW rows PROVE Fit([Overlay(d, rows) EXCEPT !.isSilent = FALSE])
    <3>1. Fit(Overlay(d, rows))
      BY <2>1, OverlayFit
    <3>. QED BY <3>1, UsedFit DEF Fit, Record, Shaped
  <2>. QED BY <1>1, <1>10, <2>2, <2>3 DEF Load, Call, Store, IInv, AllFit
<1>. QED BY <1>4, <1>5, <1>6, <1>7, <1>8, <1>9, <1>10

-----------------------------------------------------------------------------
LEMMA Invariance == ASSUME Trusted PROVE Spec => []IInv
<1>1. Init => IInv
  BY DEF Init, IInv, AllFit
<1>2. IInv /\ [Next]_vars => IInv'
  <2> SUFFICES ASSUME IInv, [Next]_vars PROVE IInv'
    OBVIOUS
  <2>1. CASE Next
    BY <2>1, ConstructorsKeep, GeometryKeeps, CombiningKeeps, WritingKeeps DEF Next
  <2>2. CASE UNCHANGED vars
    BY <2>2 DEF vars, IInv, AllFit
  <2>. QED BY <2>1, <2>2
<1>. QED BY <1>1, <1>2, PTL DEF Spec

\* The rows of every object are always those that its counters announce.
THEOREM RowsAlwaysMatch == ASSUME Trusted PROVE Spec => []RowsMatch
<1>1. IInv => RowsMatch
  BY DEF IInv, AllFit, RowsMatch, Alive, Fit
<1>. QED BY <1>1, Invariance, PTL

\* No step accesses a sample outside a row, for any number of channels.
THEOREM NoStrayAccess == ASSUME Trusted PROVE Spec => [](fault # "access")
<1>1. IInv => fault # "access"
  BY DEF IInv
<1>. QED BY <1>1, Invariance, PTL

\* With at most two channels, which is what the library handles, no step runs
\* into an assert(false) either.
THEOREM NeverFaults == ASSUME Trusted, MaxChannels <= 2
                       PROVE  Spec => []NoFault
<1>1. IInv => NoFault
  BY DEF IInv, NoFault
<1>. QED BY <1>1, Invariance, PTL

-----------------------------------------------------------------------------
(***************************************************************************)
(* What holds whatever the clients do, and where none makes an empty       *)
(* buffer.                                                                 *)
(***************************************************************************)
\* What every object is, whatever its clients do.
Typed(o) ==
  /\ DOMAIN o = Fields
  /\ o.channels \in Nat /\ o.usedChannels \in Nat
  /\ o.size \in Nat /\ o.usedSize \in Nat
  /\ o.isSilent \in BOOLEAN /\ o.allocated \in BOOLEAN
  /\ RowsAreLong(o)

\* What every object is where nobody makes an empty buffer: its storage is one
\* that the destructor deletes.
Deletable(o) ==
  /\ o.size > 0 <=> o.usedChannels > 0
  /\ o.allocated => o.size > 0
  /\ o.size = 0 => DOMAIN o.data = {}

Kept(o) == Typed(o) /\ (Careful("empty") => Deletable(o))

-----------------------------------------------------------------------------
LEMMA FreshKept == Kept(Fresh)
  BY DEF Kept, Typed, Deletable, Fresh, Fields, RowsAreLong

LEMMA GarbageTyped ==
  ASSUME NEW g \in Garbage
  PROVE  Typed(g) /\ g.allocated = FALSE /\ DOMAIN g.data = {}
<1>1. /\ DOMAIN g = Fields
      /\ g.channels \in Nat /\ g.usedChannels \in Nat
      /\ g.size \in Nat /\ g.usedSize \in Nat
      /\ g.isSilent \in BOOLEAN
      /\ g.data = <<>> /\ g.allocated = FALSE
  BY ConstantsAssumption DEF Fields
<1>2. g.allocated \in BOOLEAN /\ DOMAIN g.data = {}
  <2>1. g.allocated \in BOOLEAN
    BY <1>1
  <2>2. DOMAIN << >> = {}
    OBVIOUS
  <2>. QED BY <1>1, <2>1, <2>2
<1>3. RowsAreLong(g)
  BY <1>1, <1>2 DEF RowsAreLong
<1>. QED BY <1>1, <1>2, <1>3 DEF Typed

LEMMA OverlayKept ==
  ASSUME NEW o, NEW rows
  PROVE  /\ Typed(o) => Typed(Overlay(o, rows))
         /\ Kept(o) => Kept(Overlay(o, rows))
<1>1. ASSUME Typed(o) PROVE Typed(Overlay(o, rows))
  BY <1>1, OverlayFrame DEF Typed, RowsAreLong
<1>2. ASSUME Typed(o), Deletable(o) PROVE Deletable(Overlay(o, rows))
  BY <1>2, OverlayFrame DEF Typed, Deletable
<1>. QED BY <1>1, <1>2 DEF Kept

\* New values of the flag and of the used channels.
LEMMA FlagKept ==
  ASSUME NEW o, Kept(o), NEW flag \in BOOLEAN
  PROVE  Kept([o EXCEPT !.isSilent = flag])
  BY DEF Kept, Typed, Deletable, Fields, RowsAreLong

LEMMA UsedKept ==
  ASSUME NEW o, Typed(o), NEW n \in Nat,
         Careful("empty") => /\ o.size > 0 <=> n > 0
                             /\ o.allocated => o.size > 0
                             /\ o.size = 0 => DOMAIN o.data = {}
  PROVE  Kept([o EXCEPT !.usedChannels = n])
<1> DEFINE d == [o EXCEPT !.usedChannels = n]
<1>1. /\ DOMAIN d = Fields /\ d.usedChannels = n /\ d.isSilent = o.isSilent
      /\ d.channels = o.channels /\ d.size = o.size /\ d.usedSize = o.usedSize
      /\ d.allocated = o.allocated /\ d.data = o.data
  BY DEF Typed, Fields
<1> HIDE DEF d
<1>2. Kept(d)
  BY <1>1 DEF Kept, Typed, Deletable, RowsAreLong
<1>. QED BY <1>2 DEF d

LEMMA FlagAndUsedKept ==
  ASSUME NEW o, Typed(o), NEW n \in Nat, NEW flag \in BOOLEAN,
         Careful("empty") => /\ o.size > 0 <=> n > 0
                             /\ o.allocated => o.size > 0
                             /\ o.size = 0 => DOMAIN o.data = {}
  PROVE  /\ Kept([o EXCEPT !.isSilent = flag, !.usedChannels = n])
         /\ Kept([o EXCEPT !.usedChannels = n, !.isSilent = flag])
<1>1. Kept([[o EXCEPT !.usedChannels = n] EXCEPT !.isSilent = flag])
  BY UsedKept, FlagKept
<1>2. /\ [o EXCEPT !.isSilent = flag, !.usedChannels = n]
           = [[o EXCEPT !.usedChannels = n] EXCEPT !.isSilent = flag]
      /\ [o EXCEPT !.usedChannels = n, !.isSilent = flag]
           = [[o EXCEPT !.usedChannels = n] EXCEPT !.isSilent = flag]
  BY DEF Typed, Fields
<1>. QED BY <1>1, <1>2

\* A resize either changes nothing or gives new rows, all of them in use.
LEMMA ResizeSame ==
  ASSUME NEW o, NEW n, NEW s, n = o.channels, s = o.size
  PROVE  Resize(o, n, s) = o
  BY DEF Resize

LEMMA ResizeNew ==
  ASSUME NEW o, DOMAIN o = Fields, NEW n \in Nat, NEW s \in Nat, ~(n = o.channels /\ s = o.size)
  PROVE  /\ Resize(o, n, s).usedChannels = n
         /\ Resize(o, n, s).isSilent = o.isSilent
  BY DEF Resize, Fields

LEMMA ResizeShape ==
  ASSUME NEW o, DOMAIN o = Fields, NEW n, NEW s
  PROVE  Resize(o, n, s).channels = n /\ Resize(o, n, s).size = s
  BY DEF Resize, Fields

LEMMA ResizeTyped ==
  ASSUME NEW o, Typed(o), NEW n \in Nat, NEW s \in Nat
  PROVE  Typed(Resize(o, n, s))
<1>1. CASE n = o.channels /\ s = o.size
  BY <1>1, ResizeSame
<1>2. CASE ~(n = o.channels /\ s = o.size)
  <2> DEFINE d == Resize(o, n, s)
  <2>1. /\ DOMAIN d = Fields /\ d.channels = n /\ d.usedChannels = n
        /\ d.size = s /\ d.usedSize = s /\ d.data = Allocated(n, s)
        /\ d.allocated \in BOOLEAN /\ d.isSilent \in BOOLEAN
    <3>1. d = [o EXCEPT !.channels = n, !.usedChannels = n, !.size = s, !.usedSize = s,
                        !.data = Allocated(n, s), !.allocated = TRUE]
      BY <1>2 DEF Resize
    <3>. QED BY <3>1 DEF Typed, Fields
  <2> HIDE DEF d
  <2>2. \A c \in DOMAIN Allocated(n, s) : DOMAIN Allocated(n, s)[c] = Upto(s)
    BY DEF Allocated
  <2>3. Typed(d)
    BY <2>1, <2>2 DEF Typed, RowsAreLong
  <2>. QED BY <2>3 DEF d
<1>. QED BY <1>1, <1>2

LEMMA ResizeKept ==
  ASSUME NEW o, Kept(o), NEW n \in Nat, NEW s \in Nat, Sound(n, s)
  PROVE  Kept(Resize(o, n, s))
<1>1. Typed(o)
  BY DEF Kept
<1>2. CASE n = o.channels /\ s = o.size
  BY <1>2, ResizeSame
<1>3. CASE ~(n = o.channels /\ s = o.size)
  <2> DEFINE d == Resize(o, n, s)
  <2>1. Typed(d)
    BY <1>1, ResizeTyped
  <2>2. d.usedChannels = n /\ d.size = s
    <3>1. DOMAIN o = Fields
      BY <1>1 DEF Typed
    <3>. QED BY <1>3, <3>1, ResizeNew, ResizeShape
  <2> HIDE DEF d
  <2>3. Kept(d)
    BY <2>1, <2>2 DEF Kept, Deletable, Sound
  <2>. QED BY <2>3 DEF d
<1>. QED BY <1>2, <1>3

-----------------------------------------------------------------------------
\* The target of an assignment may be an object whose counters are garbage.
LEMMA AssignKept ==
  ASSUME NEW o, Typed(o), NEW rhs, Kept(rhs),
         Careful("empty") =>
           /\ o.allocated => o.size > 0
           /\ o.size = 0 => DOMAIN o.data = {}
           /\ <<rhs.channels, rhs.size>> # <<o.channels, o.size>> => rhs.size > 0
  PROVE  Kept(Assigned(o, rhs))
<1> DEFINE d == Resize(o, rhs.channels, rhs.size)
<1>1. /\ rhs.channels \in Nat /\ rhs.size \in Nat /\ rhs.usedChannels \in Nat
  BY DEF Kept, Typed
<1>2. /\ Typed(d) /\ d.size = rhs.size
      /\ rhs.channels = o.channels /\ rhs.size = o.size => d = o
  <2>1. DOMAIN o = Fields
    BY DEF Typed
  <2>2. Typed(d)
    BY <1>1, ResizeTyped
  <2>3. d.size = rhs.size
    BY <2>1, ResizeShape
  <2>4. rhs.channels = o.channels /\ rhs.size = o.size => d = o
    BY ResizeSame
  <2>. QED BY <2>2, <2>3, <2>4
<1>3. Careful("empty") => /\ d.size > 0 <=> rhs.usedChannels > 0
                          /\ d.allocated => d.size > 0
                          /\ d.size = 0 => DOMAIN d.data = {}
  <2> HIDE DEF d
  <2>1. Careful("empty") => (rhs.size > 0 <=> rhs.usedChannels > 0)
    BY DEF Kept, Deletable
  <2>. QED BY <1>1, <1>2, <2>1
<1> HIDE DEF d
<1>4. Kept([d EXCEPT !.isSilent = TRUE, !.usedChannels = rhs.usedChannels])
  BY <1>1, <1>2, <1>3, FlagAndUsedKept
<1>5. ASSUME NEW rows
      PROVE  Kept([Overlay(d, rows) EXCEPT !.isSilent = FALSE, !.usedChannels = rhs.usedChannels])
  <2>1. Typed(Overlay(d, rows))
    BY <1>2, OverlayKept
  <2>2. LET e == Overlay(d, rows)
        IN  e.size = d.size /\ e.allocated = d.allocated /\ DOMAIN e.data = DOMAIN d.data
    BY <1>2, OverlayFrame DEF Typed
  <2>. QED BY <1>1, <1>3, <2>1, <2>2, FlagAndUsedKept
<1>6. Kept(CopyFrom(d, rhs))
  BY <1>4, <1>5 DEF CopyFrom
<1>. QED BY <1>6 DEF Assigned, d

LEMMA MixKept ==
  ASSUME NEW o, Kept(o), NEW rhs, Kept(rhs)
  PROVE  Kept(Mixed(o, rhs))
<1> SUFFICES ASSUME MixCopies(o, rhs)
             PROVE  Kept(Assigned(MixTarget(o, rhs), rhs))
  BY DEF Mixed
<1> DEFINE d == MixTarget(o, rhs)
<1>1. rhs.channels \in Nat /\ rhs.size \in Nat /\ Typed(o)
  BY DEF Kept, Typed
<1>2. d = Resize(o, rhs.channels, rhs.size)
  BY DEF MixTarget
<1> HIDE DEF d
<1>3. Typed(d)
  BY <1>1, <1>2, ResizeTyped
<1>4. d.channels = rhs.channels /\ d.size = rhs.size
  BY <1>1, <1>2, ResizeShape DEF Typed
<1>5. Careful("empty") => rhs.size > 0
  BY DEF Kept, Typed, Deletable, MixCopies
<1>6. Careful("empty") => d.size > 0 /\ d.size # 0
  BY <1>1, <1>4, <1>5
<1>7. <<rhs.channels, rhs.size>> = <<d.channels, d.size>>
  BY <1>4
<1>8. Kept(Assigned(d, rhs))
  BY <1>3, <1>6, <1>7, AssignKept
<1>. QED BY <1>8 DEF d

\* An object in use stays in use on the wider of two numbers of channels.
LEMMA WidenKept ==
  ASSUME NEW o, Kept(o), o.usedChannels > 0, NEW n \in Nat, n > 0, NEW rows
  PROVE  /\ Kept([Overlay(o, rows) EXCEPT !.usedChannels = n, !.isSilent = FALSE])
         /\ Kept([Overlay(o, rows) EXCEPT !.usedChannels = n])
<1> DEFINE e == Overlay(o, rows)
<1>1. Typed(o) /\ (Careful("empty") => Deletable(o))
  BY DEF Kept
<1>2. Typed(e) /\ e.size = o.size /\ e.allocated = o.allocated /\ DOMAIN e.data = DOMAIN o.data
  <2>1. Typed(e)
    BY <1>1, OverlayKept
  <2>. QED BY <1>1, <2>1, OverlayFrame DEF Typed
<1> HIDE DEF e
<1>3. Careful("empty") => /\ e.size > 0 <=> n > 0
                          /\ e.allocated => e.size > 0
                          /\ e.size = 0 => DOMAIN e.data = {}
  BY <1>1, <1>2 DEF Deletable, Typed
<1>4. /\ Kept([e EXCEPT !.usedChannels = n, !.isSilent = FALSE])
      /\ Kept([e EXCEPT !.usedChannels = n])
  BY <1>2, <1>3, UsedKept, FlagAndUsedKept
<1>. QED BY <1>4 DEF e

LEMMA ZeroAndCopyKept ==
  ASSUME NEW o, Kept(o), NEW rhs, Kept(rhs)
  PROVE  Kept(ZeroedAndCopied(o, rhs))
<1>1. Kept([o EXCEPT !.isSilent = TRUE])
  BY FlagKept
<1>2. ASSUME o.usedChannels # 0, NEW rows
      PROVE  Kept([Overlay(o, rows) EXCEPT !.usedChannels = Wider(o.usedChannels, rhs.usedChannels),
                                           !.isSilent = FALSE])
  <2>1. o.usedChannels \in Nat /\ rhs.usedChannels \in Nat /\ o.usedChannels > 0
    BY <1>2 DEF Kept, Typed
  <2>2. /\ Wider(o.usedChannels, rhs.usedChannels) \in Nat
        /\ Wider(o.usedChannels, rhs.usedChannels) > 0
    BY <2>1 DEF Wider
  <2>. QED BY <2>1, <2>2, WidenKept
<1>. QED BY <1>1, <1>2 DEF ZeroedAndCopied

LEMMA SumKept ==
  ASSUME NEW o, Kept(o), NEW rhs, Kept(rhs), NEW k
  PROVE  Kept(Summed(o, rhs, k))
<1> SUFFICES ASSUME ~SumIsIdle(o, rhs)
             PROVE  Kept([Overlay(Unsilenced(o, rhs), SumRows(Unsilenced(o, rhs), rhs, k))
                            EXCEPT !.usedChannels = Wider(o.usedChannels, rhs.usedChannels),
                                   !.isSilent = FALSE])
  BY DEF Summed
<1> DEFINE u == Unsilenced(o, rhs)
<1>1. o.usedChannels \in Nat /\ rhs.usedChannels \in Nat /\ o.usedChannels > 0
  BY DEF Kept, Typed, SumIsIdle
<1>2. /\ Wider(o.usedChannels, rhs.usedChannels) \in Nat
      /\ Wider(o.usedChannels, rhs.usedChannels) > 0
  BY <1>1 DEF Wider
<1>3. Kept(u) /\ u.usedChannels = o.usedChannels
  BY OverlayKept, OverlayFrame DEF Unsilenced, Kept, Typed
<1> HIDE DEF u
<1>4. \A rows : Kept([Overlay(u, rows) EXCEPT !.usedChannels = Wider(o.usedChannels, rhs.usedChannels),
                                               !.isSilent = FALSE])
  BY <1>1, <1>2, <1>3, WidenKept
<1>. QED BY <1>4 DEF u

\* Channels that the rows can serve come into use only where there are samples.
LEMMA WithUsedChannelsKept ==
  ASSUME NEW o, Kept(o), NEW n \in Nat, Sound(n, 1),
         n <= o.usedChannels \/ Reaches(o, n, o.size)
  PROVE  Kept(WithUsedChannels(o, n))
<1> DEFINE e == Overlay(o, [c \in o.usedChannels .. (n - 1) |-> [i \in Upto(o.size) |-> 0]])
<1>1. Typed(o) /\ (Careful("empty") => Deletable(o) /\ n > 0)
  BY DEF Kept, Sound
<1>2. Typed(e) /\ e.size = o.size /\ e.allocated = o.allocated /\ DOMAIN e.data = DOMAIN o.data
  <2>1. Typed(e)
    BY <1>1, OverlayKept
  <2>. QED BY <1>1, <2>1, OverlayFrame DEF Typed
<1>3. Careful("empty") => o.size > 0
  <2> SUFFICES ASSUME Careful("empty"), o.size = 0 PROVE FALSE
    BY <1>1 DEF Typed
  <2>1. DOMAIN o.data = {} /\ o.usedChannels = 0
    BY <1>1 DEF Deletable, Typed
  <2>2. 0 \in Upto(n)
    BY <1>1 DEF Upto
  <2>. QED BY <1>1, <2>1, <2>2 DEF Reaches
<1> HIDE DEF e
<1>4. Kept([e EXCEPT !.usedChannels = n])
  <2>1. Careful("empty") => /\ e.size > 0 <=> n > 0
                            /\ e.allocated => e.size > 0
                            /\ e.size = 0 => DOMAIN e.data = {}
    BY <1>1, <1>2, <1>3 DEF Deletable
  <2>. QED BY <1>2, <2>1, UsedKept
<1>. QED BY <1>4 DEF WithUsedChannels, e

LEMMA MonoKept ==
  ASSUME NEW o, Kept(o), o.usedChannels > 0
  PROVE  Kept(Mono(o))
<1>1. ASSUME NEW rows PROVE Kept([Overlay(o, rows) EXCEPT !.usedChannels = 1])
  <2>1. 1 \in Nat /\ 1 > 0
    OBVIOUS
  <2>. QED BY <2>1, WidenKept
<1>. QED BY <1>1 DEF Mono

LEMMA MonoCopyKept ==
  ASSUME NEW g \in Garbage, NEW rhs, Kept(rhs), rhs.usedChannels > 1
  PROVE  Kept(MonoCopied(g, rhs))
<1> DEFINE d == Resize(g, 1, rhs.size)
<1>1. rhs.size \in Nat /\ (Careful("empty") => rhs.size > 0)
  BY DEF Kept, Typed, Deletable
<1>2. Typed(d) /\ d.size = rhs.size
  <2>1. Typed(g) /\ rhs.size \in Nat /\ 1 \in Nat
    BY <1>1, GarbageTyped
  <2>2. DOMAIN g = Fields
    BY <2>1 DEF Typed
  <2>3. Typed(d)
    BY <2>1, ResizeTyped
  <2>4. d.size = rhs.size
    BY <2>2, ResizeShape
  <2>. QED BY <2>3, <2>4
<1> HIDE DEF d
<1>3. ASSUME NEW rows PROVE Kept([Overlay(d, rows) EXCEPT !.usedChannels = 1])
  <2>1. Typed(Overlay(d, rows))
    BY <1>2, OverlayKept
  <2>2. Overlay(d, rows).size = rhs.size
    BY <1>2, OverlayFrame DEF Typed
  <2>3. 1 \in Nat /\ (Careful("empty") => Overlay(d, rows).size > 0 /\ Overlay(d, rows).size # 0)
    BY <1>1, <2>2
  <2>. QED BY <2>1, <2>3, UsedKept
<1>. QED BY <1>3 DEF MonoCopied, d

-----------------------------------------------------------------------------
\* The inductive invariant for any client.
Whole == /\ DOMAIN buf = Buffers
         /\ \A b \in Buffers : buf[b] # NULL => Kept(buf[b]) /\ Bounded(buf[b])
         /\ fault \in {"none", "access", "assert"}
         /\ leaked \in BOOLEAN
         /\ Careful("empty") => ~leaked

\* A method that leaves an object which is Kept, if it does not stop the
\* program, preserves the invariant.
LEMMA CallIsWhole ==
  ASSUME Whole, NEW b \in Buffers, NEW STATE reaches, NEW STATE new,
         reaches => Kept(new), Call(b, reaches, new)
  PROVE  Whole'
<1>1. CASE reaches /\ Store(b, new)
  BY <1>1 DEF Whole, Store
<1>2. CASE Stop("access")
  BY <1>2 DEF Whole, Stop
<1>. QED BY <1>1, <1>2 DEF Call

LEMMA StoreIsWhole ==
  ASSUME Whole, NEW b \in Buffers, NEW STATE new, Kept(new), Store(b, new)
  PROVE  Whole'
  BY DEF Whole, Store

LEMMA ConstructorsAreWhole ==
  ASSUME Whole, Constructors
  PROVE  Whole'
<1> PICK b \in Buffers :
         \/ DefaultConstruct(b)
         \/ \E shape \in Geometries : Construct(b, shape[1], shape[2])
         \/ \E r \in Alive, g \in Garbage : CopyConstruct(b, r, g)
         \/ \E r \in Alive, g \in Garbage : CopyConstructMono(b, r, g)
  BY DEF Constructors
<1>1. ASSUME NEW r \in Alive PROVE Kept(buf[r])
  BY DEF Alive, Whole
<1>2. CASE DefaultConstruct(b)
  BY <1>2, FreshKept, StoreIsWhole DEF DefaultConstruct
<1>3. ASSUME NEW shape \in Geometries, Construct(b, shape[1], shape[2])
      PROVE  Whole'
  <2>1. Kept(Resize(Fresh, shape[1], shape[2]))
    BY <1>3, FreshKept, ResizeKept, Counts DEF Construct
  <2>. QED BY <1>3, <2>1, StoreIsWhole DEF Construct
<1>4. ASSUME NEW r \in Alive, NEW g \in Garbage, CopyConstruct(b, r, g)
      PROVE  Whole'
  <2>1. Sound(buf[r].channels, buf[r].size) /\ Typed(g) /\ DOMAIN g.data = {} /\ ~g.allocated
    BY <1>4, GarbageTyped DEF CopyConstruct
  <2>2. Kept(Assigned(g, buf[r]))
    BY <1>1, <2>1, AssignKept DEF Sound
  <2>. QED BY <1>4, <2>2, CallIsWhole DEF CopyConstruct
<1>5. ASSUME NEW r \in Alive, NEW g \in Garbage, CopyConstructMono(b, r, g)
      PROVE  Whole'
  <2>1. Kept(MonoCopied(g, buf[r]))
    BY <1>1, <1>5, MonoCopyKept DEF CopyConstructMono
  <2>. QED BY <1>5, <2>1, CallIsWhole DEF CopyConstructMono
<1>. QED BY <1>2, <1>3, <1>4, <1>5

LEMMA GeometryIsWhole ==
  ASSUME Whole, Geometry
  PROVE  Whole'
<1> PICK b \in Alive :
         \/ Destroy(b)
         \/ \E shape \in Geometries : DoResize(b, shape[1], shape[2])
         \/ \E n \in 0 .. MaxChannels : SetUsedChannels(b, n)
         \/ ConvertToMono(b)
         \/ AssignFloat(b)
  BY DEF Geometry
<1>1. b \in Buffers /\ Kept(buf[b])
  BY DEF Alive, Whole
<1>2. CASE Destroy(b)
  <2>1. buf[b].allocated \in BOOLEAN
    BY <1>1 DEF Kept, Typed
  <2>2. Careful("empty") => ~(buf[b].allocated /\ (buf[b].usedChannels = 0 \/ buf[b].size = 0))
    BY <1>1 DEF Kept, Typed, Deletable
  <2>3. leaked' \in BOOLEAN /\ (Careful("empty") => ~leaked')
    BY <1>2, <2>1, <2>2 DEF Destroy, Whole
  <2>. QED BY <1>1, <1>2, <2>3 DEF Destroy, Whole
<1>3. ASSUME NEW shape \in Geometries, DoResize(b, shape[1], shape[2])
      PROVE  Whole'
  <2>1. Kept(Resize(buf[b], shape[1], shape[2]))
    BY <1>1, <1>3, ResizeKept, Counts DEF DoResize
  <2>. QED BY <1>1, <1>3, <2>1, StoreIsWhole DEF DoResize
<1>4. ASSUME NEW n \in 0 .. MaxChannels, SetUsedChannels(b, n)
      PROVE  Whole'
  <2>1. n <= buf[b].usedChannels \/ Reaches(buf[b], n, buf[b].size) => Kept(WithUsedChannels(buf[b], n))
    BY <1>1, <1>4, WithUsedChannelsKept, Counts DEF SetUsedChannels
  <2>. QED BY <1>1, <1>4, <2>1, CallIsWhole DEF SetUsedChannels
<1>5. CASE ConvertToMono(b)
  <2>1. Kept(Mono(buf[b]))
    BY <1>1, <1>5, MonoKept DEF ConvertToMono
  <2>. QED BY <1>1, <1>5, <2>1, CallIsWhole DEF ConvertToMono
<1>6. CASE AssignFloat(b)
  <2>1. Kept([buf[b] EXCEPT !.isSilent = TRUE, !.channels = 1])
    BY <1>1 DEF Kept, Typed, Deletable, Fields, RowsAreLong
  <2>. QED BY <1>1, <1>6, <2>1, StoreIsWhole DEF AssignFloat
<1>. QED BY <1>2, <1>3, <1>4, <1>5, <1>6

LEMMA CombiningIsWhole ==
  ASSUME Whole, Combining
  PROVE  Whole'
<1> PICK b \in Alive, r \in Alive :
         \/ Assign(b, r)
         \/ Mix(b, r)
         \/ ZeroAndCopy(b, r)
         \/ \E k \in Extents : Sum(b, r, k)
  BY DEF Combining
<1>1. b \in Buffers /\ Kept(buf[b]) /\ Kept(buf[r])
  BY DEF Alive, Whole
<1>2. CASE Assign(b, r)
  <2>1. Typed(buf[b]) /\ (Careful("empty") => Deletable(buf[b]))
    BY <1>1 DEF Kept
  <2>2. Careful("empty") /\ <<buf[r].channels, buf[r].size>> # <<buf[b].channels, buf[b].size>>
          => buf[r].size > 0
    BY <1>2 DEF Assign, Sound
  <2>3. Kept(Assigned(buf[b], buf[r]))
    BY <1>1, <2>1, <2>2, AssignKept DEF Deletable
  <2>. QED BY <1>1, <1>2, <2>3, CallIsWhole DEF Assign
<1>3. CASE Mix(b, r)
  BY <1>1, <1>3, MixKept, CallIsWhole DEF Mix
<1>4. CASE ZeroAndCopy(b, r)
  <2> DEFINE rhs == IF r = b THEN [buf[b] EXCEPT !.isSilent = TRUE] ELSE buf[r]
  <2>1. Kept([buf[b] EXCEPT !.isSilent = TRUE])
    BY <1>1, FlagKept
  <2>2. Kept(ZeroedAndCopied(buf[b], rhs))
    BY <1>1, <2>1, ZeroAndCopyKept
  <2>. QED BY <1>1, <1>4, <2>2, CallIsWhole DEF ZeroAndCopy
<1>5. ASSUME NEW k \in Extents, Sum(b, r, k)
      PROVE  Whole'
  <2>1. CASE Stop("assert")
    BY <2>1 DEF Stop, Whole
  <2>2. CASE Call(b, SumReaches(buf[b], buf[r], k), Summed(buf[b], buf[r], k))
    BY <1>1, <2>2, SumKept, CallIsWhole
  <2>. QED BY <1>5, <2>1, <2>2 DEF Sum
<1>. QED BY <1>2, <1>3, <1>4, <1>5

LEMMA WritingIsWhole ==
  ASSUME Whole, Writing
  PROVE  Whole'
<1> PICK b \in Alive :
         \/ Zero(b)
         \/ \E k \in Extents, pos \in Extents : ZeroRange(b, k, pos)
         \/ \E v \in Levels, k \in Extents, pos \in Extents : Fill(b, v, k, pos)
         \/ \E rec \in Recordings : CreateNoise(b, rec)
         \/ \E wave \in Sines : AddSine(b, wave)
         \/ \E gain \in Gains : ApplyGain(b, gain)
         \/ \E shape \in Geometries, rec \in Recordings : Load(b, shape[1], shape[2], rec)
  BY DEF Writing
<1>1. b \in Buffers /\ Kept(buf[b])
  BY DEF Alive, Whole
<1>2. ASSUME NEW rows PROVE Kept(Overlay(buf[b], rows))
  BY <1>1, OverlayKept
<1>3. CASE Zero(b)
  <2>1. Kept([buf[b] EXCEPT !.isSilent = TRUE])
    BY <1>1, FlagKept
  <2>. QED BY <1>1, <1>3, <2>1, StoreIsWhole DEF Zero
<1>4. ASSUME NEW k \in Extents, NEW pos \in Extents, ZeroRange(b, k, pos)
      PROVE  Whole'
  BY <1>1, <1>2, <1>4, CallIsWhole DEF ZeroRange
<1>5. ASSUME NEW v \in Levels, NEW k \in Extents, NEW pos \in Extents, Fill(b, v, k, pos)
      PROVE  Whole'
  <2>1. CASE k = 0
    BY <1>1, <1>5, <2>1, CallIsWhole DEF Fill
  <2>2. CASE k # 0
    BY <1>1, <1>2, <1>5, <2>2, CallIsWhole DEF Fill
  <2>. QED BY <2>1, <2>2
<1>6. ASSUME NEW rec \in Recordings, CreateNoise(b, rec) PROVE Whole'
  BY <1>1, <1>2, <1>6, CallIsWhole DEF CreateNoise
<1>7. ASSUME NEW wave \in Sines, AddSine(b, wave) PROVE Whole'
  BY <1>1, <1>2, <1>7, CallIsWhole DEF AddSine
<1>8. ASSUME NEW gain \in Gains, ApplyGain(b, gain) PROVE Whole'
  BY <1>1, <1>2, <1>8, CallIsWhole DEF ApplyGain
<1>9. ASSUME NEW shape \in Geometries, NEW rec \in Recordings,
             Load(b, shape[1], shape[2], rec)
      PROVE  Whole'
  <2> DEFINE d == Resize(buf[b], shape[1], shape[2])
  <2>1. Kept(d)
    BY <1>1, <1>9, ResizeKept, Counts DEF Load
  <2> HIDE DEF d
  <2>2. \A rows : Kept([Overlay(d, rows) EXCEPT !.isSilent = FALSE])
    BY <2>1, OverlayKept, FlagKept
  <2>. QED BY <1>1, <1>9, <2>2, CallIsWhole DEF Load, d
<1>. QED BY <1>3, <1>4, <1>5, <1>6, <1>7, <1>8, <1>9

LEMMA AlwaysWhole == Spec => []Whole
<1>1. Init => Whole
  BY DEF Init, Whole
<1>2. Whole /\ [Next]_vars => Whole'
  <2> SUFFICES ASSUME Whole, [Next]_vars PROVE Whole'
    OBVIOUS
  <2>1. CASE Next
    BY <2>1, ConstructorsAreWhole, GeometryIsWhole, CombiningIsWhole, WritingIsWhole DEF Next
  <2>2. CASE UNCHANGED vars
    BY <2>2 DEF vars, Whole
  <2>. QED BY <2>1, <2>2
<1>. QED BY <1>1, <1>2, PTL DEF Spec

-----------------------------------------------------------------------------
\* Whatever the clients do, the counters and the flags keep their kinds: no
\* method leaves the flag, or a counter, as it found it in stale memory.
THEOREM TypesHold == Spec => []TypeOK
<1>1. Whole => TypeOK
  BY DEF Whole, TypeOK, Alive, Kept, Typed
<1>. QED BY <1>1, AlwaysWhole, PTL

\* Whatever the clients do, every row that exists has as many samples as the
\* object's size says, which is what usedSize says of an allocated object.
THEOREM RowsStayLong == Spec => []RowLength
<1>1. Whole => RowLength
  BY DEF Whole, RowLength, Alive, Kept, Typed
<1>. QED BY <1>1, AlwaysWhole, PTL

\* Where nobody asks for a buffer without channels or without samples, the
\* destructor deletes all storage, although it looks at usedChannels and size
\* to tell whether there is any.
THEOREM NothingLeaks == ASSUME Careful("empty") PROVE Spec => []NoLeak
<1>1. Whole => NoLeak
  BY DEF Whole, NoLeak
<1>. QED BY <1>1, AlwaysWhole, PTL

-----------------------------------------------------------------------------
\* Positions and channels.
LEMMA InUpto ==
  ASSUME NEW i, NEW n \in Nat
  PROVE  i \in Upto(n) <=> i \in Nat /\ i < n
  BY DEF Upto

\* An assignment that runs to its end makes its target heard as its source.
LEMMA AssignedIsHeard ==
  ASSUME NEW o, DOMAIN o = Fields, NEW rhs, AssignReaches(o, rhs)
  PROVE  Heard(Assigned(o, rhs)) = Heard(rhs)
<1> DEFINE d == Resize(o, rhs.channels, rhs.size)
           e == CopyFrom(d, rhs)
<1>1. DOMAIN d = Fields /\ d.size = rhs.size
  BY DEF Resize, Fields
<1>2. CopyReaches(d, rhs)
  BY DEF AssignReaches
<1> HIDE DEF d
<1>3. CASE rhs.isSilent
  <2>1. e.isSilent = TRUE /\ e.usedChannels = rhs.usedChannels /\ e.size = rhs.size
    BY <1>1, <1>3 DEF CopyFrom, Fields
  <2> HIDE DEF e
  <2>2. Heard(e) = Heard(rhs)
    BY <1>3, <2>1 DEF Heard
  <2>. QED BY <2>2 DEF e, d, Assigned
<1>4. CASE ~rhs.isSilent
  <2> DEFINE w == Overlay(d, UsedRows(rhs, d.size))
  <2>1. DOMAIN w = Fields /\ w.size = rhs.size
    BY <1>1, OverlayFrame
  <2>2. ASSUME NEW c \in Upto(rhs.usedChannels), NEW i \in Upto(rhs.size)
        PROVE  w.data[c][i] = rhs.data[c][i]
    <3>1. c \in DOMAIN d.data /\ i \in DOMAIN d.data[c]
      BY <1>1, <1>2, <1>4 DEF CopyReaches, Reaches
    <3>2. w.data = [x \in DOMAIN d.data |-> [y \in DOMAIN d.data[x] |->
                      IF x \in Upto(rhs.usedChannels) /\ y \in Upto(rhs.size)
                      THEN rhs.data[x][y] ELSE d.data[x][y]]]
      BY <1>1 DEF Overlay, UsedRows, Fields
    <3>. QED BY <3>1, <3>2
  <2> HIDE DEF w
  <2>3. e = [w EXCEPT !.isSilent = FALSE, !.usedChannels = rhs.usedChannels]
    BY <1>4 DEF CopyFrom, w
  <2>4. /\ e.isSilent = FALSE /\ e.usedChannels = rhs.usedChannels
        /\ e.size = rhs.size /\ e.data = w.data
    BY <2>1, <2>3 DEF Fields
  <2> HIDE DEF e
  <2>5. Heard(e) = Heard(rhs)
    BY <1>4, <2>2, <2>4 DEF Heard
  <2>. QED BY <2>5 DEF e, d, Assigned
<1>. QED BY <1>3, <1>4

\* Whatever the clients do, a copy is heard as its source, and so is the target
\* of an assignment, unless the program stops.
THEOREM CopiesAlwaysAgree == Spec => CopiesAgree
<1>1. Whole /\ [Next]_vars =>
        [\A b \in Buffers, r \in Alive :
           /\ buf'[b] # buf[b]
           /\ \/ \E g \in Garbage : CopyConstruct(b, r, g)
              \/ b \in Alive /\ Assign(b, r)
           => Heard(buf'[b]) = Heard(buf[r])]_vars
  <2> SUFFICES ASSUME Whole, NEW b \in Buffers, NEW r \in Alive, buf'[b] # buf[b]
               PROVE  /\ \A g \in Garbage : CopyConstruct(b, r, g) => Heard(buf'[b]) = Heard(buf[r])
                      /\ b \in Alive /\ Assign(b, r) => Heard(buf'[b]) = Heard(buf[r])
    OBVIOUS
  <2>1. ASSUME NEW STATE reaches, NEW STATE new, Call(b, reaches, new)
        PROVE  reaches /\ buf'[b] = new
    BY <2>1 DEF Call, Store, Stop, Whole
  <2>2. ASSUME NEW g \in Garbage, CopyConstruct(b, r, g)
        PROVE  Heard(buf'[b]) = Heard(buf[r])
    <3>1. AssignReaches(g, buf[r]) /\ buf'[b] = Assigned(g, buf[r])
      BY <2>1, <2>2 DEF CopyConstruct
    <3>2. DOMAIN g = Fields
      BY GarbageTyped DEF Typed
    <3>. QED BY <3>1, <3>2, AssignedIsHeard
  <2>3. ASSUME b \in Alive, Assign(b, r)
        PROVE  Heard(buf'[b]) = Heard(buf[r])
    <3>1. AssignReaches(buf[b], buf[r]) /\ buf'[b] = Assigned(buf[b], buf[r])
      BY <2>1, <2>3 DEF Assign
    <3>2. DOMAIN buf[b] = Fields
      BY <2>3 DEF Whole, Alive, Kept, Typed
    <3>. QED BY <3>1, <3>2, AssignedIsHeard
  <2>. QED BY <2>2, <2>3
<1>. QED BY <1>1, AlwaysWhole, PTL DEF Spec, CopiesAgree

-----------------------------------------------------------------------------
(***************************************************************************)
(* What is heard.  The invariant behind both theorems on it is that the    *)
(* signal heard of every object is made of numbers (AllSound).  It needs   *)
(* that the rows are those that the counters announce (IInv) and that the  *)
(* flag is a Boolean (Whole).                                              *)
(***************************************************************************)

\* Every sample of a signal is a number.
Sounding(x) == \A c \in DOMAIN x.rows : \A i \in DOMAIN x.rows[c] : x.rows[c][i] \in Int

\* What is recorded, or added, has a number for each of s samples.
Recordable(s) ==
  \A i \in Upto(s) : /\ \A wave \in Sines : wave[i] \in Int
                     /\ \A rec \in Recordings, c \in Upto(MaxChannels) : rec[c][i] \in Int

\* Signal brings its own copies of these two, which compute the same.
LEMMA SameCardinality == ASSUME NEW S PROVE Ideal!Cardinality(S) = Cardinality(S)
  BY DEF Ideal!Cardinality, Cardinality

LEMMA SameSum == ASSUME NEW f PROVE Ideal!SumFunction(f) = SumFunctionOnSet(f, DOMAIN f)
  BY DEF Ideal!SumFunction, Ideal!SumFunctionOnSet, SumFunctionOnSet,
         Ideal!FoldFunctionOnSet, FoldFunctionOnSet, Ideal!MapThenFoldSet, MapThenFoldSet

LEMMA HeardParts ==
  ASSUME NEW o, o.usedChannels \in Nat
  PROVE  /\ Heard(o).len = o.size
         /\ Ideal!Channels(Heard(o)) = Upto(o.usedChannels)
         /\ Ideal!Width(Heard(o)) = o.usedChannels
         /\ Ideal!Positions(Heard(o)) = Upto(o.size)
<1>1. /\ Heard(o).len = o.size
      /\ Ideal!Channels(Heard(o)) = Upto(o.usedChannels)
      /\ Ideal!Positions(Heard(o)) = Upto(o.size)
  BY DEF Heard, Ideal!Channels, Ideal!Positions, Upto
<1>2. Cardinality(0 .. (o.usedChannels - 1)) = o.usedChannels
  <2>1. 0 \in Int /\ o.usedChannels - 1 \in Int
    OBVIOUS
  <2>2. Cardinality(0 .. (o.usedChannels - 1)) =
          IF 0 > o.usedChannels - 1 THEN 0 ELSE (o.usedChannels - 1) - 0 + 1
    BY <2>1, FS_Interval
  <2>. QED BY <2>2
<1>3. Ideal!Width(Heard(o)) = Cardinality(Upto(o.usedChannels))
  BY <1>1, SameCardinality DEF Ideal!Width
<1>. QED BY <1>1, <1>2, <1>3 DEF Upto

\* A silent object is heard as silence.
LEMMA SilentIsHeard ==
  ASSUME NEW o, o.isSilent = TRUE
  PROVE  /\ Heard(o) = Ideal!Silence(o.usedChannels, o.size)
         /\ Sounding(Heard(o))
<1>1. Heard(o) = [len |-> o.size, rows |-> [c \in Upto(o.usedChannels) |-> [i \in Upto(o.size) |-> 0]]]
  BY DEF Heard
<1>2. Heard(o) = Ideal!Silence(o.usedChannels, o.size)
  BY <1>1 DEF Ideal!Silence, Upto
<1>3. Sounding(Heard(o))
  BY <1>1 DEF Sounding
<1>. QED BY <1>2, <1>3

LEMMA OverlayAt ==
  ASSUME NEW o, Fit(o), NEW rows, NEW c \in Upto(o.channels), NEW i \in Upto(o.size)
  PROVE  Overlay(o, rows).data[c][i] =
           IF c \in DOMAIN rows /\ i \in DOMAIN rows[c] THEN rows[c][i] ELSE o.data[c][i]
<1>1. DOMAIN o.data = Upto(o.channels) /\ DOMAIN o.data[c] = Upto(o.size) /\ DOMAIN o = Fields
  BY DEF Fit, Record, Shaped
<1>2. Overlay(o, rows).data =
        [x \in DOMAIN o.data |-> [y \in DOMAIN o.data[x] |->
           IF x \in DOMAIN rows /\ y \in DOMAIN rows[x] THEN rows[x][y] ELSE o.data[x][y]]]
  BY <1>1 DEF Overlay, Fields
<1>. QED BY <1>1, <1>2

\* The samples stored in the used rows of an audible object are heard, and the
\* other samples stay.
LEMMA StoredIsHeard ==
  ASSUME NEW o, Fit(o), o.isSilent = FALSE, NEW rows
  PROVE  Heard(Overlay(o, rows)) =
           [len |-> o.size,
            rows |-> [c \in Upto(o.usedChannels) |-> [i \in Upto(o.size) |->
              IF c \in DOMAIN rows /\ i \in DOMAIN rows[c] THEN rows[c][i] ELSE o.data[c][i]]]]
<1> DEFINE d == Overlay(o, rows)
<1>1. d.isSilent = FALSE /\ d.usedChannels = o.usedChannels /\ d.size = o.size
  BY OverlayFrame DEF Fit, Record
<1>2. \A c \in Upto(o.usedChannels) : c \in Upto(o.channels)
  BY DEF Fit, Record, Shaped, Upto
<1>3. \A c \in Upto(o.usedChannels), i \in Upto(o.size) :
        d.data[c][i] = IF c \in DOMAIN rows /\ i \in DOMAIN rows[c] THEN rows[c][i] ELSE o.data[c][i]
  BY <1>2, OverlayAt
<1> HIDE DEF d
<1>4. Heard(d) =
           [len |-> o.size,
            rows |-> [c \in Upto(o.usedChannels) |-> [i \in Upto(o.size) |->
              IF c \in DOMAIN rows /\ i \in DOMAIN rows[c] THEN rows[c][i] ELSE o.data[c][i]]]]
  BY <1>1, <1>3 DEF Heard
<1>. QED BY <1>4 DEF d

LEMMA StoredIsSounding ==
  ASSUME NEW o, Fit(o), o.isSilent = FALSE, Sounding(Heard(o)), NEW rows,
         \A c \in Upto(o.usedChannels), i \in Upto(o.size) :
           c \in DOMAIN rows /\ i \in DOMAIN rows[c] => rows[c][i] \in Int
  PROVE  Sounding(Heard(Overlay(o, rows)))
<1>1. \A c \in Upto(o.usedChannels), i \in Upto(o.size) : o.data[c][i] \in Int
  BY DEF Heard, Sounding
<1> DEFINE Value(c, i) == IF c \in DOMAIN rows /\ i \in DOMAIN rows[c] THEN rows[c][i] ELSE o.data[c][i]
<1>2. \A c \in Upto(o.usedChannels), i \in Upto(o.size) : Value(c, i) \in Int
  BY <1>1
<1>3. Heard(Overlay(o, rows)) =
        [len |-> o.size, rows |-> [c \in Upto(o.usedChannels) |-> [i \in Upto(o.size) |-> Value(c, i)]]]
  BY StoredIsHeard
<1> HIDE DEF Value
<1>. QED BY <1>2, <1>3 DEF Sounding

\* Nothing of what is stored in a silent object is heard.
LEMMA StoredIsHidden ==
  ASSUME NEW o, Fit(o), o.isSilent = TRUE, NEW rows
  PROVE  Heard(Overlay(o, rows)) = Heard(o)
<1>1. /\ Overlay(o, rows).isSilent = TRUE
      /\ Overlay(o, rows).usedChannels = o.usedChannels /\ Overlay(o, rows).size = o.size
  BY OverlayFrame DEF Fit, Record
<1>. QED BY <1>1, SilentIsHeard

\* The sound of an audible object is in its rows.
LEMMA RowsAreHeard ==
  ASSUME NEW o, o.isSilent = FALSE, NEW c \in Upto(o.usedChannels), NEW i \in Upto(o.size)
  PROVE  Heard(o).rows[c][i] = o.data[c][i]
  BY DEF Heard

LEMMA SoundIsInRows ==
  ASSUME NEW o, o.isSilent = FALSE
  PROVE  Sounding(Heard(o)) <=>
           \A c \in Upto(o.usedChannels), i \in Upto(o.size) : o.data[c][i] \in Int
  BY DEF Heard, Sounding

-----------------------------------------------------------------------------
\* zeroAndcopy() of an audible object that is as long and as wide.
LEMMA CopiedIsHeard ==
  ASSUME NEW o, Fit(o), NEW rhs, Fit(rhs), o.usedChannels # 0, rhs.isSilent = FALSE,
         rhs.size >= o.size, rhs.usedChannels <= o.channels, rhs.usedChannels >= o.usedChannels,
         Sounding(Heard(rhs))
  PROVE  /\ Heard(ZeroedAndCopied(o, rhs)) = Ideal!Signal(rhs.usedChannels, o.size, Heard(rhs).rows)
         /\ Sounding(Heard(ZeroedAndCopied(o, rhs)))
<1> DEFINE d == Overlay(o, UsedRows(rhs, o.size))
           e == ZeroedAndCopied(o, rhs)
<1>1. /\ o.usedChannels \in Nat /\ rhs.usedChannels \in Nat /\ o.size \in Nat /\ rhs.size \in Nat
      /\ o.channels \in Nat /\ DOMAIN o = Fields
  BY DEF Fit, Record
<1>2. Wider(o.usedChannels, rhs.usedChannels) = rhs.usedChannels
  BY <1>1 DEF Wider
<1>3. e = [d EXCEPT !.usedChannels = rhs.usedChannels, !.isSilent = FALSE]
  BY <1>2 DEF ZeroedAndCopied
<1>4. \A c \in Upto(rhs.usedChannels), i \in Upto(o.size) : d.data[c][i] = rhs.data[c][i]
  <2>1. \A c \in Upto(rhs.usedChannels) : c \in Upto(o.channels)
    BY <1>1 DEF Upto
  <2>. QED BY <2>1, OverlayAt DEF UsedRows
<1>5. DOMAIN d = Fields /\ d.size = o.size
  BY <1>1, OverlayFrame
<1> HIDE DEF d
<1>6. e.isSilent = FALSE /\ e.usedChannels = rhs.usedChannels /\ e.size = o.size /\ e.data = d.data
  BY <1>3, <1>5 DEF Fields
<1> HIDE DEF e
<1>7. Heard(e) = [len |-> o.size, rows |-> [c \in Upto(rhs.usedChannels) |-> [i \in Upto(o.size) |-> rhs.data[c][i]]]]
  BY <1>4, <1>6 DEF Heard
<1>8. \A c \in Upto(rhs.usedChannels), i \in Upto(o.size) : Heard(rhs).rows[c][i] = rhs.data[c][i]
  <2> SUFFICES ASSUME NEW c \in Upto(rhs.usedChannels), NEW i \in Upto(o.size)
               PROVE  Heard(rhs).rows[c][i] = rhs.data[c][i]
    OBVIOUS
  <2>1. i \in Upto(rhs.size)
    BY <1>1 DEF Upto
  <2>. QED BY <2>1, RowsAreHeard
<1>9. Heard(e) = [len |-> o.size, rows |-> [c \in Upto(rhs.usedChannels) |-> [i \in Upto(o.size) |-> Heard(rhs).rows[c][i]]]]
  BY <1>7, <1>8
<1>10. Sounding(Heard(e))
  <2>1. \A i \in Upto(o.size) : i \in Upto(rhs.size)
    BY <1>1 DEF Upto
  <2>2. \A c \in Upto(rhs.usedChannels), i \in Upto(rhs.size) : rhs.data[c][i] \in Int
    BY SoundIsInRows
  <2>. QED BY <1>7, <2>1, <2>2 DEF Sounding
<1>. QED BY <1>9, <1>10 DEF e, Ideal!Signal, Upto

\* setUsedChannels().
LEMMA WidenedIsHeard ==
  ASSUME NEW o, Fit(o), o.isSilent \in BOOLEAN, NEW n \in Nat, n <= o.channels, Sounding(Heard(o))
  PROVE  /\ Heard(WithUsedChannels(o, n)) = Ideal!Widened(Heard(o), n)
         /\ Sounding(Heard(WithUsedChannels(o, n)))
<1> DEFINE rows == [c \in o.usedChannels .. (n - 1) |-> [i \in Upto(o.size) |-> 0]]
           d == Overlay(o, rows)
           e == WithUsedChannels(o, n)
<1>1. o.usedChannels \in Nat /\ o.channels \in Nat /\ DOMAIN o = Fields
  BY DEF Fit, Record
<1>2. /\ e = [d EXCEPT !.usedChannels = n]
      /\ DOMAIN d = Fields /\ d.size = o.size /\ d.isSilent = o.isSilent
  BY <1>1, OverlayFrame DEF WithUsedChannels
<1>3. ASSUME NEW c \in Upto(n), NEW i \in Upto(o.size)
      PROVE  d.data[c][i] = IF c \in Upto(o.usedChannels) THEN o.data[c][i] ELSE 0
  <2>1. c \in Upto(o.channels) /\ (c \in Upto(o.usedChannels) <=> c \notin o.usedChannels .. (n - 1))
    BY <1>1 DEF Upto
  <2>2. d.data[c][i] = IF c \in DOMAIN rows /\ i \in DOMAIN rows[c] THEN rows[c][i] ELSE o.data[c][i]
    <3> HIDE DEF rows
    <3>. QED BY <2>1, OverlayAt
  <2>3. CASE c \in Upto(o.usedChannels)
    BY <2>1, <2>2, <2>3
  <2>4. CASE c \notin Upto(o.usedChannels)
    BY <2>1, <2>2, <2>4
  <2>. QED BY <2>3, <2>4
<1> HIDE DEF d
<1>4. e.usedChannels = n /\ e.size = o.size /\ e.isSilent = o.isSilent /\ e.data = d.data
  BY <1>2 DEF Fields
<1> HIDE DEF e
<1>5. Ideal!Widened(Heard(o), n) =
        [len |-> o.size, rows |-> [c \in Upto(n) |-> [i \in Upto(o.size) |->
           IF c \in Upto(o.usedChannels) THEN IF o.isSilent THEN 0 ELSE o.data[c][i] ELSE 0]]]
  <2>1. Ideal!Widened(Heard(o), n) =
        [Heard(o) EXCEPT !.rows = [c \in Upto(n) |-> [i \in Upto(o.size) |->
           IF c \in Upto(o.usedChannels) THEN Heard(o).rows[c][i] ELSE 0]]]
    BY <1>1, HeardParts DEF Ideal!Widened, Upto
  <2>. QED BY SMTT(20), <2>1 DEF Heard
<1>6. Heard(e) =
        [len |-> o.size, rows |-> [c \in Upto(n) |-> [i \in Upto(o.size) |->
           IF c \in Upto(o.usedChannels) THEN IF o.isSilent THEN 0 ELSE o.data[c][i] ELSE 0]]]
  <2>1. ASSUME NEW c \in Upto(n), NEW i \in Upto(o.size)
        PROVE  (IF e.isSilent THEN 0 ELSE e.data[c][i]) =
                 IF c \in Upto(o.usedChannels) THEN IF o.isSilent THEN 0 ELSE o.data[c][i] ELSE 0
    BY <1>3, <1>4
  <2>. QED BY <1>4, <2>1 DEF Heard
<1>7. Sounding(Heard(e))
  <2>1. \A c \in Upto(o.usedChannels), i \in Upto(o.size) : (IF o.isSilent THEN 0 ELSE o.data[c][i]) \in Int
    BY DEF Heard, Sounding
  <2>. QED BY <1>6, <2>1 DEF Sounding
<1>. QED BY <1>5, <1>6, <1>7 DEF e

\* sum() of an audible object.
LEMMA SummedIsHeard ==
  ASSUME NEW o, Fit(o), o.isSilent \in BOOLEAN, Sounding(Heard(o)), o.usedChannels # 0,
         NEW rhs, Fit(rhs), rhs.isSilent = FALSE, Sounding(Heard(rhs)), rhs.usedChannels # 0,
         NEW k \in Nat, k <= o.size, k <= rhs.size, rhs.usedChannels <= o.channels,
         rhs.usedChannels > o.usedChannels => o.isSilent \/ k = o.size
  PROVE  /\ Heard(Summed(o, rhs, k)) = Ideal!Added(Heard(o), Heard(rhs), k)
         /\ Sounding(Heard(Summed(o, rhs, k)))
<1> DEFINE wide == Wider(o.usedChannels, rhs.usedChannels)
           u == Unsilenced(o, rhs)
           rows == SumRows(u, rhs, k)
           d == Overlay(u, rows)
           e == Summed(o, rhs, k)
           PickO(c) == IF c < o.usedChannels THEN c ELSE 0
           PickR(c) == IF c < rhs.usedChannels THEN c ELSE 0
           Total(c, i) == Heard(o).rows[PickO(c)][i] + IF i < k THEN Heard(rhs).rows[PickR(c)][i] ELSE 0
<1>1. /\ o.usedChannels \in Nat \ {0} /\ rhs.usedChannels \in Nat \ {0}
      /\ o.size \in Nat /\ rhs.size \in Nat /\ o.channels \in Nat
      /\ o.usedChannels <= o.channels /\ rhs.usedChannels <= rhs.channels
      /\ DOMAIN o = Fields
  BY DEF Fit, Record, Shaped
<1>2. /\ wide \in Nat /\ wide <= o.channels
      /\ Upto(wide) = Upto(o.usedChannels) \cup Upto(rhs.usedChannels)
  BY <1>1 DEF Wider, Upto
<1>3. \A c \in Upto(wide) :
        /\ c \in Upto(o.channels)
        /\ PickO(c) \in Upto(o.usedChannels) /\ PickR(c) \in Upto(rhs.usedChannels)
        /\ PickO(c) \in Upto(wide)
  BY <1>1, <1>2 DEF Upto
<1>4. /\ Fit(u) /\ u.channels = o.channels /\ u.usedChannels = o.usedChannels /\ u.size = o.size
      /\ DOMAIN u = Fields
  BY <1>1, OverlayFit DEF Unsilenced
<1>5. ASSUME NEW c \in Upto(wide), NEW i \in Upto(o.size)
      PROVE  u.data[c][i] = IF o.isSilent THEN 0 ELSE o.data[c][i]
  <2>1. CASE o.isSilent
    <3> DEFINE zeros == Constant(wide, Upto(o.size), 0)
    <3>1. u.data[c][i] = IF c \in DOMAIN zeros /\ i \in DOMAIN zeros[c] THEN zeros[c][i] ELSE o.data[c][i]
      <4>1. u = Overlay(o, zeros)
        BY <2>1 DEF Unsilenced
      <4> HIDE DEF zeros, u
      <4>. QED BY <1>3, <4>1, OverlayAt
    <3>2. c \in DOMAIN zeros /\ i \in DOMAIN zeros[c] /\ zeros[c][i] = 0
      BY DEF Constant
    <3>. QED BY <2>1, <3>1, <3>2
  <2>2. CASE ~o.isSilent
    BY <2>2 DEF Unsilenced
  <2>. QED BY <2>1, <2>2
<1>6. ASSUME NEW c \in Upto(o.usedChannels), NEW i \in Upto(o.size)
      PROVE  /\ Heard(o).rows[c][i] = IF o.isSilent THEN 0 ELSE o.data[c][i]
             /\ Heard(o).rows[c][i] \in Int
  <2>1. Heard(o).rows[c][i] = IF o.isSilent THEN 0 ELSE o.data[c][i]
    BY DEF Heard
  <2>2. c \in DOMAIN Heard(o).rows /\ i \in DOMAIN Heard(o).rows[c]
    BY DEF Heard
  <2>. QED BY <2>1, <2>2 DEF Sounding
<1>7. ASSUME NEW c \in Upto(rhs.usedChannels), NEW i \in Upto(k)
      PROVE  Heard(rhs).rows[c][i] = rhs.data[c][i] /\ Heard(rhs).rows[c][i] \in Int
  <2>1. i \in Upto(rhs.size)
    BY <1>1 DEF Upto
  <2>2. Heard(rhs).rows[c][i] = rhs.data[c][i]
    BY <2>1, RowsAreHeard
  <2>3. c \in DOMAIN Heard(rhs).rows /\ i \in DOMAIN Heard(rhs).rows[c]
    BY <2>1 DEF Heard
  <2>. QED BY <2>2, <2>3 DEF Sounding
<1>8. ASSUME NEW c \in Upto(wide), NEW i \in Upto(o.size)
      PROVE  d.data[c][i] = Total(c, i) /\ Total(c, i) \in Int
  <2>1. d.data[c][i] = IF c \in DOMAIN rows /\ i \in DOMAIN rows[c] THEN rows[c][i] ELSE u.data[c][i]
    <3> HIDE DEF rows, u
    <3>. QED BY <1>3, <1>4, OverlayAt
  <2>2. c \in DOMAIN rows /\ DOMAIN rows[c] = Upto(k)
    BY <1>4 DEF SumRows
  <2>3. i \in Upto(k) => rows[c][i] = Plus(u.data[PickO(c)][i], rhs.data[PickR(c)][i])
    BY <1>4 DEF SumRows
  <2>4. (i \in Upto(k) <=> i < k) /\ i \in Int
    BY <1>1 DEF Upto
  <2>5. u.data[PickO(c)][i] = Heard(o).rows[PickO(c)][i] /\ Heard(o).rows[PickO(c)][i] \in Int
    BY <1>3, <1>5, <1>6
  <2> HIDE DEF rows, u, d
  <2>6. CASE i < k
    <3>1. rhs.data[PickR(c)][i] = Heard(rhs).rows[PickR(c)][i] /\ Heard(rhs).rows[PickR(c)][i] \in Int
      BY <1>3, <1>7, <2>4, <2>6
    <3> HIDE DEF PickO, PickR
    <3>. QED BY <2>1, <2>2, <2>3, <2>4, <2>5, <2>6, <3>1, SamplesAssumption DEF Plus
  <2>7. CASE ~(i < k)
    <3>1. d.data[c][i] = u.data[c][i]
      BY <2>1, <2>2, <2>4, <2>7
    <3>2. u.data[c][i] = Heard(o).rows[PickO(c)][i]
      <4>1. CASE c < o.usedChannels
        BY <2>5, <4>1
      <4>2. CASE ~(c < o.usedChannels)
        <5>1. o.isSilent
          BY <1>1, <1>2, <2>4, <2>7, <4>2 DEF Wider, Upto
        <5>. QED BY <1>3, <1>5, <1>6, <5>1
      <4>. QED BY <4>1, <4>2
    <3> HIDE DEF PickO, PickR
    <3>. QED BY <2>5, <2>7, <3>1, <3>2
  <2>. QED BY <2>6, <2>7
<1>9. /\ e.isSilent = FALSE /\ e.usedChannels = wide /\ e.size = o.size /\ e.data = d.data
  <2>1. DOMAIN d = Fields /\ d.size = o.size
    BY <1>4, OverlayFrame
  <2>2. e = [d EXCEPT !.usedChannels = wide, !.isSilent = FALSE]
    BY <1>1 DEF Summed, SumIsIdle
  <2> HIDE DEF d, e
  <2>. QED BY <2>1, <2>2 DEF Fields
<1> HIDE DEF d, e, wide, Total
<1>10. Heard(e) = [len |-> o.size, rows |-> [c \in Upto(wide) |-> [i \in Upto(o.size) |-> Total(c, i)]]]
  BY <1>8, <1>9 DEF Heard
<1>11. Sounding(Heard(e))
  BY <1>8, <1>10 DEF Sounding
<1>12. Ideal!Added(Heard(o), Heard(rhs), k) =
         [len |-> o.size, rows |-> [c \in Upto(wide) |-> [i \in Upto(o.size) |-> Total(c, i)]]]
  <2>1. \A c \in Upto(wide) : /\ PickO(c) = IF c \in Upto(o.usedChannels) THEN c ELSE 0
                              /\ PickR(c) = IF c \in Upto(rhs.usedChannels) THEN c ELSE 0
    BY <1>1, <1>2 DEF Upto
  <2>2. \A c \in Upto(wide), i \in Upto(o.size) :
          Total(c, i) = Ideal!At(Heard(o), c, i) + IF i < k THEN Ideal!At(Heard(rhs), c, i) ELSE 0
    BY <1>1, <2>1, HeardParts DEF Ideal!At, Total
  <2>3. Ideal!Added(Heard(o), Heard(rhs), k) =
          [Heard(o) EXCEPT !.rows = [c \in Upto(wide) |-> [i \in Upto(o.size) |->
             Ideal!At(Heard(o), c, i) + IF i < k THEN Ideal!At(Heard(rhs), c, i) ELSE 0]]]
    BY <1>1, <1>2, HeardParts DEF Ideal!Added
  <2>4. [c \in Upto(wide) |-> [i \in Upto(o.size) |-> Total(c, i)]] =
          [c \in Upto(wide) |-> [i \in Upto(o.size) |->
             Ideal!At(Heard(o), c, i) + IF i < k THEN Ideal!At(Heard(rhs), c, i) ELSE 0]]
    BY <2>2
  <2>5. \A r : [Heard(o) EXCEPT !.rows = r] = [len |-> o.size, rows |-> r]
    BY DEF Heard
  <2>. QED BY <2>3, <2>4, <2>5
<1>. QED BY <1>10, <1>11, <1>12 DEF e

\* convertToMono().
LEMMA MonoIsHeard ==
  ASSUME NEW o, Fit(o), o.isSilent \in BOOLEAN, Sounding(Heard(o)), o.usedChannels > 1
  PROVE  /\ Heard(Mono(o)) = Ideal!Averaged(Heard(o))
         /\ Sounding(Heard(Mono(o)))
<1> DEFINE n == o.usedChannels
           At(i) == [c \in Upto(n) |-> Heard(o).rows[c][i]]
           Average(i) == SumFunctionOnSet(At(i), Upto(n)) \div n
           rows == [c \in {0} |-> [i \in Upto(o.usedSize) |-> Mean(Downmix(o, i), n)]]
           d == Overlay(o, rows)
           e == Mono(o)
<1>1. /\ n \in Nat /\ n > 0 /\ n # 1 /\ o.size \in Nat /\ o.usedSize = o.size
      /\ o.channels \in Nat /\ n <= o.channels /\ DOMAIN o = Fields
  BY DEF Fit, Record, Shaped
<1>2. IsFiniteSet(Upto(n)) /\ Upto(1) = {0} /\ 0 \in Upto(o.channels) /\ 0 \in Upto(n)
  <2>1. IsFiniteSet(0 .. (n - 1))
    <3>1. 0 \in Int /\ n - 1 \in Int
      BY <1>1
    <3> HIDE DEF n
    <3>. QED BY <3>1, FS_Interval
  <2>. QED BY <1>1, <2>1 DEF Upto
<1>3. ASSUME NEW i \in Upto(o.size), NEW c \in Upto(n)
      PROVE  At(i)[c] \in Int /\ At(i)[c] = IF o.isSilent THEN 0 ELSE o.data[c][i]
  <2>1. Heard(o).rows[c][i] = IF o.isSilent THEN 0 ELSE o.data[c][i]
    BY DEF Heard
  <2>2. c \in DOMAIN Heard(o).rows /\ i \in DOMAIN Heard(o).rows[c]
    BY DEF Heard
  <2>. QED BY <2>1, <2>2 DEF Sounding
<1>4. ASSUME NEW i \in Upto(o.size)
      PROVE  SumFunctionOnSet(At(i), Upto(n)) \in Int /\ Average(i) \in Int
  <2>1. SumFunctionOnSet(At(i), Upto(n)) \in Int
    <3> HIDE DEF At, n
    <3>. QED BY <1>2, <1>3, SumIsInt
  <2>. QED BY <1>1, <2>1
<1>5. /\ e.isSilent = o.isSilent /\ e.usedChannels = 1 /\ e.size = o.size /\ e.data = d.data
  <2>1. DOMAIN d = Fields /\ d.size = o.size /\ d.isSilent = o.isSilent
    BY <1>1, OverlayFrame
  <2>2. e = [d EXCEPT !.usedChannels = 1]
    BY <1>1 DEF Mono
  <2> HIDE DEF d, e
  <2>. QED BY <2>1, <2>2 DEF Fields
<1>6. ASSUME NEW i \in Upto(o.size)
      PROVE  (IF o.isSilent THEN 0 ELSE d.data[0][i]) = Average(i)
  <2>1. CASE o.isSilent
    <3>1. SumFunctionOnSet(At(i), Upto(n)) = 0
      <4>1. \A c \in Upto(n) : At(i)[c] = 0
        BY <1>3, <2>1
      <4> HIDE DEF At, n
      <4>. QED BY <1>2, <4>1, SumOfZeros
    <3>. QED BY <1>1, <2>1, <3>1
  <2>2. CASE ~o.isSilent
    <3>1. d.data[0][i] = rows[0][i]
      <4>1. 0 \in DOMAIN rows /\ i \in DOMAIN rows[0]
        BY <1>1
      <4> HIDE DEF rows
      <4>. QED BY <1>2, <4>1, OverlayAt
    <3>2. rows[0][i] = Mean(Downmix(o, i), n)
      BY <1>1
    <3>3. At(i) = [c \in Upto(n) |-> o.data[c][i]]
      BY <1>3, <2>2
    <3>4. \A c \in Upto(n) : o.data[c][i] # Undef
      BY <1>3, <2>2, SamplesAssumption
    <3>5. Downmix(o, i) = SumFunctionOnSet(At(i), Upto(n))
      <4>1. Downmix(o, i) = SumFunction([c \in Upto(n) |-> o.data[c][i]])
        BY <3>4 DEF Downmix
      <4>2. DOMAIN At(i) = Upto(n)
        OBVIOUS
      <4> HIDE DEF At
      <4>. QED BY <3>3, <4>1, <4>2 DEF SumFunction
    <3>6. Downmix(o, i) # Undef
      BY <1>4, <3>5, SamplesAssumption
    <3> HIDE DEF At, rows, d
    <3>. QED BY <2>2, <3>1, <3>2, <3>5, <3>6 DEF Mean
  <2>. QED BY <2>1, <2>2
<1> HIDE DEF d, e, At
<1>7. Heard(e) = [len |-> o.size, rows |-> [c \in {0} |-> [i \in Upto(o.size) |-> Average(i)]]]
  <2>1. Heard(e) = [len |-> o.size, rows |-> [c \in {0} |-> [i \in Upto(o.size) |->
                      IF o.isSilent THEN 0 ELSE d.data[c][i]]]]
    BY <1>2, <1>5 DEF Heard
  <2>. QED BY <1>6, <2>1
<1>8. Sounding(Heard(e))
  BY <1>4, <1>7 DEF Sounding
<1>9. Ideal!Averaged(Heard(o)) = [len |-> o.size, rows |-> [c \in {0} |-> [i \in Upto(o.size) |-> Average(i)]]]
  <2>1. \A i : Ideal!SumFunction([c \in Upto(n) |-> Heard(o).rows[c][i]]) = SumFunctionOnSet(At(i), Upto(n))
    BY SameSum DEF At
  <2>2. Ideal!Averaged(Heard(o)) =
          [Heard(o) EXCEPT !.rows = [c \in {0} |-> [i \in Upto(o.size) |->
             Ideal!SumFunction([x \in Upto(n) |-> Heard(o).rows[x][i]]) \div n]]]
    BY <1>1, HeardParts DEF Ideal!Averaged
  <2>3. \A r : [Heard(o) EXCEPT !.rows = r] = [len |-> o.size, rows |-> r]
    BY DEF Heard
  <2>4. [c \in {0} |-> [i \in Upto(o.size) |->
           Ideal!SumFunction([x \in Upto(n) |-> Heard(o).rows[x][i]]) \div n]]
         = [c \in {0} |-> [i \in Upto(o.size) |-> Average(i)]]
    BY <2>1
  <2>. QED BY <2>2, <2>3, <2>4
<1>. QED BY <1>7, <1>8, <1>9 DEF e

-----------------------------------------------------------------------------
\* What the clients of AudibleDefined refrain from: they may make empty buffers,
\* write into silent ones and reuse the geometry of a narrowed one.
Trustful == Liberties \subseteq {"empty", "writeSilent", "narrowed"}

\* What an object is when a method has left it.
Sonorous(o) == Sounding(Heard(o)) /\ Recordable(o.size)

AllSound == \A b \in Buffers : buf[b] # NULL => Sonorous(buf[b])

\* The inductive invariant: what is heard of every object is numbers.
Cared == IInv /\ Whole /\ AllSound

LEMMA TrustfulIsTrusted == Trustful => Trusted
  BY DEF Trustful, Trusted

LEMMA ShapesAreRecordable ==
  /\ Recordable(0)
  /\ \A shape \in Geometries : Recordable(shape[2])
<1>1. Recordable(0)
  BY DEF Recordable, Upto
<1>2. \A shape \in Geometries : Recordable(shape[2])
  BY SamplesAssumption DEF Recordable, Upto
<1>. QED BY <1>1, <1>2

\* A resize keeps silence.
LEMMA ResizedIsHeard ==
  ASSUME NEW o, DOMAIN o = Fields, o.isSilent = TRUE, NEW n \in Nat, NEW s \in Nat
  PROVE  LET d == Resize(o, n, s)
         IN  /\ d.isSilent = TRUE
             /\ Sounding(Heard(d))
             /\ ~(n = o.channels /\ s = o.size) => Heard(d) = Ideal!Silence(n, s)
<1> DEFINE d == Resize(o, n, s)
<1>1. d.isSilent = TRUE /\ d.size = s /\ (~(n = o.channels /\ s = o.size) => d.usedChannels = n)
  BY DEF Resize, Fields
<1> HIDE DEF d
<1>2. Heard(d) = Ideal!Silence(d.usedChannels, d.size) /\ Sounding(Heard(d))
  BY <1>1, SilentIsHeard
<1>. QED BY <1>1, <1>2 DEF d

\* A decoder's output is heard on the channels that were in use, all of them
\* after a resize that changed anything.
Loaded(o, n, s, rec) ==
  [Overlay(Resize(o, n, s), [c \in Upto(n) |-> [i \in Upto(s) |-> rec[c][i]]]) EXCEPT !.isSilent = FALSE]

LEMMA LoadedIsSounding ==
  ASSUME NEW o, Fit(o), NEW n \in Nat, n <= MaxChannels, NEW s \in Nat, Recordable(s),
         NEW rec \in Recordings
  PROVE  /\ Loaded(o, n, s, rec).size = s
         /\ Heard(Loaded(o, n, s, rec)) = Ideal!Signal(Resize(o, n, s).usedChannels, s, rec)
         /\ Sounding(Heard(Loaded(o, n, s, rec)))
<1> DEFINE d == Resize(o, n, s)
           rows == [c \in Upto(n) |-> [i \in Upto(s) |-> rec[c][i]]]
           w == Overlay(d, rows)
           e == [w EXCEPT !.isSilent = FALSE]
<1>1. Fit(d) /\ d.channels = n /\ d.size = s
  BY ResizeFit DEF Fit
<1>2. d.usedChannels \in Nat /\ d.usedChannels <= n /\ DOMAIN d = Fields
  BY <1>1 DEF Fit, Record, Shaped
<1> HIDE DEF d
<1>3. ASSUME NEW c \in Upto(d.usedChannels), NEW i \in Upto(s)
      PROVE  w.data[c][i] = rec[c][i] /\ rec[c][i] \in Int
  <2>1. c \in Upto(n) /\ c \in Upto(MaxChannels)
    BY <1>2, ConstantsAssumption DEF Upto
  <2>2. w.data[c][i] = IF c \in DOMAIN rows /\ i \in DOMAIN rows[c] THEN rows[c][i] ELSE d.data[c][i]
    <3> HIDE DEF rows
    <3>. QED BY <1>1, <2>1, OverlayAt
  <2>. QED BY <2>1, <2>2 DEF Recordable
<1>4. DOMAIN w = Fields /\ w.usedChannels = d.usedChannels /\ w.size = s
  BY <1>1, <1>2, OverlayFrame
<1> HIDE DEF w
<1>5. e.isSilent = FALSE /\ e.usedChannels = d.usedChannels /\ e.size = s /\ e.data = w.data
  BY <1>4 DEF Fields
<1> HIDE DEF e
<1>6. Heard(e) = [len |-> s, rows |-> [c \in Upto(d.usedChannels) |-> [i \in Upto(s) |-> rec[c][i]]]]
  BY <1>3, <1>5 DEF Heard
<1>7. Sounding(Heard(e))
  BY <1>3, <1>6 DEF Sounding
<1>. QED BY <1>5, <1>6, <1>7 DEF Ideal!Signal, Upto, d, e, w, Loaded

-----------------------------------------------------------------------------
\* A method that leaves a sonorous object, or stops the program.
LEMMA CallSounds ==
  ASSUME Cared, NEW b \in Buffers, NEW STATE reaches, NEW STATE new,
         reaches => Sonorous(new), Call(b, reaches, new)
  PROVE  AllSound'
<1>1. CASE reaches /\ Store(b, new)
  BY <1>1 DEF Cared, AllSound, IInv, AllFit, Store
<1>2. CASE Stop("access")
  BY <1>2 DEF Cared, AllSound, Stop
<1>. QED BY <1>1, <1>2 DEF Call

LEMMA StoreSounds ==
  ASSUME Cared, NEW b \in Buffers, NEW STATE new, Sonorous(new), Store(b, new)
  PROVE  AllSound'
  BY DEF Cared, AllSound, IInv, AllFit, Store

LEMMA CaredObject ==
  ASSUME Cared, NEW b \in Alive
  PROVE  /\ b \in Buffers /\ Fit(buf[b]) /\ buf[b].isSilent \in BOOLEAN
         /\ Sounding(Heard(buf[b])) /\ Recordable(buf[b].size) /\ Sonorous(buf[b])
  BY DEF Cared, Alive, IInv, AllFit, Whole, Kept, Typed, AllSound, Sonorous

\* An object that is heard as a sonorous one is sonorous.
LEMMA SameIsSonorous ==
  ASSUME NEW o, NEW rhs, Sonorous(rhs), Heard(o) = Heard(rhs)
  PROVE  Sonorous(o)
<1>1. o.size = rhs.size
  BY DEF Heard
<1>. QED BY <1>1 DEF Sonorous

LEMMA SilentIsSonorous ==
  ASSUME NEW o, o.isSilent = TRUE, Recordable(o.size)
  PROVE  Sonorous(o)
  BY SilentIsHeard DEF Sonorous

LEMMA ConstructorsSound ==
  ASSUME Trustful, Cared, Constructors
  PROVE  AllSound'
<1> PICK b \in Buffers :
         \/ DefaultConstruct(b)
         \/ \E shape \in Geometries : Construct(b, shape[1], shape[2])
         \/ \E r \in Alive, g \in Garbage : CopyConstruct(b, r, g)
         \/ \E r \in Alive, g \in Garbage : CopyConstructMono(b, r, g)
  BY DEF Constructors
<1>1. CASE DefaultConstruct(b)
  <2>1. Sonorous(Fresh)
    BY ShapesAreRecordable, SilentIsSonorous DEF Fresh
  <2>. QED BY <1>1, <2>1, StoreSounds DEF DefaultConstruct
<1>2. ASSUME NEW shape \in Geometries, Construct(b, shape[1], shape[2])
      PROVE  AllSound'
  <2>1. Resize(Fresh, shape[1], shape[2]).isSilent = TRUE
    BY DEF Resize, Fresh
  <2>2. Resize(Fresh, shape[1], shape[2]).size = shape[2]
    BY DEF Resize, Fresh
  <2>3. Sonorous(Resize(Fresh, shape[1], shape[2]))
    BY <2>1, <2>2, ShapesAreRecordable, SilentIsSonorous
  <2>. QED BY <1>2, <2>3, StoreSounds DEF Construct
<1>3. ASSUME NEW r \in Alive, NEW g \in Garbage, CopyConstruct(b, r, g)
      PROVE  AllSound'
  <2>1. DOMAIN g = Fields
    BY GarbageTyped DEF Typed
  <2>2. AssignReaches(g, buf[r]) => Sonorous(Assigned(g, buf[r]))
    BY <2>1, AssignedIsHeard, SameIsSonorous, CaredObject
  <2>. QED BY <1>3, <2>2, CallSounds DEF CopyConstruct
<1>4. ASSUME NEW r \in Alive, NEW g \in Garbage, CopyConstructMono(b, r, g)
      PROVE  AllSound'
  BY <1>4 DEF CopyConstructMono, May, Trustful
<1>. QED BY <1>1, <1>2, <1>3, <1>4

LEMMA GeometrySounds ==
  ASSUME Trustful, Cared, Geometry
  PROVE  AllSound'
<1> PICK b \in Alive :
         \/ Destroy(b)
         \/ \E shape \in Geometries : DoResize(b, shape[1], shape[2])
         \/ \E n \in 0 .. MaxChannels : SetUsedChannels(b, n)
         \/ ConvertToMono(b)
         \/ AssignFloat(b)
  BY DEF Geometry
<1> DEFINE o == buf[b]
<1>1. /\ b \in Buffers /\ Fit(o) /\ o.isSilent \in BOOLEAN
      /\ Sounding(Heard(o)) /\ Recordable(o.size) /\ Sonorous(o)
  BY CaredObject
<1>2. CASE Destroy(b)
  BY <1>1, <1>2 DEF Destroy, Cared, AllSound, IInv, AllFit
<1>3. ASSUME NEW shape \in Geometries, DoResize(b, shape[1], shape[2])
      PROVE  AllSound'
  <2>1. o.isSilent \/ (shape[1] = o.channels /\ shape[2] = o.size)
    BY <1>3 DEF DoResize, Careful, May, Trustful
  <2>2. CASE shape[1] = o.channels /\ shape[2] = o.size
    <3>1. Resize(o, shape[1], shape[2]) = o
      BY <2>2 DEF Resize
    <3>. QED BY <1>1, <1>3, <3>1, StoreSounds DEF DoResize
  <2>3. CASE o.isSilent
    <3>1. Resize(o, shape[1], shape[2]).isSilent = TRUE /\ Resize(o, shape[1], shape[2]).size = shape[2]
      BY <1>1, <2>3 DEF Resize, Fit, Record, Fields
    <3>2. Sonorous(Resize(o, shape[1], shape[2]))
      BY <3>1, ShapesAreRecordable, SilentIsSonorous
    <3>. QED BY <1>1, <1>3, <3>2, StoreSounds DEF DoResize
  <2>. QED BY <2>1, <2>2, <2>3
<1>4. ASSUME NEW n \in 0 .. MaxChannels, SetUsedChannels(b, n)
      PROVE  AllSound'
  <2>1. n \in Nat /\ n <= o.channels
    BY <1>4, Counts DEF SetUsedChannels
  <2>2. Sounding(Heard(WithUsedChannels(o, n)))
    BY <1>1, <2>1, WidenedIsHeard
  <2>3. WithUsedChannels(o, n).size = o.size
    BY <1>1, OverlayFrame DEF WithUsedChannels, Fit, Record, Fields
  <2>. QED BY <1>1, <1>4, <2>2, <2>3, CallSounds DEF SetUsedChannels, Sonorous
<1>5. CASE ConvertToMono(b)
  <2>1. CASE o.usedChannels = 1
    <3>1. Mono(o) = o
      BY <2>1 DEF Mono
    <3>. QED BY <1>1, <1>5, <3>1, CallSounds DEF ConvertToMono
  <2>2. CASE o.usedChannels # 1
    <3>1. o.usedChannels > 1
      BY <1>1, <1>5, <2>2 DEF ConvertToMono, Fit, Record
    <3>2. Sounding(Heard(Mono(o)))
      BY <1>1, <3>1, MonoIsHeard
    <3>3. Mono(o).size = o.size
      BY <1>1, OverlayFrame DEF Mono, Fit, Record, Fields
    <3>. QED BY <1>1, <1>5, <3>2, <3>3, CallSounds DEF ConvertToMono, Sonorous
  <2>. QED BY <2>1, <2>2
<1>6. CASE AssignFloat(b)
  BY <1>6 DEF AssignFloat, May, Trustful
<1>. QED BY <1>2, <1>3, <1>4, <1>5, <1>6

LEMMA CombiningSounds ==
  ASSUME Trustful, Cared, Combining
  PROVE  AllSound'
<1> PICK b \in Alive, r \in Alive :
         \/ Assign(b, r)
         \/ Mix(b, r)
         \/ ZeroAndCopy(b, r)
         \/ \E k \in Extents : Sum(b, r, k)
  BY DEF Combining
<1> DEFINE o == buf[b]
<1>1. /\ b \in Buffers /\ Fit(o) /\ o.isSilent \in BOOLEAN
      /\ Sounding(Heard(o)) /\ Recordable(o.size) /\ Sonorous(o)
  BY CaredObject
<1>2. /\ Fit(buf[r]) /\ buf[r].isSilent \in BOOLEAN
      /\ Sounding(Heard(buf[r])) /\ Sonorous(buf[r])
  BY CaredObject
<1>3. CASE Assign(b, r)
  <2>1. AssignReaches(o, buf[r]) => Sonorous(Assigned(o, buf[r]))
    BY <1>1, <1>2, AssignedIsHeard, SameIsSonorous DEF Fit, Record
  <2>. QED BY <1>1, <1>3, <2>1, CallSounds DEF Assign
<1>4. CASE Mix(b, r)
  <2>1. MixReaches(o, buf[r]) => Sonorous(Mixed(o, buf[r]))
    <3> SUFFICES ASSUME AssignReaches(MixTarget(o, buf[r]), buf[r])
                 PROVE  Sonorous(Assigned(MixTarget(o, buf[r]), buf[r]))
      BY <1>1 DEF MixReaches, Mixed
    <3>1. DOMAIN MixTarget(o, buf[r]) = Fields
      BY <1>1 DEF MixTarget, Resize, Fit, Record, Fields
    <3>. QED BY <1>2, <3>1, AssignedIsHeard, SameIsSonorous
  <2>. QED BY <1>1, <1>4, <2>1, CallSounds DEF Mix
<1>5. CASE ZeroAndCopy(b, r)
  <2> DEFINE rhs == IF r = b THEN [buf[b] EXCEPT !.isSilent = TRUE] ELSE buf[r]
  <2>1. /\ ~rhs.isSilent => rhs.size >= o.size /\ rhs.usedChannels <= o.channels
                            /\ rhs.usedChannels >= o.usedChannels
        /\ Call(b, ZeroAndCopyReaches(o, rhs), ZeroedAndCopied(o, rhs))
    BY <1>5 DEF ZeroAndCopy, Careful, May, Trustful
  <2>2. CASE o.usedChannels = 0 \/ rhs.isSilent
    <3>1. ZeroedAndCopied(o, rhs) = [o EXCEPT !.isSilent = TRUE]
      BY <2>2 DEF ZeroedAndCopied
    <3>2. [o EXCEPT !.isSilent = TRUE].isSilent = TRUE /\ [o EXCEPT !.isSilent = TRUE].size = o.size
      BY <1>1 DEF Fit, Record, Fields
    <3>3. Sonorous([o EXCEPT !.isSilent = TRUE])
      BY <1>1, <3>2, SilentIsSonorous
    <3>. QED BY <1>1, <2>1, <3>1, <3>3, CallSounds
  <2>3. CASE o.usedChannels # 0 /\ ~rhs.isSilent
    <3>1. rhs = buf[r]
      BY <1>1, <2>3 DEF Fit, Record, Fields
    <3>2. Sounding(Heard(ZeroedAndCopied(o, buf[r])))
      BY <1>1, <1>2, <2>1, <2>3, <3>1, CopiedIsHeard
    <3>3. ZeroedAndCopied(o, buf[r]).size = o.size
      BY <1>1, OverlayFrame DEF ZeroedAndCopied, Fit, Record, Fields
    <3>. QED BY <1>1, <2>1, <3>1, <3>2, <3>3, CallSounds DEF Sonorous
  <2>. QED BY <2>2, <2>3
<1>6. ASSUME NEW k \in Extents, Sum(b, r, k)
      PROVE  AllSound'
  <2>1. CASE Stop("assert")
    BY <2>1 DEF Stop, Cared, AllSound
  <2>2. CASE Call(b, SumReaches(o, buf[r], k), Summed(o, buf[r], k))
    <3>1. CASE SumIsIdle(o, buf[r])
      <4>1. Summed(o, buf[r], k) = o
        BY <3>1 DEF Summed
      <4>. QED BY <1>1, <2>2, <4>1, CallSounds
    <3>2. CASE ~SumIsIdle(o, buf[r])
      <4>1. o.usedChannels # 0 /\ buf[r].isSilent = FALSE /\ buf[r].usedChannels # 0
        BY <1>2, <3>2 DEF SumIsIdle
      <4>2. /\ k <= o.size /\ k <= buf[r].size /\ buf[r].usedChannels <= o.channels
            /\ buf[r].usedChannels > o.usedChannels => o.isSilent \/ k = o.size
        BY <1>6 DEF Sum, Careful, May, Trustful
      <4>3. k \in Nat
        BY Counts
      <4>4. Sounding(Heard(Summed(o, buf[r], k)))
        BY <1>1, <1>2, <4>1, <4>2, <4>3, SummedIsHeard
      <4>5. Summed(o, buf[r], k).size = o.size
        BY <1>1, OverlayFrame DEF Summed, Unsilenced, Fit, Record, Fields
      <4>. QED BY <1>1, <2>2, <4>4, <4>5, CallSounds DEF Sonorous
    <3>. QED BY <3>1, <3>2
  <2>. QED BY <1>6, <2>1, <2>2 DEF Sum
<1>. QED BY <1>3, <1>4, <1>5, <1>6

\* Storing numbers in an object leaves it sonorous.
LEMMA StoringSounds ==
  ASSUME Cared, NEW b \in Alive, NEW rows,
         ~buf[b].isSilent => \A c \in Upto(buf[b].usedChannels), i \in Upto(buf[b].size) :
                              c \in DOMAIN rows /\ i \in DOMAIN rows[c] => rows[c][i] \in Int
  PROVE  Sonorous(Overlay(buf[b], rows))
<1> DEFINE o == buf[b]
<1>1. Fit(o) /\ o.isSilent \in BOOLEAN /\ Sounding(Heard(o)) /\ Recordable(o.size)
  BY CaredObject
<1>2. Overlay(o, rows).size = o.size
  BY <1>1, OverlayFrame DEF Fit, Record
<1>3. CASE o.isSilent = TRUE
  BY <1>1, <1>2, <1>3, StoredIsHidden DEF Sonorous
<1>4. CASE o.isSilent = FALSE
  BY <1>1, <1>2, <1>4, StoredIsSounding DEF Sonorous
<1>. QED BY <1>1, <1>3, <1>4

\* What an audible object has at the places its loops run over.
LEMMA AudibleNumbers ==
  ASSUME Cared, NEW b \in Alive, ~buf[b].isSilent
  PROVE  \A c \in Upto(buf[b].usedChannels), i \in Upto(buf[b].size) : buf[b].data[c][i] \in Int
<1>1. buf[b].isSilent = FALSE /\ Sounding(Heard(buf[b]))
  BY CaredObject
<1>. QED BY <1>1, SoundIsInRows

LEMMA WritingSounds ==
  ASSUME Trustful, Cared, Writing
  PROVE  AllSound'
<1> PICK b \in Alive :
         \/ Zero(b)
         \/ \E k \in Extents, pos \in Extents : ZeroRange(b, k, pos)
         \/ \E v \in Levels, k \in Extents, pos \in Extents : Fill(b, v, k, pos)
         \/ \E rec \in Recordings : CreateNoise(b, rec)
         \/ \E wave \in Sines : AddSine(b, wave)
         \/ \E gain \in Gains : ApplyGain(b, gain)
         \/ \E shape \in Geometries, rec \in Recordings : Load(b, shape[1], shape[2], rec)
  BY DEF Writing
<1> DEFINE o == buf[b]
<1>1. /\ b \in Buffers /\ Fit(o) /\ Recordable(o.size) /\ Sonorous(o)
      /\ o.usedChannels \in Nat /\ o.usedSize = o.size
      /\ \A c \in Upto(o.usedChannels) : c \in Upto(MaxChannels)
  <2>1. b \in Buffers /\ Fit(o) /\ Recordable(o.size) /\ Sonorous(o)
    BY CaredObject
  <2>. QED BY <2>1, ConstantsAssumption DEF Fit, Record, Shaped, Upto
<1>2. CASE Zero(b)
  <2>1. [o EXCEPT !.isSilent = TRUE].isSilent = TRUE /\ [o EXCEPT !.isSilent = TRUE].size = o.size
    BY <1>1 DEF Fit, Record, Fields
  <2>2. Sonorous([o EXCEPT !.isSilent = TRUE])
    BY <1>1, <2>1, SilentIsSonorous
  <2>. QED BY <1>1, <1>2, <2>2, StoreSounds DEF Zero
<1>3. ASSUME NEW k \in Extents, NEW pos \in Extents, ZeroRange(b, k, pos)
      PROVE  AllSound'
  <2> DEFINE rows == Constant(o.usedChannels, pos .. (pos + k - 1), 0)
  <2>1. Sonorous(Overlay(o, rows))
    <3>1. \A c \in DOMAIN rows : \A i \in DOMAIN rows[c] : rows[c][i] \in Int
      BY DEF Constant
    <3> HIDE DEF rows
    <3>. QED BY <3>1, StoringSounds
  <2>. QED BY <1>1, <1>3, <2>1, CallSounds DEF ZeroRange
<1>4. ASSUME NEW v \in Levels, NEW k \in Extents, NEW pos \in Extents, Fill(b, v, k, pos)
      PROVE  AllSound'
  <2>1. v \in Int
    BY ConstantsAssumption
  <2>2. Sonorous(Overlay(o, Constant(o.usedChannels, pos .. (pos + k - 1), v)))
    BY <2>1, StoringSounds DEF Constant
  <2>3. CASE k = 0
    BY <1>1, <1>4, <2>3, CallSounds DEF Fill
  <2>4. CASE k # 0
    BY <1>1, <1>4, <2>2, <2>4, CallSounds DEF Fill
  <2>. QED BY <2>3, <2>4
<1>5. ASSUME NEW rec \in Recordings, CreateNoise(b, rec) PROVE AllSound'
  <2> DEFINE rows == [c \in Upto(o.usedChannels) |-> [i \in Upto(o.usedSize) |-> rec[c][i]]]
  <2>1. \A c \in Upto(o.usedChannels), i \in Upto(o.size) : rows[c][i] \in Int
    BY <1>1 DEF Recordable
  <2>2. Sonorous(Overlay(o, rows))
    <3> HIDE DEF rows
    <3>. QED BY <2>1, StoringSounds
  <2>. QED BY <1>1, <1>5, <2>2, CallSounds DEF CreateNoise
<1>6. ASSUME NEW wave \in Sines, AddSine(b, wave) PROVE AllSound'
  <2> DEFINE rows == [c \in Upto(o.usedChannels) |-> [i \in Upto(o.size) |-> Plus(o.data[c][i], wave[i])]]
  <2>1. ~o.isSilent => \A c \in Upto(o.usedChannels), i \in Upto(o.size) : rows[c][i] \in Int
    BY <1>1, AudibleNumbers, SamplesAssumption DEF Recordable, Plus
  <2>2. Sonorous(Overlay(o, rows))
    <3> HIDE DEF rows
    <3>. QED BY <2>1, StoringSounds
  <2>. QED BY <1>1, <1>6, <2>2, CallSounds DEF AddSine
<1>7. ASSUME NEW gain \in Gains, ApplyGain(b, gain) PROVE AllSound'
  <2> DEFINE rows == [c \in Upto(o.usedChannels) |-> [i \in Upto(o.usedSize) |-> Times(o.data[c][i], gain)]]
  <2>1. ~o.isSilent => \A c \in Upto(o.usedChannels), i \in Upto(o.size) : rows[c][i] \in Int
    BY <1>1, AudibleNumbers, SamplesAssumption DEF Times
  <2>2. Sonorous(Overlay(o, rows))
    <3> HIDE DEF rows
    <3>. QED BY <2>1, StoringSounds
  <2>. QED BY <1>1, <1>7, <2>2, CallSounds DEF ApplyGain
<1>8. ASSUME NEW shape \in Geometries, NEW rec \in Recordings,
             Load(b, shape[1], shape[2], rec)
      PROVE  AllSound'
  <2>1. PICK n \in Nat, s \in Nat : /\ n = shape[1] /\ s = shape[2] /\ n <= MaxChannels
                                  /\ Recordable(s)
    BY ShapesAreRecordable, Counts
  <2>2. Sonorous(Loaded(o, n, s, rec))
    BY <1>1, <2>1, LoadedIsSounding DEF Sonorous
  <2>. QED BY <1>1, <1>8, <2>1, <2>2, CallSounds DEF Load, Loaded
<1>. QED BY <1>2, <1>3, <1>4, <1>5, <1>6, <1>7, <1>8

LEMMA AlwaysCared == ASSUME Trustful PROVE Spec => []Cared
<1>1. Init => AllSound
  BY DEF Init, AllSound
<1>2. Cared /\ [Next]_vars => AllSound'
  <2> SUFFICES ASSUME Cared, [Next]_vars PROVE AllSound'
    OBVIOUS
  <2>1. CASE Next
    BY <2>1, ConstructorsSound, GeometrySounds, CombiningSounds, WritingSounds DEF Next
  <2>2. CASE UNCHANGED vars
    BY <2>2 DEF vars, Cared, AllSound
  <2>. QED BY <2>1, <2>2
<1>3. Spec => []IInv /\ []Whole
  BY TrustfulIsTrusted, Invariance, AlwaysWhole
<1>. QED BY <1>1, <1>2, <1>3, PTL DEF Spec, Cared

\* No method lets storage that nobody wrote be heard, of a client that may make
\* empty buffers, write into silent ones and reuse a narrowed one.
THEOREM AudibleIsDefined == ASSUME Trustful PROVE Spec => []AudibleDefined
<1>1. Cared => AudibleDefined
  <2> SUFFICES ASSUME Cared, NEW b \in Alive, ~buf[b].isSilent,
                      NEW c \in Upto(buf[b].usedChannels), NEW i \in Upto(buf[b].size)
               PROVE  buf[b].data[c][i] # Undef
    BY DEF AudibleDefined
  <2>. QED BY AudibleNumbers, SamplesAssumption
<1>. QED BY <1>1, AlwaysCared, PTL

-----------------------------------------------------------------------------
(***************************************************************************)
(* The objects implement signals.                                          *)
(***************************************************************************)

\* What the clients of ImplementsSignal refrain from: they may make empty buffers
\* and write into silent ones.
Modest == Liberties \subseteq {"empty", "writeSilent"}

\* NULL is neither an object nor a signal: it has not their fields.
NullIsApart == DOMAIN NULL # Fields /\ DOMAIN NULL # {"len", "rows"}

LEMMA SignalOf ==
  ASSUME NullIsApart, NEW b \in Alive
  PROVE  b \in Buffers /\ Signals[b] = Heard(buf[b]) /\ b \in Ideal!Exists
<1>1. b \in Buffers /\ Signals[b] = Heard(buf[b])
  BY DEF Alive, Signals
<1>2. Heard(buf[b]) # NULL
  <2>1. DOMAIN Heard(buf[b]) = {"len", "rows"}
    BY DEF Heard
  <2>. QED BY <2>1 DEF NullIsApart
<1>. QED BY <1>1, <1>2 DEF Ideal!Exists

LEMMA Becomes ==
  ASSUME NullIsApart, Cared, NEW b \in Buffers, NEW STATE new, DOMAIN new = Fields, Store(b, new)
  PROVE  Ideal!Become(b, Heard(new))
<1>1. /\ DOMAIN buf = Buffers /\ buf' = [buf EXCEPT ![b] = new] /\ new # NULL
  BY DEF Cared, IInv, AllFit, Store, NullIsApart
<1>2. ASSUME NEW x \in Buffers
      PROVE  (IF buf'[x] = NULL THEN NULL ELSE Heard(buf'[x])) =
               IF x = b THEN Heard(new) ELSE Signals[x]
  <2>1. CASE x = b
    BY <1>1, <2>1
  <2>2. CASE x # b
    BY <1>1, <2>2 DEF Signals
  <2>. QED BY <2>1, <2>2
<1>3. Signals' = [x \in Buffers |-> IF x = b THEN Heard(new) ELSE Signals[x]]
  BY <1>2 DEF Signals
<1>4. [Signals EXCEPT ![b] = Heard(new)] = [x \in Buffers |-> IF x = b THEN Heard(new) ELSE Signals[x]]
  BY DEF Signals
<1>. QED BY <1>3, <1>4 DEF Ideal!Become

LEMMA CallBecomes ==
  ASSUME NullIsApart, Cared, NEW b \in Buffers, NEW STATE reaches, NEW STATE new, DOMAIN new = Fields,
         Call(b, reaches, new)
  PROVE  UNCHANGED Signals \/ (reaches /\ Ideal!Become(b, Heard(new)))
<1>1. CASE reaches /\ Store(b, new)
  BY <1>1, Becomes
<1>2. CASE Stop("access")
  BY <1>2 DEF Stop, Signals
<1>. QED BY <1>1, <1>2 DEF Call

\* Becoming what it is already leaves a signal as it is.
LEMMA BecomeSame ==
  ASSUME NullIsApart, NEW b \in Alive, NEW x, x = Heard(buf[b]), Ideal!Become(b, x)
  PROVE  UNCHANGED Signals
<1>1. Signals' = [Signals EXCEPT ![b] = Signals[b]]
  BY SignalOf DEF Ideal!Become
<1>2. [Signals EXCEPT ![b] = Signals[b]] = Signals
  BY DEF Signals
<1>. QED BY <1>1, <1>2

LEMMA IdealMakes ==
  ASSUME NEW b \in Buffers
  PROVE  /\ Ideal!Make(b, 0, 0) => Ideal!Next
         /\ \A shape \in Geometries : Ideal!Make(b, shape[1], shape[2]) => Ideal!Next
         /\ \A r \in Ideal!Exists : Ideal!MakeCopy(b, r) => Ideal!Next
  BY DEF Ideal!Next

LEMMA IdealChanges ==
  ASSUME NEW b \in Ideal!Exists
  PROVE  /\ Ideal!Discard(b) => Ideal!Next
         /\ Ideal!Clear(b) => Ideal!Next
         /\ Ideal!ToMono(b) => Ideal!Next
         /\ \A shape \in Geometries : Ideal!Resize(b, shape[1], shape[2]) => Ideal!Next
         /\ \A n \in 0 .. MaxChannels : Ideal!SetWidth(b, n) => Ideal!Next
  BY DEF Ideal!Next

LEMMA IdealWrites ==
  ASSUME NEW b \in Ideal!Exists
  PROVE  /\ \A lo, hi \in Ideal!Positions(Signals[b]), v \in Levels \cup {0} :
              Ideal!Paint(b, lo, hi, v) => Ideal!Next
         /\ \A rec \in Recordings : Ideal!Rerecord(b, rec) => Ideal!Next
         /\ \A wave \in Sines : Ideal!AddSine(b, wave) => Ideal!Next
         /\ \A gain \in Gains : Ideal!Amplify(b, gain) => Ideal!Next
         /\ \A shape \in Geometries, rec \in Recordings :
              Ideal!Load(b, shape[1], shape[2], rec) => Ideal!Next
  BY DEF Ideal!Next

LEMMA IdealCombines ==
  ASSUME NEW b \in Ideal!Exists, NEW r \in Ideal!Exists
  PROVE  /\ Ideal!Assign(b, r) => Ideal!Next
         /\ Ideal!Mix(b, r) => Ideal!Next
         /\ Ideal!Replace(b, r) => Ideal!Next
         /\ \A k \in 0 .. Signals[b].len : Ideal!Sum(b, r, k) => Ideal!Next
  BY DEF Ideal!Next

LEMMA ModestIsTrustful == Modest => Trustful
  BY DEF Modest, Trustful

LEMMA AssignedFields ==
  ASSUME NEW o, DOMAIN o = Fields, NEW rhs
  PROVE  DOMAIN Assigned(o, rhs) = Fields
<1> DEFINE d == Resize(o, rhs.channels, rhs.size)
<1>1. DOMAIN d = Fields
  BY DEF Resize, Fields
<1> HIDE DEF d
<1>2. DOMAIN Overlay(d, UsedRows(rhs, d.size)) = Fields
  BY <1>1, OverlayFrame
<1>3. DOMAIN CopyFrom(d, rhs) = Fields
  BY <1>1, <1>2 DEF CopyFrom
<1>. QED BY <1>3 DEF Assigned, d

LEMMA ConstructorsMap ==
  ASSUME Modest, NullIsApart, Cared, Constructors
  PROVE  Ideal!Next \/ UNCHANGED Signals
<1> PICK b \in Buffers :
         \/ DefaultConstruct(b)
         \/ \E shape \in Geometries : Construct(b, shape[1], shape[2])
         \/ \E r \in Alive, g \in Garbage : CopyConstruct(b, r, g)
         \/ \E r \in Alive, g \in Garbage : CopyConstructMono(b, r, g)
  BY DEF Constructors
<1>1. buf[b] = NULL => Signals[b] = NULL
  BY DEF Signals
<1>2. CASE DefaultConstruct(b)
  <2>1. DOMAIN Fresh = Fields /\ Fresh.isSilent = TRUE /\ Fresh.usedChannels = 0 /\ Fresh.size = 0
    BY DEF Fresh, Fields
  <2>2. Heard(Fresh) = Ideal!Silence(0, 0)
    BY <2>1, SilentIsHeard
  <2>3. Ideal!Make(b, 0, 0)
    BY <1>1, <1>2, <2>1, <2>2, Becomes DEF DefaultConstruct, Ideal!Make
  <2>. QED BY <2>3, IdealMakes
<1>3. ASSUME NEW shape \in Geometries, Construct(b, shape[1], shape[2])
      PROVE  Ideal!Next
  <2>1. PICK n, s : n = shape[1] /\ s = shape[2]
    OBVIOUS
  <2> DEFINE d == Resize(Fresh, n, s)
  <2>2. DOMAIN d = Fields /\ d.isSilent = TRUE /\ d.usedChannels = n /\ d.size = s
    BY DEF Resize, Fresh, Fields
  <2> HIDE DEF d
  <2>3. Heard(d) = Ideal!Silence(n, s)
    BY <2>2, SilentIsHeard
  <2>4. buf[b] = NULL /\ Store(b, d)
    BY <1>3, <2>1 DEF Construct, d
  <2>5. Ideal!Become(b, Heard(d))
    BY <2>2, <2>4, Becomes
  <2>6. Ideal!Make(b, n, s)
    BY <1>1, <2>3, <2>4, <2>5 DEF Ideal!Make
  <2>. QED BY <2>1, <2>6, IdealMakes
<1>4. ASSUME NEW r \in Alive, NEW g \in Garbage, CopyConstruct(b, r, g)
      PROVE  Ideal!Next \/ UNCHANGED Signals
  <2> DEFINE d == Assigned(g, buf[r])
  <2>1. DOMAIN g = Fields
    BY GarbageTyped DEF Typed
  <2>2. DOMAIN d = Fields
    BY <2>1, AssignedFields
  <2>3. AssignReaches(g, buf[r]) => Heard(d) = Heard(buf[r])
    BY <2>1, AssignedIsHeard
  <2> HIDE DEF d
  <2>4. UNCHANGED Signals \/ (AssignReaches(g, buf[r]) /\ Ideal!Become(b, Heard(d)))
    BY <1>4, <2>2, CallBecomes DEF CopyConstruct, d
  <2>5. Ideal!Become(b, Heard(buf[r])) => Ideal!MakeCopy(b, r)
    BY <1>1, <1>4, SignalOf DEF CopyConstruct, Ideal!MakeCopy
  <2>. QED BY <2>3, <2>4, <2>5, SignalOf, IdealMakes
<1>5. ASSUME NEW r \in Alive, NEW g \in Garbage, CopyConstructMono(b, r, g)
      PROVE  FALSE
  BY <1>5 DEF CopyConstructMono, May, Modest
<1>. QED BY <1>2, <1>3, <1>4, <1>5

LEMMA GeometryMaps ==
  ASSUME Modest, NullIsApart, Cared, Geometry
  PROVE  Ideal!Next \/ UNCHANGED Signals
<1> PICK b \in Alive :
         \/ Destroy(b)
         \/ \E shape \in Geometries : DoResize(b, shape[1], shape[2])
         \/ \E n \in 0 .. MaxChannels : SetUsedChannels(b, n)
         \/ ConvertToMono(b)
         \/ AssignFloat(b)
  BY DEF Geometry
<1> DEFINE o == buf[b]
<1>1. /\ b \in Buffers /\ Fit(o) /\ o.isSilent \in BOOLEAN /\ Sounding(Heard(o))
      /\ o.usedChannels \in Nat /\ DOMAIN o = Fields
  BY CaredObject DEF Fit, Record
<1>2. Signals[b] = Heard(o) /\ b \in Ideal!Exists
  BY SignalOf
<1>3. CASE Destroy(b)
  <2>1. Signals' = [Signals EXCEPT ![b] = NULL]
    <3>1. DOMAIN buf = Buffers /\ buf' = [buf EXCEPT ![b] = NULL]
      BY <1>3 DEF Destroy, Cared, IInv, AllFit
    <3>2. Signals' = [x \in Buffers |-> IF x = b THEN NULL ELSE Signals[x]]
      BY <1>1, <3>1 DEF Signals
    <3>3. [Signals EXCEPT ![b] = NULL] = [x \in Buffers |-> IF x = b THEN NULL ELSE Signals[x]]
      BY DEF Signals
    <3>. QED BY <3>2, <3>3
  <2>. QED BY <1>2, <2>1, IdealChanges DEF Ideal!Discard, Ideal!Become
<1>4. ASSUME NEW shape \in Geometries, DoResize(b, shape[1], shape[2])
      PROVE  Ideal!Next \/ UNCHANGED Signals
  <2>1. PICK n \in Nat, s \in Nat : n = shape[1] /\ s = shape[2]
    BY Counts
  <2> DEFINE d == Resize(o, n, s)
  <2>2. DOMAIN d = Fields
    BY <1>1 DEF Resize, Fields
  <2>3. Ideal!Become(b, Heard(d))
    BY <1>1, <1>4, <2>1, <2>2, Becomes DEF DoResize
  <2>4. CASE n = o.channels /\ s = o.size
    <3>1. d = o
      BY <2>4 DEF Resize
    <3>. QED BY <2>3, <3>1, BecomeSame
  <2>5. CASE ~(n = o.channels /\ s = o.size)
    <3>1. o.isSilent = TRUE
      BY <1>1, <1>4, <2>1, <2>5 DEF DoResize, Careful, May, Modest
    <3>2. Heard(d) = Ideal!Silence(n, s)
      BY <1>1, <2>5, <3>1, ResizedIsHeard
    <3>3. Heard(o) = Ideal!Silence(o.usedChannels, o.size)
      BY <3>1, SilentIsHeard
    <3>4. CASE n = o.usedChannels /\ s = o.size
      BY <2>3, <3>2, <3>3, <3>4, BecomeSame
    <3>5. CASE ~(n = o.usedChannels /\ s = o.size)
      <4>1. <<n, s>> # <<Ideal!Width(Signals[b]), Signals[b].len>>
        BY <1>1, <1>2, <3>5, HeardParts
      <4>2. Ideal!Resize(b, n, s)
        BY <2>3, <3>2, <4>1 DEF Ideal!Resize
      <4>. QED BY <1>2, <2>1, <4>2, IdealChanges
    <3>. QED BY <3>4, <3>5
  <2>. QED BY <2>4, <2>5
<1>5. ASSUME NEW n \in 0 .. MaxChannels, SetUsedChannels(b, n)
      PROVE  Ideal!Next \/ UNCHANGED Signals
  <2>1. n \in Nat /\ n <= o.channels
    BY <1>5, Counts DEF SetUsedChannels
  <2>2. DOMAIN WithUsedChannels(o, n) = Fields
    BY <1>1, OverlayFrame DEF WithUsedChannels
  <2>3. UNCHANGED Signals \/ Ideal!Become(b, Heard(WithUsedChannels(o, n)))
    BY <1>1, <1>5, <2>2, CallBecomes DEF SetUsedChannels
  <2>4. Heard(WithUsedChannels(o, n)) = Ideal!Widened(Heard(o), n)
    BY <1>1, <2>1, WidenedIsHeard
  <2>. QED BY <1>2, <2>3, <2>4, IdealChanges DEF Ideal!SetWidth
<1>6. CASE ConvertToMono(b)
  <2>1. DOMAIN Mono(o) = Fields
    BY <1>1, OverlayFrame DEF Mono
  <2>2. UNCHANGED Signals \/ Ideal!Become(b, Heard(Mono(o)))
    BY <1>1, <1>6, <2>1, CallBecomes DEF ConvertToMono
  <2>3. CASE o.usedChannels = 1
    <3>1. Mono(o) = o
      BY <2>3 DEF Mono
    <3>. QED BY <2>2, <3>1, BecomeSame
  <2>4. CASE o.usedChannels # 1
    <3>1. o.usedChannels > 1
      BY <1>1, <1>6, <2>4 DEF ConvertToMono
    <3>2. Heard(Mono(o)) = Ideal!Averaged(Heard(o))
      BY <1>1, <3>1, MonoIsHeard
    <3>3. Ideal!Width(Signals[b]) > 1
      BY <1>1, <1>2, <3>1, HeardParts
    <3>. QED BY <1>2, <2>2, <3>2, <3>3, IdealChanges DEF Ideal!ToMono
  <2>. QED BY <2>3, <2>4
<1>7. CASE AssignFloat(b)
  BY <1>7 DEF AssignFloat, May, Modest
<1>. QED BY <1>3, <1>4, <1>5, <1>6, <1>7

LEMMA CombiningMaps ==
  ASSUME Modest, NullIsApart, Cared, Combining
  PROVE  Ideal!Next \/ UNCHANGED Signals
<1> PICK b \in Alive, r \in Alive :
         \/ Assign(b, r)
         \/ Mix(b, r)
         \/ ZeroAndCopy(b, r)
         \/ \E k \in Extents : Sum(b, r, k)
  BY DEF Combining
<1> DEFINE o == buf[b]
<1>1. /\ b \in Buffers /\ Fit(o) /\ o.isSilent \in BOOLEAN /\ Sounding(Heard(o))
      /\ o.usedChannels \in Nat /\ DOMAIN o = Fields
  BY CaredObject DEF Fit, Record
<1>2. /\ Fit(buf[r]) /\ buf[r].isSilent \in BOOLEAN /\ Sounding(Heard(buf[r]))
      /\ buf[r].usedChannels \in Nat /\ DOMAIN buf[r] = Fields
  BY CaredObject DEF Fit, Record
<1>3. /\ Signals[b] = Heard(o) /\ b \in Ideal!Exists
      /\ Signals[r] = Heard(buf[r]) /\ r \in Ideal!Exists
  BY SignalOf
<1>4. CASE Assign(b, r)
  <2>1. DOMAIN Assigned(o, buf[r]) = Fields
    BY <1>1, AssignedFields
  <2>2. UNCHANGED Signals
          \/ (AssignReaches(o, buf[r]) /\ Ideal!Become(b, Heard(Assigned(o, buf[r]))))
    BY <1>1, <1>4, <2>1, CallBecomes DEF Assign
  <2>3. AssignReaches(o, buf[r]) => Heard(Assigned(o, buf[r])) = Signals[r]
    BY <1>1, <1>3, AssignedIsHeard
  <2>. QED BY <1>3, <2>2, <2>3, IdealCombines DEF Ideal!Assign
<1>5. CASE Mix(b, r)
  <2>1. CASE ~MixCopies(o, buf[r])
    <3>1. Mixed(o, buf[r]) = o
      BY <2>1 DEF Mixed
    <3>2. UNCHANGED Signals \/ Ideal!Become(b, Heard(o))
      BY <1>1, <1>5, <3>1, CallBecomes DEF Mix
    <3>. QED BY <3>2, BecomeSame
  <2>2. CASE MixCopies(o, buf[r])
    <3> DEFINE d == MixTarget(o, buf[r])
    <3>1. Mixed(o, buf[r]) = Assigned(d, buf[r]) /\ (MixReaches(o, buf[r]) <=> AssignReaches(d, buf[r]))
      BY <2>2 DEF Mixed, MixReaches
    <3>2. DOMAIN d = Fields
      BY <1>1 DEF MixTarget, Resize, Fields
    <3> HIDE DEF d
    <3>3. DOMAIN Assigned(d, buf[r]) = Fields /\ (AssignReaches(d, buf[r]) => Heard(Assigned(d, buf[r])) = Signals[r])
      BY <1>3, <3>2, AssignedFields, AssignedIsHeard
    <3>4. UNCHANGED Signals
            \/ (AssignReaches(d, buf[r]) /\ Ideal!Become(b, Heard(Assigned(d, buf[r]))))
      BY <1>1, <1>5, <3>1, <3>3, CallBecomes DEF Mix
    <3>5. Ideal!IsQuiet(Signals[b])
      <4>1. Heard(o) = Ideal!Silence(o.usedChannels, o.size)
        <5>1. CASE o.isSilent
          BY <1>1, <5>1, SilentIsHeard
        <5>2. CASE o.usedChannels = 0
          BY <5>2 DEF Heard, Ideal!Silence, Upto
        <5>. QED BY <2>2, <5>1, <5>2 DEF MixCopies
      <4>2. Ideal!Width(Heard(o)) = o.usedChannels /\ Heard(o).len = o.size
        BY <1>1, HeardParts
      <4>. QED BY <1>3, <4>1, <4>2 DEF Ideal!IsQuiet
    <3>6. Ideal!Become(b, Signals[r]) => Ideal!Mix(b, r)
      BY <3>5 DEF Ideal!Mix
    <3>. QED BY <1>3, <3>3, <3>4, <3>6, IdealCombines
  <2>. QED BY <2>1, <2>2
<1>6. CASE ZeroAndCopy(b, r)
  <2> DEFINE rhs == IF r = b THEN [buf[b] EXCEPT !.isSilent = TRUE] ELSE buf[r]
  <2>1. /\ ~rhs.isSilent => rhs.size >= o.size /\ rhs.usedChannels <= o.channels
                            /\ rhs.usedChannels >= o.usedChannels
        /\ Call(b, ZeroAndCopyReaches(o, rhs), ZeroedAndCopied(o, rhs))
    BY <1>6 DEF ZeroAndCopy, Careful, May, Modest
  <2>2. CASE o.usedChannels = 0 \/ rhs.isSilent
    <3> DEFINE d == [o EXCEPT !.isSilent = TRUE]
    <3>1. ZeroedAndCopied(o, rhs) = d
      BY <2>2 DEF ZeroedAndCopied
    <3>2. d.isSilent = TRUE /\ d.size = o.size /\ d.usedChannels = o.usedChannels /\ DOMAIN d = Fields
      BY <1>1 DEF Fields
    <3> HIDE DEF d
    <3>3. Heard(d) = Ideal!Silence(Ideal!Width(Heard(o)), Heard(o).len)
      BY ZenonT(30), <1>1, <3>2, SilentIsHeard, HeardParts
    <3>4. UNCHANGED Signals \/ Ideal!Become(b, Heard(d))
      BY <1>1, <2>1, <3>1, <3>2, CallBecomes
    <3>. QED BY <1>3, <3>3, <3>4, IdealChanges DEF Ideal!Clear
  <2>3. CASE o.usedChannels # 0 /\ ~rhs.isSilent
    <3> DEFINE d == ZeroedAndCopied(o, buf[r])
    <3>1. rhs = buf[r]
      BY <1>1, <2>3 DEF Fields
    <3>2. Heard(d) = Ideal!Signal(buf[r].usedChannels, o.size, Heard(buf[r]).rows)
      BY <1>1, <1>2, <2>1, <2>3, <3>1, CopiedIsHeard
    <3>3. DOMAIN d = Fields
      BY <1>1, OverlayFrame DEF ZeroedAndCopied
    <3>4. UNCHANGED Signals \/ Ideal!Become(b, Heard(d))
      BY <1>1, <2>1, <3>1, <3>3, CallBecomes
    <3> HIDE DEF d
    <3>5. /\ Ideal!Width(Heard(buf[r])) = buf[r].usedChannels
          /\ Heard(buf[r]).len = buf[r].size /\ Heard(o).len = o.size
      BY <1>1, <1>2, HeardParts
    <3>6. buf[r].size >= o.size
      BY <2>1, <2>3, <3>1
    <3>7. Ideal!Become(b, Heard(d)) => Ideal!Replace(b, r)
      BY <1>3, <3>2, <3>5, <3>6 DEF Ideal!Replace
    <3>. QED BY <1>3, <3>4, <3>7, IdealCombines
  <2>. QED BY <2>2, <2>3
<1>7. ASSUME NEW k \in Extents, Sum(b, r, k)
      PROVE  Ideal!Next \/ UNCHANGED Signals
  <2>1. CASE Stop("assert")
    BY <2>1 DEF Stop, Signals
  <2>2. CASE Call(b, SumReaches(o, buf[r], k), Summed(o, buf[r], k))
    <3> DEFINE d == Summed(o, buf[r], k)
    <3>1. DOMAIN d = Fields
      BY <1>1, OverlayFrame DEF Summed, Unsilenced
    <3>2. UNCHANGED Signals \/ Ideal!Become(b, Heard(d))
      BY <1>1, <2>2, <3>1, CallBecomes
    <3>3. CASE SumIsIdle(o, buf[r])
      <4>1. d = o
        BY <3>3 DEF Summed
      <4>. QED BY <3>2, <4>1, BecomeSame
    <3>4. CASE ~SumIsIdle(o, buf[r])
      <4>1. o.usedChannels # 0 /\ buf[r].isSilent = FALSE /\ buf[r].usedChannels # 0
        BY <1>2, <3>4 DEF SumIsIdle
      <4>2. /\ k <= o.size /\ k <= buf[r].size /\ buf[r].usedChannels <= o.channels
            /\ buf[r].usedChannels > o.usedChannels => o.isSilent \/ k = o.size
        BY <1>7 DEF Sum, Careful, May, Modest
      <4>3. k \in Nat
        BY Counts
      <4>4. Heard(d) = Ideal!Added(Heard(o), Heard(buf[r]), k)
        BY <1>1, <1>2, <4>1, <4>2, <4>3, SummedIsHeard
      <4> HIDE DEF d
      <4>5. /\ Ideal!Width(Heard(o)) = o.usedChannels /\ Heard(o).len = o.size
            /\ Ideal!Width(Heard(buf[r])) = buf[r].usedChannels /\ Heard(buf[r]).len = buf[r].size
        BY <1>1, <1>2, HeardParts
      <4>6. Ideal!Become(b, Heard(d)) => Ideal!Sum(b, r, k)
        BY <1>1, <1>2, <1>3, <4>1, <4>2, <4>4, <4>5 DEF Ideal!Sum
      <4>7. k \in 0 .. Signals[b].len
        BY <1>1, <1>3, <4>2, <4>3, <4>5 DEF Fit, Record
      <4>. QED BY <1>3, <3>2, <4>6, <4>7, IdealCombines
    <3>. QED BY <3>3, <3>4
  <2>. QED BY <1>7, <2>1, <2>2 DEF Sum
<1>. QED BY <1>4, <1>5, <1>6, <1>7

\* An audible object is heard as the samples in its used rows.
LEMMA AudibleIsHeard ==
  ASSUME NEW o, o.isSilent = FALSE, NEW rows,
         \A c \in Upto(o.usedChannels), i \in Upto(o.size) : o.data[c][i] = rows[c][i]
  PROVE  Heard(o) = Ideal!Signal(o.usedChannels, o.size, rows)
<1>1. Heard(o) = [len |-> o.size,
                  rows |-> [c \in Upto(o.usedChannels) |-> [i \in Upto(o.size) |-> rows[c][i]]]]
  BY DEF Heard
<1>. QED BY <1>1 DEF Ideal!Signal, Upto

\* rows are the used samples of o when those of stored are in their places.
Results(o, stored, rows) ==
  \A c \in Upto(o.usedChannels), i \in Upto(o.size) :
    rows[c][i] = IF c \in DOMAIN stored /\ i \in DOMAIN stored[c] THEN stored[c][i] ELSE o.data[c][i]

\* What storing samples in an audible object does to what is heard.
LEMMA RewrittenIsHeard ==
  ASSUME NEW o, Fit(o), o.isSilent = FALSE, NEW stored, NEW rows, Results(o, stored, rows)
  PROVE  Heard(Overlay(o, stored)) = Ideal!Signal(o.usedChannels, o.size, rows)
<1> DEFINE d == Overlay(o, stored)
<1>1. \A c \in Upto(o.usedChannels), i \in Upto(o.size) : d.data[c][i] = rows[c][i]
  <2> SUFFICES ASSUME NEW c \in Upto(o.usedChannels), NEW i \in Upto(o.size)
               PROVE  d.data[c][i] = rows[c][i]
    OBVIOUS
  <2>1. c \in Upto(o.channels)
    BY DEF Fit, Record, Shaped, Upto
  <2>. QED BY <2>1, OverlayAt DEF Results
<1>2. d.isSilent = FALSE /\ d.size = o.size /\ d.usedChannels = o.usedChannels
  BY OverlayFrame DEF Fit, Record
<1> HIDE DEF d
<1>3. Heard(d) = Ideal!Signal(d.usedChannels, d.size, rows)
  BY ZenonT(30), <1>1, <1>2, AudibleIsHeard
<1>. QED BY <1>2, <1>3 DEF d

LEMMA HeardIsRecord ==
  ASSUME NEW o, NEW f PROVE [Heard(o) EXCEPT !.rows = f] = [len |-> o.size, rows |-> f]
<1>1. \A x, y : [[len |-> x, rows |-> y] EXCEPT !.rows = f] = [len |-> x, rows |-> f]
  OBVIOUS
<1>2. \E y : Heard(o) = [len |-> o.size, rows |-> y]
  BY DEF Heard
<1>. QED BY <1>1, <1>2

\* A signal with other rows.
LEMMA RowsReplaced ==
  ASSUME NEW o, NEW rows, rows = [c \in Upto(o.usedChannels) |-> [i \in Upto(o.size) |-> rows[c][i]]]
  PROVE  [Heard(o) EXCEPT !.rows = rows] = Ideal!Signal(o.usedChannels, o.size, rows)
<1>1. \A f : [Heard(o) EXCEPT !.rows = f] = [len |-> o.size, rows |-> f]
  BY HeardIsRecord
<1>2. Ideal!Signal(o.usedChannels, o.size, rows) =
        [len |-> o.size, rows |-> [c \in Upto(o.usedChannels) |-> [i \in Upto(o.size) |-> rows[c][i]]]]
  BY DEF Ideal!Signal, Upto
<1>. QED BY <1>1, <1>2

\* What filling a span of an audible object does to what is heard.
LEMMA PaintedIsHeard ==
  ASSUME NEW o, Fit(o), o.isSilent = FALSE, NEW span, NEW v
  PROVE  Heard(Overlay(o, Constant(o.usedChannels, span, v))) = Ideal!Painted(Heard(o), span, v)
<1> DEFINE n == o.usedChannels
           stored == Constant(n, span, v)
           rows == [c \in Upto(n) |-> [i \in Upto(o.size) |-> IF i \in span THEN v ELSE Heard(o).rows[c][i]]]
<1>1. DOMAIN stored = Upto(n) /\ \A c \in Upto(n) : DOMAIN stored[c] = span /\ \A i \in span : stored[c][i] = v
  BY DEF Constant
<1>2. n \in Nat
  BY DEF Fit, Record
<1>3. Ideal!Painted(Heard(o), span, v) = [Heard(o) EXCEPT !.rows = rows]
  <2>1. Ideal!Channels(Heard(o)) = Upto(n) /\ Ideal!Positions(Heard(o)) = Upto(o.size)
    BY <1>2, HeardParts
  <2>. QED BY <2>1 DEF Ideal!Painted
<1>4. rows = [c \in Upto(n) |-> [i \in Upto(o.size) |-> rows[c][i]]]
  OBVIOUS
<1>5. \A c \in Upto(n), i \in Upto(o.size) : Heard(o).rows[c][i] = o.data[c][i]
  BY RowsAreHeard
<1>6. Results(o, stored, rows)
  <2> SUFFICES ASSUME NEW c \in Upto(n), NEW i \in Upto(o.size)
               PROVE  rows[c][i] = IF c \in DOMAIN stored /\ i \in DOMAIN stored[c]
                                   THEN stored[c][i] ELSE o.data[c][i]
    BY DEF Results
  <2>1. rows[c][i] = IF i \in span THEN v ELSE o.data[c][i]
    BY <1>5
  <2> HIDE DEF stored
  <2>. QED BY <1>1, <2>1
<1> HIDE DEF stored, rows
<1>7. Heard(Overlay(o, stored)) = Ideal!Signal(n, o.size, rows)
  BY <1>6, RewrittenIsHeard
<1>. QED BY <1>3, <1>4, <1>7, RowsReplaced DEF stored

LEMMA WritingMaps ==
  ASSUME Modest, NullIsApart, Cared, Writing
  PROVE  Ideal!Next \/ UNCHANGED Signals
<1> PICK b \in Alive :
         \/ Zero(b)
         \/ \E k \in Extents, pos \in Extents : ZeroRange(b, k, pos)
         \/ \E v \in Levels, k \in Extents, pos \in Extents : Fill(b, v, k, pos)
         \/ \E rec \in Recordings : CreateNoise(b, rec)
         \/ \E wave \in Sines : AddSine(b, wave)
         \/ \E gain \in Gains : ApplyGain(b, gain)
         \/ \E shape \in Geometries, rec \in Recordings : Load(b, shape[1], shape[2], rec)
  BY DEF Writing
<1> DEFINE o == buf[b]
           n == o.usedChannels
           s == o.size
<1>1. /\ b \in Buffers /\ Fit(o) /\ o.isSilent \in BOOLEAN /\ Sounding(Heard(o))
      /\ n \in Nat /\ s \in Nat /\ o.usedSize = s /\ DOMAIN o = Fields
  BY CaredObject DEF Fit, Record, Shaped
<1>2. Signals[b] = Heard(o) /\ b \in Ideal!Exists
  BY SignalOf
<1>3. /\ Ideal!Width(Heard(o)) = n /\ Heard(o).len = s
      /\ Ideal!Channels(Heard(o)) = Upto(n) /\ Ideal!Positions(Heard(o)) = Upto(s)
  BY <1>1, HeardParts
<1>4. Heard(o) = [len |-> s, rows |-> Heard(o).rows]
  BY DEF Heard
<1>5. ASSUME NEW STATE reaches, NEW rows, Call(b, reaches, Overlay(o, rows))
      PROVE  UNCHANGED Signals \/ (o.isSilent = FALSE /\ Ideal!Become(b, Heard(Overlay(o, rows))))
  <2>1. DOMAIN Overlay(o, rows) = Fields
    BY <1>1, OverlayFrame
  <2>2. UNCHANGED Signals \/ Ideal!Become(b, Heard(Overlay(o, rows)))
    BY <1>1, <1>5, <2>1, CallBecomes
  <2>3. o.isSilent = TRUE => Heard(Overlay(o, rows)) = Heard(o)
    BY <1>1, StoredIsHidden
  <2>. QED BY <1>1, <2>2, <2>3, BecomeSame
<1>6. CASE Zero(b)
  <2> DEFINE d == [o EXCEPT !.isSilent = TRUE]
  <2>1. d.isSilent = TRUE /\ d.size = s /\ d.usedChannels = n /\ DOMAIN d = Fields
    BY <1>1 DEF Fields
  <2>2. Store(b, d)
    BY <1>6 DEF Zero
  <2> HIDE DEF d
  <2>3. Ideal!Become(b, Heard(d)) /\ Heard(d) = Ideal!Silence(n, s)
    BY <1>1, <2>1, <2>2, Becomes, SilentIsHeard
  <2>. QED BY <1>2, <1>3, <2>3, IdealChanges DEF Ideal!Clear
<1>7. ASSUME NEW k \in Nat, NEW pos \in Nat, pos + k <= s, NEW v \in Levels \cup {0}, NEW STATE reaches,
             Call(b, reaches, Overlay(o, Constant(n, pos .. (pos + k - 1), v)))
      PROVE  Ideal!Next \/ UNCHANGED Signals
  <2> DEFINE span == pos .. (pos + k - 1)
             rows == Constant(n, span, v)
  <2>1. UNCHANGED Signals \/ (o.isSilent = FALSE /\ Ideal!Become(b, Heard(Overlay(o, rows))))
    BY <1>5, <1>7
  <2>2. o.isSilent = FALSE => Heard(Overlay(o, rows)) = Ideal!Painted(Heard(o), span, v)
    BY <1>1, PaintedIsHeard
  <2>3. CASE k = 0
    <3>1. span = {}
      BY <2>3
    <3>2. Ideal!Painted(Heard(o), {}, v) = Heard(o)
      <4>1. Heard(o).rows = [c \in Upto(n) |-> [i \in Upto(s) |-> Heard(o).rows[c][i]]]
        BY DEF Heard
      <4>. QED BY <1>3, <1>4, <4>1 DEF Ideal!Painted
    <3>. QED BY <2>1, <2>2, <3>1, <3>2, BecomeSame
  <2>4. CASE k # 0
    <3>1. pos \in Upto(s) /\ pos + k - 1 \in Upto(s)
      BY <1>1, <1>7, <2>4 DEF Upto
    <3>2. Ideal!Become(b, Ideal!Painted(Heard(o), span, v)) => Ideal!Paint(b, pos, pos + k - 1, v)
      BY <1>2 DEF Ideal!Paint
    <3>3. Ideal!Paint(b, pos, pos + k - 1, v) => Ideal!Next
      BY <1>2, <1>3, <3>1, IdealWrites
    <3>. QED BY <2>1, <2>2, <3>2, <3>3
  <2>. QED BY <2>3, <2>4
<1>8. ASSUME NEW k \in Extents, NEW pos \in Extents, ZeroRange(b, k, pos)
      PROVE  Ideal!Next \/ UNCHANGED Signals
  <2>1. k \in Nat /\ pos \in Nat
    BY Counts
  <2>2. pos + k <= s
    BY <1>1, <1>8, <2>1 DEF ZeroRange
  <2>. QED BY <1>7, <1>8, <2>1, <2>2 DEF ZeroRange
<1>9. ASSUME NEW v \in Levels, NEW k \in Extents, NEW pos \in Extents, Fill(b, v, k, pos)
      PROVE  Ideal!Next \/ UNCHANGED Signals
  <2>1. k \in Nat /\ pos \in Nat
    BY Counts
  <2>2. pos + k <= s
    BY <1>9 DEF Fill, Careful, May, Modest
  <2>3. CASE k = 0
    <3>1. UNCHANGED Signals \/ Ideal!Become(b, Heard(o))
      BY <1>1, <1>9, <2>3, CallBecomes DEF Fill
    <3>. QED BY <3>1, BecomeSame
  <2>4. CASE k # 0
    BY <1>7, <1>9, <2>1, <2>2, <2>4 DEF Fill
  <2>. QED BY <2>3, <2>4
<1>10. ASSUME NEW rec \in Recordings, CreateNoise(b, rec)
       PROVE  Ideal!Next \/ UNCHANGED Signals
  <2> DEFINE stored == [c \in Upto(n) |-> [i \in Upto(o.usedSize) |-> rec[c][i]]]
  <2>1. Call(b, Reaches(o, n, o.usedSize), Overlay(o, stored))
    BY <1>10 DEF CreateNoise
  <2>2. Results(o, stored, rec)
    BY <1>1 DEF Results
  <2> HIDE DEF stored
  <2>3. UNCHANGED Signals \/ Ideal!Become(b, Ideal!Signal(n, s, rec))
    BY ZenonT(30), <1>1, <1>5, <2>1, <2>2, RewrittenIsHeard
  <2>. QED BY <1>2, <1>3, <2>3, IdealWrites DEF Ideal!Rerecord
<1>11. ASSUME NEW wave \in Sines, AddSine(b, wave)
       PROVE  Ideal!Next \/ UNCHANGED Signals
  <2> DEFINE stored == [c \in Upto(n) |-> [i \in Upto(s) |-> Plus(o.data[c][i], wave[i])]]
             sum == [c \in Upto(n) |-> [i \in Upto(s) |-> Heard(o).rows[c][i] + wave[i]]]
  <2>1. Call(b, Reaches(o, n, s), Overlay(o, stored))
    BY <1>11 DEF AddSine
  <2>2. ASSUME o.isSilent = FALSE PROVE Results(o, stored, sum)
    <3> SUFFICES ASSUME NEW c \in Upto(n), NEW i \in Upto(s)
                 PROVE  sum[c][i] = IF c \in DOMAIN stored /\ i \in DOMAIN stored[c]
                                  THEN stored[c][i] ELSE o.data[c][i]
      BY DEF Results
    <3>1. Heard(o).rows[c][i] = o.data[c][i]
      BY <2>2, RowsAreHeard
    <3>2. o.data[c][i] \in Int /\ wave[i] \in Int
      BY <2>2, AudibleNumbers, CaredObject DEF Recordable
    <3>3. Plus(o.data[c][i], wave[i]) = o.data[c][i] + wave[i]
      BY <3>2, SamplesAssumption DEF Plus
    <3>. QED BY <3>1, <3>3
  <2>3. sum = [c \in Upto(n) |-> [i \in Upto(s) |-> sum[c][i]]]
    OBVIOUS
  <2>4. Ideal!AddSine(b, wave) <=> Ideal!Become(b, [Heard(o) EXCEPT !.rows = sum])
    BY <1>2, <1>3 DEF Ideal!AddSine
  <2> HIDE DEF stored, sum
  <2>5. o.isSilent = FALSE => Heard(Overlay(o, stored)) = Ideal!Signal(n, s, sum)
    BY <1>1, <2>2, RewrittenIsHeard
  <2>6. [Heard(o) EXCEPT !.rows = sum] = Ideal!Signal(n, s, sum)
    BY <2>3, RowsReplaced
  <2>7. UNCHANGED Signals \/ Ideal!Become(b, [Heard(o) EXCEPT !.rows = sum])
    BY <1>5, <2>1, <2>5, <2>6
  <2>. QED BY <1>2, <2>4, <2>7, IdealWrites
<1>12. ASSUME NEW gain \in Gains, ApplyGain(b, gain)
       PROVE  Ideal!Next \/ UNCHANGED Signals
  <2> DEFINE stored == [c \in Upto(n) |-> [i \in Upto(o.usedSize) |-> Times(o.data[c][i], gain)]]
             product == [c \in Upto(n) |-> [i \in Upto(s) |-> Heard(o).rows[c][i] * gain]]
  <2>1. Call(b, Reaches(o, n, o.usedSize), Overlay(o, stored))
    BY <1>12 DEF ApplyGain
  <2>2. ASSUME o.isSilent = FALSE PROVE Results(o, stored, product)
    <3> SUFFICES ASSUME NEW c \in Upto(n), NEW i \in Upto(s)
                 PROVE  product[c][i] = IF c \in DOMAIN stored /\ i \in DOMAIN stored[c]
                                  THEN stored[c][i] ELSE o.data[c][i]
      BY DEF Results
    <3>1. Heard(o).rows[c][i] = o.data[c][i]
      BY <2>2, RowsAreHeard
    <3>2. o.data[c][i] \in Int
      BY <2>2, AudibleNumbers
    <3>3. Times(o.data[c][i], gain) = o.data[c][i] * gain
      BY <3>2, SamplesAssumption DEF Times
    <3>4. c \in DOMAIN stored /\ i \in DOMAIN stored[c] /\ stored[c][i] = Times(o.data[c][i], gain)
      BY <1>1
    <3>. QED BY <3>1, <3>3, <3>4
  <2>3. product = [c \in Upto(n) |-> [i \in Upto(s) |-> product[c][i]]]
    OBVIOUS
  <2>4. Ideal!Amplify(b, gain) <=> Ideal!Become(b, [Heard(o) EXCEPT !.rows = product])
    BY <1>2, <1>3 DEF Ideal!Amplify
  <2> HIDE DEF stored, product
  <2>5. o.isSilent = FALSE => Heard(Overlay(o, stored)) = Ideal!Signal(n, s, product)
    BY <1>1, <2>2, RewrittenIsHeard
  <2>6. [Heard(o) EXCEPT !.rows = product] = Ideal!Signal(n, s, product)
    BY <2>3, RowsReplaced
  <2>7. UNCHANGED Signals \/ Ideal!Become(b, [Heard(o) EXCEPT !.rows = product])
    BY <1>5, <2>1, <2>5, <2>6
  <2>. QED BY <1>2, <2>4, <2>7, IdealWrites
<1>13. ASSUME NEW shape \in Geometries, NEW rec \in Recordings, Load(b, shape[1], shape[2], rec)
       PROVE  Ideal!Next \/ UNCHANGED Signals
  <2>1. PICK m \in Nat, l \in Nat : m = shape[1] /\ l = shape[2] /\ m <= MaxChannels /\ Recordable(l)
    BY ShapesAreRecordable, Counts
  <2>2. Resize(o, m, l).usedChannels = m
    <3>1. m = o.channels /\ l = o.size => n = o.channels
      BY <1>13, <2>1 DEF Load, FullyUsed, Careful, May, Modest
    <3>. QED BY <1>1, <3>1 DEF Resize, Fields
  <2>3. Heard(Loaded(o, m, l, rec)) = Ideal!Signal(m, l, rec)
    BY <1>1, <2>1, <2>2, LoadedIsSounding
  <2>4. DOMAIN Loaded(o, m, l, rec) = Fields
    <3> DEFINE d == Resize(o, m, l)
    <3>1. DOMAIN d = Fields
      BY <1>1 DEF Resize, Fields
    <3> HIDE DEF d
    <3>2. DOMAIN Overlay(d, [c \in Upto(m) |-> [i \in Upto(l) |-> rec[c][i]]]) = Fields
      BY <3>1, OverlayFrame
    <3>. QED BY <3>2 DEF Loaded, d
  <2>5. Call(b, Reaches(Resize(o, m, l), m, l), Loaded(o, m, l, rec))
    BY <1>13, <2>1 DEF Load, Loaded
  <2>6. UNCHANGED Signals \/ Ideal!Become(b, Ideal!Signal(m, l, rec))
    BY <1>1, <2>3, <2>4, <2>5, CallBecomes
  <2>. QED BY <1>2, <2>1, <2>6, IdealWrites DEF Ideal!Load
<1>. QED BY <1>6, <1>8, <1>9, <1>10, <1>11, <1>12, <1>13

-----------------------------------------------------------------------------
\* Whatever the shapes, the samples and the number of objects, every method does
\* to the signals that are heard what its name says: the flag isSilent, the
\* stale rows behind it and the spare rows never show.
THEOREM BuffersImplementSignals == ASSUME Modest, NullIsApart PROVE Spec => ImplementsSignal
<1>1. Init => Ideal!Init
  BY DEF Init, Ideal!Init, Signals
<1>2. Cared /\ [Next]_vars => [Ideal!Next]_Signals
  <2> SUFFICES ASSUME Cared, [Next]_vars PROVE [Ideal!Next]_Signals
    OBVIOUS
  <2>1. CASE Next
    BY <2>1, ConstructorsMap, GeometryMaps, CombiningMaps, WritingMaps DEF Next
  <2>2. CASE UNCHANGED vars
    BY <2>2 DEF vars, Signals
  <2>. QED BY <2>1, <2>2
<1>3. Spec => []Cared
  BY ModestIsTrustful, AlwaysCared
<1>. QED BY <1>1, <1>2, <1>3, PTL DEF Spec, ImplementsSignal, Ideal!Spec
=============================================================================
