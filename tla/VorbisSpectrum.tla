----------------------------- MODULE VorbisSpectrum -----------------------------
(***************************************************************************)
(* What vorbis_decode_packet_rest, src/src/stb_vorbis.c, computes for one  *)
(* block before the transform: the floor curve of a channel, where each    *)
(* component of the residue goes, and the channels that are coupled.       *)
(*                                                                         *)
(* A component of the residue is the name of what was read: its pass, its  *)
(* partition and channel, its vector there and its place in the vector.    *)
(* The setups are legal ones: points of a floor are different, the books   *)
(* fill a partition with whole vectors, and the residue lies inside the    *)
(* block, so that what stops a vector short at the block's end, at 1777    *)
(* and 1843 (with the sign of c_inter wrong), is never reached.            *)
(***************************************************************************)
EXTENDS OneCall

CONSTANTS
  Floors,     \* [n2, X, range, multiplier, y]: a floor and what was read for it
  Residues,   \* [rtype, ch, skip, n, begin, part_size, classwords, books, class, left]
  Couplings   \* [channels, steps, zero, sample]: steps are pairs of magnitude and angle

\* A legal floor starts at 0, ends with its second point, and has the others inside
\* the block, each at a place of its own.
ASSUME FloorsAssumption ==
  \A g \in Floors :
    LET n == Cardinality(DOMAIN g.X)
    IN  /\ n \in Nat /\ n >= 2
        /\ g.X \in [Upto(n) -> Nat]
        /\ g.X[0] = 0 /\ \A i \in 2 .. (n - 1) : g.X[i] < g.X[1] /\ g.X[i] < g.n2
        /\ \A i, j \in Upto(n) : i # j => g.X[i] # g.X[j]
        /\ g.n2 \in Nat \ {0} /\ g.multiplier \in Nat
        /\ g.range \in Nat /\ g.y \in [Upto(n) -> Upto(g.range)]

\* The residue lies inside the block, of n samples in each channel, and the books fill
\* its partitions with whole vectors.
ASSUME ResiduesAssumption ==
  \A r \in Residues :
    LET parts == Cardinality(DOMAIN r.class[0])
        passes == Cardinality(DOMAIN r.books[0])
    IN  /\ r.rtype \in 0 .. 2 /\ r.ch \in Nat \ {0} /\ r.skip \subseteq Upto(r.ch)
        /\ r.begin \in Nat /\ r.part_size \in Nat \ {0} /\ r.classwords \in Nat \ {0} /\ r.left \in Nat
        /\ parts \in Nat /\ passes \in Nat
        /\ r.n \in Nat /\ r.begin + parts * r.part_size <= r.n * (IF r.rtype = 2 THEN r.ch ELSE 1)
        /\ \A j \in Upto(IF r.rtype = 2 THEN 1 ELSE r.ch), p \in Upto(parts), pass \in Upto(passes) :
             LET dim == r.books[r.class[j][p]][pass]
             IN  dim \in Nat /\ (dim > 0 => r.part_size % dim = 0)

\* start_decoder refuses a step that couples a channel with itself.
ASSUME CouplingsAssumption ==
  /\ NULL \notin Int
  /\ \A c \in Couplings :
       /\ c.channels \in Nat
       /\ c.steps \in Seq(Upto(c.channels) \X Upto(c.channels))
       /\ \A k \in DOMAIN c.steps : c.steps[k][1] # c.steps[k][2]
       /\ c.zero \subseteq Upto(c.channels)
       /\ c.sample \in [Upto(c.channels) -> Int]

\* ilog and C's division, which goes towards zero.
ilog(n) == IF n = 0 THEN 0 ELSE CHOOSE k \in 1 .. 31 : 2 ^ (k - 1) <= n /\ n < 2 ^ k
Over(a, b) == IF a < 0 THEN -((-a) \div b) ELSE a \div b

-----------------------------------------------------------------------------
(***************************************************************************)
(* The floor.  Its points are numbered in the order of the file.           *)
(***************************************************************************)
Points(g) == Upto(Cardinality(DOMAIN g.X))

\* neighbors: among the points before it.
Low(g, j) == CHOOSE i \in Upto(j) : /\ g.X[i] < g.X[j]
                                    /\ \A k \in Upto(j) : g.X[k] < g.X[j] => g.X[k] <= g.X[i]
High(g, j) == CHOOSE i \in Upto(j) : /\ g.X[i] > g.X[j]
                                     /\ \A k \in Upto(j) : g.X[k] > g.X[j] => g.X[k] >= g.X[i]

predict_point(x, x0, x1, y0, y1) ==
  LET off == (Abs(y1 - y0) * (x - x0)) \div (x1 - x0)
  IN  IF y1 < y0 THEN y0 - off ELSE y0 + off

\* Variant: from the range, not from its last height.
DownFromRange(pred, val, highroom) == pred - val + highroom

\* Counted down from the last height.
DownFromTop(pred, val, highroom) == pred - val + highroom - 1

\* The height of a point that was predicted to be pred.
Moved(range, pred, val) ==
  LET highroom == range - pred
      lowroom == pred
      room == 2 * Min({highroom, lowroom})
  IN  CASE val = 0 -> pred
        [] val > 0 /\ val >= room /\ highroom > lowroom -> val - lowroom + pred
        [] val > 0 /\ val >= room /\ highroom <= lowroom -> DownFromTop(pred, val, highroom)
        [] val > 0 /\ val < room /\ val % 2 = 1 -> pred - (val + 1) \div 2
        [] val > 0 /\ val < room /\ val % 2 = 0 -> pred + val \div 2

Prediction(g, finalY, j) ==
  predict_point(g.X[j], g.X[Low(g, j)], g.X[High(g, j)], finalY[Low(g, j)], finalY[High(g, j)])

\* finalY, and the points with step2_flag.
Heights(g) ==
  LET AddPoint(h, j) == [finalY |-> [h.finalY EXCEPT ![j] = Moved(g.range, Prediction(g, h.finalY, j), @)],
                          used |-> IF g.y[j] = 0 THEN h.used ELSE h.used \cup {Low(g, j), High(g, j), j}]
  IN  FoldLeft(AddPoint, [finalY |-> g.y, used |-> {0, 1}], Count(2, Cardinality(Points(g)) - 1))

\* Variant: the step comes one too late.
IsBehind(err, adx) == err > adx

IsDue(err, adx) == err >= adx

\* draw_line: what is multiplied into the output, at which place, in this order; one
\* step to the right on a slope of dy over adx.
LineStep(w, x, dy, adx) ==
  LET base == Over(dy, adx)
      sy == IF dy < 0 THEN base - 1 ELSE base + 1
      err == w.err + (Abs(dy) - Abs(base) * adx)
      over == IsDue(err, adx)
      y == w.y + (IF over THEN sy ELSE base)
  IN  [err |-> IF over THEN err - adx ELSE err, y |-> y, strokes |-> Append(w.strokes, <<x, y>>)]

draw_line(x0, y0, x1, y1, n) ==
  LET Step(w, x) == LineStep(w, x, y1 - y0, x1 - x0)
  IN  FoldLeft(Step, [err |-> 0, y |-> y0, strokes |-> <<<<x0, y0>>>>], Count(x0 + 1, Min({x1, n}) - 1)).strokes

\* sorted_order, behind the point at 0 that comes first.
sorted_order(g) ==
  LET last == Cardinality(DOMAIN g.X) - 1
  IN  CHOOSE order \in [1 .. last -> 1 .. last] :
        \A p, q \in 1 .. last : p < q => g.X[order[p]] < g.X[order[q]]

Scaled(g, h, i) == h.finalY[i] * g.multiplier

\* do_floor: from one used point to the next in the order of X, and flat behind the last.
DrawTo(g, h, c, j) ==
  IF j \notin h.used THEN c
  ELSE [lx |-> g.X[j], ly |-> Scaled(g, h, j),
        strokes |-> c.strokes \o draw_line(c.lx, c.ly, g.X[j], Scaled(g, h, j), g.n2)]

Curve(g, h) ==
  LET Draw(c, j) == DrawTo(g, h, c, j)
      c == FoldLeft(Draw, [lx |-> 0, ly |-> Scaled(g, h, 0), strokes |-> <<>>], sorted_order(g))
  IN  c.strokes \o [k \in 1 .. (IF c.lx < g.n2 THEN g.n2 - c.lx ELSE 0) |-> <<c.lx + k - 1, c.ly>>]

-----------------------------------------------------------------------------
(***************************************************************************)
(* The residue.  The state of the decoder: what was added where, how many  *)
(* symbols the packet has left, whether it has ended, and for type 2 the   *)
(* next channel and place.                                                 *)
(***************************************************************************)
Parts(r) == Cardinality(DOMAIN r.class[0])
Passes(r) == Cardinality(DOMAIN r.books[0])

\* A residue of type 2 is one of all channels together.
Together(r) == r.rtype = 2 /\ r.ch # 1
Sources(r) == IF Together(r) THEN 1 ELSE r.ch

\* Variant: the first channel speaks for all of them.
FirstUndecoded(r, j) == j \in r.skip

\* A channel that is not decoded is left out; of all channels together, only when none is.
Undecoded(r, j) == IF Together(r) THEN r.skip = Upto(r.ch) ELSE j \in r.skip

\* The dimensions of the book that a partition is read with in a pass, 0 without one.
Dim(r, pass, p, j) == r.books[r.class[j][p]][pass]

Start(r, p) == r.begin + p * r.part_size

\* The component i of a vector, which is a pass, a partition, a source and a number.
Component(vector, i) == <<vector[1], vector[2], vector[3], vector[4], i>>

\* At the end of the packet everything goes to done.
Symbol(d) == IF d.left = 0 THEN [d EXCEPT !.done = TRUE] ELSE [d EXCEPT !.left = @ - 1]

\* Variant: vectors one behind the other for every type.
InSequence(r, dim, v, i) == v * dim + i

\* residue_decode: component i of vector v, from the start of the partition.
PlaceIn(r, dim, v, i) == IF r.rtype = 0 THEN i * (r.part_size \div dim) + v ELSE v * dim + i

\* How many components codebook_decode_step and codebook_decode are let to write.
Room(r, offset, dim, v) ==
  IF r.rtype = 0 THEN Min({dim, r.part_size - offset - v}) ELSE Min({dim, r.part_size - v * dim})

\* A vector of one channel.
Separate(r, dim, vector, d) ==
  LET offset == Start(r, vector[2])
  IN  [d EXCEPT !.added = @ \o [k \in 1 .. Room(r, offset, dim, vector[4]) |->
         <<<<vector[3], offset + PlaceIn(r, dim, vector[4], k - 1)>>, Component(vector, k - 1)>>]]

\* codebook_decode_deinterleave_repeat, one component.
Put(d, ch, name) ==
  LET around == d.c + 1 = ch
  IN  [d EXCEPT !.added = Append(@, <<<<d.c, d.p>>, name>>),
                !.c = IF around THEN 0 ELSE d.c + 1, !.p = IF around THEN d.p + 1 ELSE d.p]

\* Variant: the pairs begin wherever the vector does.
NoneAlone(c) == 0

\* How many components come before the first pair.
Alone(c) == c

\* A pair of codebook_decode_deinterleave_repeat_2, from component i on.
PutPair(d, vector, i) ==
  [d EXCEPT !.added = @ \o <<<<<<0, d.p>>, Component(vector, i)>>, <<<<1, d.p>>, Component(vector, i + 1)>>>>,
            !.p = d.p + 1]

Pairs(vector, odd, n, d) ==
  LET Pair(e, k) == PutPair(e, vector, odd + 2 * k)
  IN  FoldLeft(Pair, d, Count(0, n - 1))

\* codebook_decode_deinterleave_repeat_2, one vector: up to an even place, pairs, and
\* what is left.
Paired(dim, vector, d) ==
  LET odd == Alone(d.c)
      first == IF odd = 1 THEN Put(d, 2, Component(vector, 0)) ELSE d
      pairs == Pairs(vector, odd, (dim - odd) \div 2, first)
  IN  IF (dim - odd) % 2 = 1 THEN Put(pairs, 2, Component(vector, dim - 1)) ELSE pairs

InTurn(ch, dim, vector, d) ==
  LET One(e, i) == Put(e, ch, Component(vector, i))
  IN  FoldLeft(One, d, Count(0, dim - 1))

\* What one vector adds, when there is one.
Vector(r, dim, vector, d) ==
  LET read == Symbol(d)
  IN  IF d.done \/ read.done THEN [d EXCEPT !.done = TRUE]
      ELSE IF ~Together(r) THEN Separate(r, dim, vector, read)
      ELSE IF r.ch = 2 THEN Paired(dim, vector, read)
      ELSE InTurn(r.ch, dim, vector, read)

From(d, ch, z) == [d EXCEPT !.c = z % ch, !.p = z \div ch]

Filled(r, dim, pass, p, j, d) ==
  LET Next(e, v) == Vector(r, dim, <<pass, p, j, v>>, e)
  IN  FoldLeft(Next, d, Count(0, r.part_size \div dim - 1))

\* A partition in one pass; what has no book or is not decoded is stepped over.
Partition(r, pass, p, j, d) ==
  LET dim == Dim(r, pass, p, j)
  IN  IF ~Undecoded(r, j) /\ dim # 0 THEN Filled(r, dim, pass, p, j, d)
      ELSE IF Together(r) THEN From(d, r.ch, Start(r, p) + r.part_size) ELSE d

Sourced(r, pass, p, d) ==
  LET Next(e, j) == Partition(r, pass, p, j, e)
  IN  FoldLeft(Next, d, Count(0, Sources(r) - 1))

\* A class word for each channel that is decoded.
ClassWords(r, d) ==
  LET Read(e, j) == IF e.done \/ Undecoded(r, j) THEN e ELSE Symbol(e)
  IN  FoldLeft(Read, d, Count(0, Sources(r) - 1))

\* In the first pass they come before every classwords partitions.
Classed(r, pass, p, d) ==
  LET placed == IF Together(r) THEN From(d, r.ch, Start(r, p)) ELSE d
  IN  IF p % r.classwords # 0 THEN d ELSE IF pass # 0 THEN placed ELSE ClassWords(r, placed)

Partitions(r, pass, p, d) ==
  LET classed == Classed(r, pass, p, d)
  IN  IF d.done \/ classed.done THEN [d EXCEPT !.done = TRUE] ELSE Sourced(r, pass, p, classed)

Pass(r, pass, d) ==
  LET Next(e, p) == Partitions(r, pass, p, e)
  IN  FoldLeft(Next, d, Count(0, Parts(r) - 1))

\* decode_residue, if every channel had a buffer.
Filling(r) ==
  LET Next(d, pass) == Pass(r, pass, d)
  IN  FoldLeft(Next, [added |-> <<>>, left |-> r.left, done |-> FALSE, c |-> 0, p |-> 0],
               Count(0, Passes(r) - 1))

\* decode_residue.  A channel that is not decoded has no buffer: the first component
\* that falls to it is an access through a null pointer, and the last.
Decoded(r) ==
  LET d == Filling(r)
      strays == {k \in DOMAIN d.added : d.added[k][1][1] \in r.skip}
  IN  IF strays = {} THEN [added |-> d.added, done |-> d.done, fault |-> "none"]
      ELSE [added |-> SubSeq(d.added, 1, Min(strays) - 1), done |-> d.done, fault |-> "access"]

-----------------------------------------------------------------------------
(***************************************************************************)
(* The coupling.                                                           *)
(***************************************************************************)

\* Variant: a channel is decoded if it is not silent itself.
OwnSilence(c) == c.zero

\* zero_channel, after the channels that are coupled to one that is not silent.
Silent(c) ==
  FoldLeft(LAMBDA zero, s : IF s[1] \in zero /\ s[2] \in zero THEN zero ELSE zero \ {s[1], s[2]},
           c.zero, c.steps)

\* The two samples, from a magnitude and an angle; NULL is what the last block left.
Uncoupled(m, a) ==
  CASE m = NULL \/ a = NULL -> <<NULL, NULL>>
    [] m # NULL /\ a # NULL /\ m > 0 /\ a > 0 -> <<m, m - a>>
    [] m # NULL /\ a # NULL /\ m > 0 /\ a <= 0 -> <<m + a, m>>
    [] m # NULL /\ a # NULL /\ m <= 0 /\ a > 0 -> <<m, m + a>>
    [] m # NULL /\ a # NULL /\ m <= 0 /\ a <= 0 -> <<m - a, m>>

\* One place of every channel_buffer: the residue of the channels that are decoded,
\* uncoupled from the last step to the first, then zero where there was no floor.
Heard(c) ==
  LET residue == [ch \in Upto(c.channels) |-> IF ch \in Silent(c) THEN NULL ELSE c.sample[ch]]
      Undo(buffer, s) == LET both == Uncoupled(buffer[s[1]], buffer[s[2]])
                         IN  [buffer EXCEPT ![s[1]] = both[1], ![s[2]] = both[2]]
      buffers == FoldLeft(Undo, residue, Reverse(c.steps))
  IN  [ch \in Upto(c.channels) |-> IF ch \in c.zero THEN 0 ELSE buffers[ch]]

-----------------------------------------------------------------------------
do_floor == \E g \in Floors : Returns("do_floor", g, [curve |-> Curve(g, Heights(g)), heights |-> Heights(g)])

decode_residue == \E r \in Residues : Returns("decode_residue", r, Decoded(r))

uncouple == \E c \in Couplings : Returns("uncouple", c, Heard(c))

SpectrumNext == result = NULL /\ signal = NULL /\ (do_floor \/ decode_residue \/ uncouple)

SpectrumInit == signal = NULL /\ result = NULL

SpectrumSpec == SpectrumInit /\ [][SpectrumNext]_<<signal, result>>

-----------------------------------------------------------------------------
\* The used points around a place.
Before(g, h, x) == CHOOSE i \in h.used : /\ g.X[i] <= x
                                         /\ \A k \in h.used : g.X[k] <= x => g.X[k] <= g.X[i]
Behind(g, h, x) == CHOOSE i \in h.used : /\ g.X[i] > x
                                         /\ \A k \in h.used : g.X[k] > x => g.X[k] >= g.X[i]

\* The straight line between them, rounded towards the first, or flat behind the last.
OnLine(g, h, x) ==
  LET a == Before(g, h, x)
      b == Behind(g, h, x)
  IN  IF \E i \in h.used : g.X[i] > x
      THEN predict_point(x, g.X[a], g.X[b], Scaled(g, h, a), Scaled(g, h, b))
      ELSE Scaled(g, h, a)

Drawn(g, h, curve) ==
  LET range == 0 .. (g.range - 1)
      height(x) == CHOOSE y \in {curve[k][2] : k \in DOMAIN curve} : <<x, y>> \in ToSet(curve)
  IN  /\ \A pred \in range : {Moved(g.range, pred, val) : val \in range} = range
      /\ \A j \in Points(g) : h.finalY[j] \in range
      /\ Len(curve) = g.n2 /\ {curve[k][1] : k \in DOMAIN curve} = Upto(g.n2)
      /\ \A j \in Points(g) : g.y[j] # 0 /\ g.X[j] < g.n2 => height(g.X[j]) = Scaled(g, h, j)
      /\ \A x \in Upto(g.n2) : height(x) = OnLine(g, h, x)

\* Every height of the range, and no other, can be reached from a prediction, each by
\* one value; the curve has exactly one height at every place of the block; it goes
\* through the points that were moved; and it is the straight line between the two
\* used points around a place, or flat behind the last.
FloorIsDrawn ==
  Of("do_floor") => Drawn(result.args, result.value.heights, result.value.curve)

\* What is coded: a channel that has a floor or is coupled with one that has; of all
\* channels together everything, if any of them has.
IsCoded(r, j) == IF Together(r) THEN r.skip # Upto(r.ch) ELSE j \notin r.skip

\* The vectors that are coded, and their components.
Vectors(r) ==
  {t \in Upto(Passes(r)) \X Upto(Parts(r)) \X {j \in Upto(Sources(r)) : IsCoded(r, j)} \X Upto(r.part_size) :
     Dim(r, t[1], t[2], t[3]) > 0 /\ t[4] < r.part_size \div Dim(r, t[1], t[2], t[3])}

\* Of type 0 the code takes a vector to end before the end of the partition by the
\* partition's distance from the start of the block, which is there already.
Kept(r, s) == r.rtype = 0 => Start(r, s[2]) + s[4] + s[5] < r.part_size

Components(r) ==
  {s \in UNION {{Component(t, i) : i \in Upto(Dim(r, t[1], t[2], t[3]))} : t \in Vectors(r)} : Kept(r, s)}

\* Of an earlier vector.
Earlier(s, t) == \E k \in 1 .. 4 : s[k] < t[k] /\ \A l \in 1 .. (k - 1) : s[l] = t[l]

\* Where the format puts a component: at its place of the partition, the partitions
\* one behind the other, channel for channel, or sample for sample of all of them.
ComponentAt(r, t) ==
  LET dim == Dim(r, t[1], t[2], t[3])
      within == IF r.rtype = 0 THEN t[5] * (r.part_size \div dim) + t[4] ELSE t[4] * dim + t[5]
      place == Start(r, t[2]) + within
  IN  IF Together(r) THEN <<place % r.ch, place \div r.ch>> ELSE <<t[3], place>>

Placed(r, d) ==
  LET there == {d.added[k][2] : k \in DOMAIN d.added}
  IN  /\ \A k \in DOMAIN d.added : /\ d.added[k][2] \in Components(r)
                                   /\ d.added[k][1] = ComponentAt(r, d.added[k][2])
                                   /\ d.added[k][1][1] \notin r.skip
      /\ Cardinality(there) = Len(d.added)
      /\ \A s, t \in there : s # t /\ s[1] = t[1] => ComponentAt(r, s) # ComponentAt(r, t)
      /\ \A s \in Components(r), t \in there : Earlier(s, t) => s \in there
      /\ d.fault = "none" => d.done \/ there = Components(r)
      /\ d.fault # "none" => \E s \in Components(r) : s \notin there /\ ComponentAt(r, s)[1] \in r.skip

\* Every component goes where the format puts it, to a channel that is decoded, and no
\* two of a pass to one place; when the packet is long enough all of them are there,
\* and when it ends early a prefix.  What is missing besides: of type 0 the components
\* that the second counting of the partition's start leaves out, and with all channels
\* together and one of them not decoded, everything from the first component on that
\* falls to it, which is where the code writes through a null pointer.
ResidueIsPlaced == Of("decode_residue") => Placed(result.args, result.value)

\* What an encoder makes of two samples: the greater one, and how far the other is off.
Coupled(left, right) ==
  IF Abs(left) > Abs(right)
  THEN <<left, IF left > 0 THEN left - right ELSE right - left>>
  ELSE <<right, IF right > 0 THEN left - right ELSE right - left>>

StandsAlone(c, k) ==
  \A l \in DOMAIN c.steps : l # k => {c.steps[l][1], c.steps[l][2]} \cap {c.steps[k][1], c.steps[k][2]} = {}

HeardAsCoded(c, heard) ==
  /\ \A ch \in Upto(c.channels) : heard[ch] # NULL
  /\ \A k \in DOMAIN c.steps :
       LET m == c.steps[k][1]
           a == c.steps[k][2]
       IN  StandsAlone(c, k) /\ {m, a} \cap c.zero = {} /\ Abs(c.sample[a]) < 2 * Abs(c.sample[m]) =>
             Coupled(heard[m], heard[a]) = <<c.sample[m], c.sample[a]>>

\* Two channels that are coupled with each other only, and both heard, come out as the
\* samples that an encoder makes that magnitude and angle of; and however the channels
\* are coupled, nothing that an earlier block left in a channel that is not decoded is
\* heard in any.
CouplingIsUndone == Of("uncouple") => HeardAsCoded(result.args, result.value)

\* The residue that is transformed is, in every channel, what was coded for it.
ResidueIsDecoded == ResidueIsPlaced /\ CouplingIsUndone
=============================================================================
