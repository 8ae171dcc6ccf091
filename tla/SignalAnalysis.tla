----------------------------- MODULE SignalAnalysis -----------------------------
(***************************************************************************)
(* The methods of AudioBufferC that compute with the samples,              *)
(* src/include/AudioBuffer.hpp, and sort of DataStructureUtilities.h, each *)
(* on a signal of the set Signals.                                         *)
(*                                                                         *)
(* The rows of a signal lie one behind the other in one block, so that     *)
(* what is read behind a row is the next one, and behind the last row      *)
(* Undef.  A sample is an integer number of Steps of 1; products and       *)
(* quotients are kept exact, the rounding of floats is left out.           *)
(***************************************************************************)
EXTENDS OneCall

CONSTANTS
  Signals,       \* [channels, size, block]: block has the samples of all rows
  Coefficients,  \* of applyOnePole
  Steps,         \* samples of magnitude 1 have this many steps
  Undef

ASSUME AnalysisAssumption ==
  /\ \A s \in Signals : /\ s.channels \in Nat \ {0} /\ s.size \in Nat \ {0}
                        /\ s.block \in [Upto(s.channels * s.size) -> Int]
  /\ Coefficients \subseteq Int
  /\ Steps \in Nat \ {0}
  /\ NULL \notin Signals
  /\ Undef \notin Int /\ Undef \notin BOOLEAN

\* data[c][i], wherever i is.
At(s, c, i) == IF c * s.size + i \in DOMAIN s.block THEN s.block[c * s.size + i] ELSE Undef

Row(s, c) == [i \in Upto(s.size) |-> At(s, c, i)]
SamplesOf(s) == {s.block[i] : i \in DOMAIN s.block}
Magnitudes(s, rows) == {Abs(rows[c][i]) : c \in Upto(s.channels), i \in Upto(s.size)}
SamplesBetween(s, from, to) == {At(s, c, i) : c \in Upto(s.channels), i \in from .. (to - 1)}

-----------------------------------------------------------------------------
(***************************************************************************)
(* findPeak and max_index.                                                 *)
(***************************************************************************)

\* Variant: the last sample is left out.
ShortMaxIndex(x, size, value) ==
  FoldLeft(LAMBDA found, i : IF x[i] > x[found.max] THEN [max |-> i, value |-> x[i]] ELSE found,
           [max |-> 0, value |-> value], Count(1, size - 2))

\* value is only set when the maximum moves on from the first sample.
MaxIndex(x, size, value) ==
  FoldLeft(LAMBDA found, i : IF x[i] > x[found.max] THEN [max |-> i, value |-> x[i]] ELSE found,
           [max |-> 0, value |-> value], Count(1, size - 1))

\* numeric_limits<float>::min(): less than every sample above zero.
Tiny == 0

\* tempVal is handed from one channel to the next.
PeakOf(s, from, to) ==
  LET Look(best, c) ==
        LET x == [i \in Upto(to - from) |-> At(s, c, from + i)]
            found == MaxIndex(x, to - from, best.tempVal)
        IN  IF found.value > best.val
            THEN [tempVal |-> found.value, val |-> found.value, index |-> found.max]
            ELSE [best EXCEPT !.tempVal = found.value]
      end == FoldLeft(Look, [tempVal |-> 0, val |-> Tiny, index |-> Undef], Count(0, s.channels - 1))
  IN  [val |-> end.val, index |-> IF end.index = Undef THEN Undef ELSE end.index + from]

-----------------------------------------------------------------------------
(***************************************************************************)
(* findZeroCrossing.  ci is an int that is compared with a size_t: a       *)
(* negative one is greater.                                                *)
(***************************************************************************)
NotBelow(ci, start) == ci < 0 \/ ci >= start

SameSign(s, c, ci) ==
  IF At(s, c, ci) = Undef \/ At(s, c, ci + 1) = Undef
  THEN Undef
  ELSE At(s, c, ci) * At(s, c, ci + 1) > 0

\* Variant: the search begins where it should end.
EagerCrossing(s, start, before, c) ==
  LET walk[ci \in (-(s.channels * s.size) - 1) .. s.size] ==
        IF ~NotBelow(ci, start) \/ SameSign(s, c, ci) = FALSE THEN ci
        ELSE IF SameSign(s, c, ci) = TRUE THEN walk[ci - 1] ELSE Undef
      end == walk[before]
  IN  IF before < start + 2 THEN 0
      ELSE IF end # Undef /\ ~NotBelow(end, start) THEN start ELSE end

\* Undef when it runs out of the block.
Crossing(s, start, before, c) ==
  LET walk[ci \in (-(s.channels * s.size) - 1) .. s.size] ==
        IF ~NotBelow(ci, start) \/ SameSign(s, c, ci) = FALSE THEN ci
        ELSE IF SameSign(s, c, ci) = TRUE THEN walk[ci - 1] ELSE Undef
      end == walk[before - 1]
  IN  IF before < start + 2 THEN 0
      ELSE IF end # Undef /\ ~NotBelow(end, start) THEN start ELSE end

-----------------------------------------------------------------------------
(***************************************************************************)
(* requantize, normalize, removeDC, applyOnePole: new rows.                *)
(***************************************************************************)

\* Variant: rounded down.
Floored(x, halfRange) == ((x * halfRange) \div Steps) * (Steps \div halfRange)

\* The cast to int goes towards zero.
Requantized(x, halfRange) ==
  LET down == ((Abs(x) * halfRange) \div Steps) * (Steps \div halfRange)
  IN  IF x < 0 THEN -down ELSE down

\* Variant: the minimum is not looked at.
LoudestAbove(s) ==
  Max({Abs(Max({At(s, c, i) : i \in Upto(s.size)})) : c \in Upto(s.channels)} \cup {0})

\* maximum: over the channels, the greater magnitude of maximum and minimum.
Loudest(s) ==
  LET OfRow(c) == LET x == {At(s, c, i) : i \in Upto(s.size)}
                  IN  IF Abs(Max(x)) > Abs(Min(x)) THEN Abs(Max(x)) ELSE Abs(Min(x))
  IN  Max({OfRow(c) : c \in Upto(s.channels)} \cup {0})

\* In steps of the loudest one, rounded down, or Undef for 0 * (1 / 0).
Normalized(s) ==
  [c \in Upto(s.channels) |-> [i \in Upto(s.size) |->
     IF Loudest(s) = 0 THEN Undef ELSE (At(s, c, i) * Steps) \div Loudest(s)]]

\* Variant: the last sample is not in the mean.
MeanWithoutLast(s, c) == SumFunctionOnSet(Row(s, c), Upto(s.size - 1))

\* The mean of a row, times size.
MeanOf(s, c) == SumFunctionOnSet(Row(s, c), Upto(s.size))

\* Every row times size; the means of all channels go from the first row.
WithoutDC(s) ==
  LET means == [d \in Upto(s.channels) |-> MeanOf(s, d)]
  IN  [c \in Upto(s.channels) |-> [i \in Upto(s.size) |->
         At(s, c, i) * s.size - (IF c = 0 THEN SumFunctionOnSet(means, Upto(s.channels)) ELSE 0)]]

\* Variant: from the last sample to the first.
OnePoleBackwards(x, size, coefficient) ==
  FoldLeft(LAMBDA y, j : [y EXCEPT ![size - 2 - j] = y[size - 1 - j] - coefficient * @],
           x, Count(0, size - 2))

\* In place, each sample from the next one and itself.
OnePole(x, size, coefficient) ==
  FoldLeft(LAMBDA y, i : [y EXCEPT ![i] = y[i + 1] - coefficient * @], x, Count(0, size - 2))

-----------------------------------------------------------------------------
(***************************************************************************)
(* convolveTd.                                                             *)
(***************************************************************************)
Times(x, y) == IF x = Undef \/ y = Undef THEN Undef ELSE x * y
Plus(x, y) == IF x = Undef \/ y = Undef THEN Undef ELSE x + y

\* Variant: the loop over k ends one too early.
ShortOutput(s, h, c, o) ==
  LET Term(y, k) == IF o - k > s.size THEN y ELSE Plus(y, Times(At(s, c, o - k), At(h, 0, k)))
  IN  FoldLeft(Term, 0, Count(0, Min({o, h.size - 1}) - 1))

\* Output o: the loop over k breaks when o - k is negative, and leaves out o - k
\* that are greater than the size, but not those that are equal to it.
OutputSample(s, h, c, o) ==
  LET Term(y, k) == IF o - k > s.size THEN y ELSE Plus(y, Times(At(s, c, o - k), At(h, 0, k)))
  IN  FoldLeft(Term, 0, Count(0, Min({o, h.size - 1})))

\* With an impulse of one channel.
Convolved(s, h) ==
  [c \in Upto(s.channels) |-> [o \in Upto(s.size + h.size - 1) |-> OutputSample(s, h, c, o)]]

-----------------------------------------------------------------------------
(***************************************************************************)
(* sort and reorder.                                                       *)
(***************************************************************************)
\* Variant: what was written is read again.
ReorderedInPlace(x, map) ==
  FoldLeft(LAMBDA y, i : [y EXCEPT ![i] = y[map[i]]], x, Count(0, Cardinality(DOMAIN map) - 1))

\* reorder() with unordered and ordered the same vector.
Reordered(x, map) ==
  LET copy == x
  IN  FoldLeft(LAMBDA y, i : [y EXCEPT ![i] = copy[map[i]]], x, Count(0, Cardinality(DOMAIN map) - 1))

\* std::sort leaves the order of equals open.
SortingMaps(x) ==
  {map \in [DOMAIN x -> DOMAIN x] :
     /\ \A i, j \in DOMAIN x : i # j => map[i] # map[j]
     /\ \A i, j \in DOMAIN x : i < j => x[map[i]] <= x[map[j]]}

-----------------------------------------------------------------------------
findPeak == \E from \in Upto(signal.size), to \in 1 .. signal.size :
              from < to /\ Returns("findPeak", <<from, to>>, PeakOf(signal, from, to))

findZeroCrossing ==
  \E c \in Upto(signal.channels), start \in 0 .. signal.size, before \in 0 .. signal.size :
    Returns("findZeroCrossing", <<start, before, c>>, Crossing(signal, start, before, c))

requantize ==
  \E halfRange \in {h \in 1 .. Steps : Steps % h = 0} :
    Returns("requantize", <<halfRange>>,
            [c \in Upto(signal.channels) |-> [i \in Upto(signal.size) |->
               Requantized(At(signal, c, i), halfRange)]])

normalize == Returns("normalize", <<>>, Normalized(signal))

removeDC == Returns("removeDC", <<>>, WithoutDC(signal))

applyOnePole ==
  \E coefficient \in Coefficients :
    Returns("applyOnePole", <<coefficient>>,
            [c \in Upto(signal.channels) |-> OnePole(Row(signal, c), signal.size, coefficient)])

convolveTd ==
  \E impulse \in Signals :
    impulse.channels = 1 /\ Returns("convolveTd", <<impulse>>, Convolved(signal, impulse))

sort ==
  LET x == Row(signal, 0)
  IN  \E map \in SortingMaps(x) : Returns("sort", <<>>, <<map, Reordered(x, map)>>)

Init == signal \in Signals \cup {NULL} /\ result = NULL

SignalNext ==
  /\ result = NULL /\ signal # NULL
  /\ \/ findPeak \/ findZeroCrossing
     \/ requantize \/ normalize \/ removeDC \/ applyOnePole \/ convolveTd \/ sort

SignalSpec == Init /\ [][SignalNext]_<<signal, result>>

-----------------------------------------------------------------------------
\* The greatest sample of all channels is found, with a place where it is, when it
\* is above zero and in some channel not already the first one of the range.
PeakIsFound ==
  Of("findPeak") =>
    LET from == result.args[1]
        to == result.args[2]
        peak == Max(SamplesBetween(signal, from, to))
    IN  peak > 0 /\ (\E c \in Upto(signal.channels) :
                       (\E i \in from .. (to - 1) : At(signal, c, i) = peak) /\ At(signal, c, from) # peak) =>
          /\ result.value.val = peak
          /\ result.value.index \in from .. (to - 1)
          /\ \E c \in Upto(signal.channels) : At(signal, c, result.value.index) = peak

\* The last place of a change of sign in the range, or the range's start when there
\* is none.  (A search that starts at 0 and meets no change goes on before the row,
\* and one up to the end of a row looks at the sample behind it.)
CrossingIsTheLast ==
  Of("findZeroCrossing") =>
    LET start == result.args[1]
        before == result.args[2]
        c == result.args[3]
        changes == {i \in start .. (before - 1) : At(signal, c, i) * At(signal, c, i + 1) <= 0}
    IN  before < signal.size /\ before >= start + 2 /\ (start > 0 \/ changes # {}) =>
          result.value = IF changes # {} THEN Max(changes) ELSE start

\* Both searches find what they are named for, wherever in the range and on whichever
\* channel it is, but for the ranges they are known to miss.
SearchesFind == PeakIsFound /\ CrossingIsTheLast

\* A sample moves by less than one step of the new resolution and never away from
\* zero, and a second pass changes nothing.
RequantizedToASmallerStep ==
  Of("requantize") =>
    \A c \in Upto(signal.channels), i \in Upto(signal.size) :
      LET x == At(signal, c, i)
          q == result.value[c][i]
      IN  /\ Abs(x - q) * result.args[1] < Steps
          /\ Abs(q) <= Abs(x)
          /\ Requantized(q, result.args[1]) = q

\* A signal that is not all zero has its loudest sample, of either sign and on
\* whichever channel, at exactly 1 and none above.
NormalizedToOne ==
  Of("normalize") /\ (\E x \in SamplesOf(signal) : x # 0) =>
    Max(Magnitudes(signal, result.value)) = Steps

\* Without its mean the one row of a mono signal adds up to zero.
MonoHasNoDC ==
  Of("removeDC") /\ signal.channels = 1 =>
    SumFunctionOnSet(result.value[0], Upto(signal.size)) = 0

\* What the three methods that rescale samples leave is right at once for every
\* signal: quantised, normalized, free of a mean.
SamplesAreRescaled == RequantizedToASmallerStep /\ NormalizedToOne /\ MonoHasNoDC

\* Although the row is overwritten as it is read, every output comes from two input
\* samples, and the last one stays.
OnePoleReadsInputs ==
  Of("applyOnePole") =>
    \A c \in Upto(signal.channels), i \in Upto(signal.size) :
      result.value[c][i] =
        IF i = signal.size - 1 THEN At(signal, c, i)
        ELSE At(signal, c, i + 1) - result.args[1] * At(signal, c, i)

ProductAt(s, h, c, o) ==
  LET pairs == {p \in Upto(s.size) \X Upto(h.size) : p[1] + p[2] = o}
  IN  SumFunctionOnSet([p \in pairs |-> At(s, c, p[1]) * At(h, 0, p[2])], pairs)

\* The product of the two polynomials, as far as the input reaches; each output
\* behind it is off by the one sample that is read behind the row.
ConvolvedUpToTheEnd ==
  Of("convolveTd") =>
    LET h == result.args[1]
    IN  \A c \in Upto(signal.channels), o \in Upto(signal.size + h.size - 1) :
          result.value[c][o] =
            IF o < signal.size THEN ProductAt(signal, h, c, o)
            ELSE Plus(ProductAt(signal, h, c, o), Times(At(signal, c, signal.size), At(h, 0, o - signal.size)))

\* What is written over the samples is what the methods' equations say, whatever the
\* order in which they overwrite and accumulate.
SamplesAreComputed == SamplesAreRescaled /\ OnePoleReadsInputs /\ ConvolvedUpToTheEnd

\* DataStructureUtilities.h:26: sorted into itself a vector has the same elements in
\* order, and the map says where each was.
SortedIntoItself ==
  Of("sort") =>
    LET x == Row(signal, 0)
        map == result.value[1]
        y == result.value[2]
    IN  /\ \A i \in DOMAIN x : y[i] = x[map[i]]
        /\ \A i, j \in DOMAIN x : i < j => y[i] <= y[j]

=============================================================================
