------------------------------- MODULE MCOneCall -------------------------------
(***************************************************************************)
(* The functions that keep no state, each called once.                     *)
(***************************************************************************)
EXTENDS Utilities, VorbisSpectrum

\* All mono signals of up to three samples, stereo signals of two, and a row long
\* enough for an inner change of sign.
SignalsOf(channels, size, samples) ==
  {[channels |-> channels, size |-> size, block |-> block] :
     block \in [Upto(channels * size) -> samples]}

Small == SignalsOf(1, 1, -2 .. 3) \cup SignalsOf(1, 3, {-2, -1, 0, 3}) \cup SignalsOf(2, 2, {-3, 0, 2})
         \cup SignalsOf(1, 5, {-1, 2}) \cup SignalsOf(2, 3, {1, 2})

Poles == {-1, 2}

\* Texts over the characters that matter, and names with digits before, between and
\* behind others: '-', '0', '1', '9' and 'a'.
Strings(chars, most) == UNION {[1 .. n -> chars] : n \in 0 .. most}
Writings == Strings({Dot, Slash, 97}, 5) \cup Strings({LF, CR, 97}, 4) \cup Strings({LF, CR, Dot}, 3)
FileNames == Strings({45, Zero, Zero + 1, Zero + 9, 97}, 2) \cup Strings({Zero, Zero + 1, 97}, 3)

\* Floors of up to five points, in any order, that end with the block, behind it or
\* before it.  The first two heights have ilog(range) - 1 bits.
FloorsOf(rangebits, n2, inner, range) ==
  LET Xs == {X \in [0 .. (inner + 1) -> 0 .. 2 ^ rangebits] :
               /\ X[0] = 0 /\ X[1] = 2 ^ rangebits
               /\ \A i, j \in DOMAIN X : i # j => X[i] # X[j]
               /\ \A i \in 2 .. (inner + 1) : X[i] < Min({2 ^ rangebits, n2})}
      ys == {y \in [0 .. (inner + 1) -> Upto(range)] : \A i \in 0 .. 1 : y[i] < 2 ^ (ilog(range) - 1)}
  IN  [n2 : {n2}, X : Xs, range : {range}, multiplier : {1, 3}, y : ys]
Curves == FloorsOf(3, 8, 1, 6) \cup FloorsOf(3, 4, 2, 5) \cup FloorsOf(2, 8, 2, 4) \cup FloorsOf(2, 4, 3, 3)

\* Partitions of six components in vectors of one, two, three or six; the second
\* class is read in the second pass only.
ResiduesOf(rtype, chs, skips, parts, lefts) ==
  LET classes(ch) == [Upto(IF rtype = 2 THEN 1 ELSE ch) -> [Upto(parts) -> {0, 1}]]
      books(d, e) == [class \in {0, 1} |-> [pass \in {0, 1} |->
                        IF class = 0 THEN (IF pass = 0 THEN d ELSE 0) ELSE (IF pass = 0 THEN e ELSE d)]]
  IN  UNION {[rtype : {rtype}, ch : {ch}, skip : skips, n : {16}, begin : {0, 1, 2}, part_size : {6},
              classwords : {1, 2}, books : {books(d, e) : d \in {1, 2, 3, 6}, e \in {0, 3}},
              class : classes(ch), left : lefts] : ch \in chs}
Interleavings == ResiduesOf(2, {2, 3}, {{}}, 2, {100, 7}) \cup ResiduesOf(2, {2}, {{}}, 3, {100})
                 \cup ResiduesOf(2, {2}, {{0}, {1}, {0, 1}}, 2, {100, 3})
                 \cup ResiduesOf(2, {3}, {{2}}, 2, {100})
Separations == ResiduesOf(1, {1, 2}, {{}}, 2, {100, 5}) \cup ResiduesOf(1, {2}, {{0}}, 2, {100})
               \cup ResiduesOf(0, {1, 2}, {{}}, 1, {100, 4}) \cup ResiduesOf(0, {1}, {{}}, 2, {100, 5}) \cup ResiduesOf(2, {1}, {{}}, 2, {100})
Layouts == Interleavings \cup Separations

\* Three channels, coupled in any way in up to two steps.
CouplingsOf(samples) ==
  LET pairs == {<<m, a>> : m \in 0 .. 2, a \in 0 .. 2} \ {<<k, k>> : k \in 0 .. 2}
  IN  [channels : {3}, steps : {<<>>} \cup {<<s>> : s \in pairs} \cup (pairs \X pairs),
       zero : SUBSET (0 .. 2), sample : [0 .. 2 -> samples]]
Pairings == CouplingsOf(-1 .. 2)

Spec == Init /\ [][SignalNext \/ UtilitiesNext \/ SpectrumNext]_<<signal, result>>
=============================================================================
