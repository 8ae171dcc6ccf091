------------------------------- MODULE Utilities -------------------------------
(***************************************************************************)
(* The functions that are given no object: next_pow_2 and nearest_pow_2 of *)
(* src/include/MathUtilities.h on a number, and those of StringUtilities.h *)
(* on texts.                                                               *)
(***************************************************************************)
EXTENDS SignalAnalysis, StringUtilities, Bitwise

CONSTANTS
  Bits,   \* width of uint32_t
  Texts,  \* paths and the contents of text files
  Names   \* of files that are sorted

ASSUME BitsAssumption == Bits \in Nat \ {0}

-----------------------------------------------------------------------------
(***************************************************************************)
(* next_pow_2 and nearest_pow_2 on Bits bits.                              *)
(***************************************************************************)
Shifts == SelectSeq(<<1, 2, 4, 8, 16>>, LAMBDA k : k < Bits)

\* Variant: num itself is filled up.
NextPow2AtLeast(num) ==
  (FoldLeft(LAMBDA n, k : n | shiftR(n, k), num, Shifts) + 1) % 2 ^ Bits

NextPow2(num) ==
  LET start == IF num > 0 THEN num - 1 ELSE 0
  IN  (FoldLeft(LAMBDA n, k : n | shiftR(n, k), start, Shifts) + 1) % 2 ^ Bits

\* n_1 is half of n: a fraction when n is 1, zero when n is; the difference n - num
\* wraps.
NearestPow2(num) ==
  LET n == NextPow2(num)
      above == (n - num) % 2 ^ Bits
  IN  IF 2 * above < 2 * num - n THEN n ELSE n \div 2

-----------------------------------------------------------------------------
powersOf2 ==
  signal = NULL /\ \E num \in 0 .. (2 ^ Bits - 1) :
    Returns("powersOf2", <<num>>, <<NextPow2(num), NearestPow2(num)>>)

TakeTextApart ==
  signal = NULL /\ \E text \in Texts :
    Returns("takeApart", <<text>>, [tokens |-> tokenize(text, {Dot, Slash}),
                                    pieces |-> splitToFloats(text, Dot), lines |-> LinesFrom(text, 1)])

TakePathApart ==
  signal = NULL /\ \E path \in Texts :
    Returns("path", <<path>>, [extension |-> getFileExtension(path), file |-> getFilenameFromPath(path),
                               folder |-> getFilePathWithoutFilename(path)])

CompareNames ==
  signal = NULL /\ \E s1, s2 \in Names : Returns("compare", <<s1, s2>>, numeric_string_compare(s1, s2))

UtilitiesNext ==
  result = NULL /\ (powersOf2 \/ TakeTextApart \/ TakePathApart \/ CompareNames)

-----------------------------------------------------------------------------
\* next_pow_2 is the least power of two that is not less than num, and 0 when there
\* is none of that width; nearest_pow_2 is never further from num than another power
\* and takes the smaller one of two.
PowersAreNext ==
  Of("powersOf2") =>
    LET num == result.args[1]
        powers == {2 ^ k : k \in 0 .. (Bits - 1)}
        next == result.value[1]
        nearest == result.value[2]
    IN  /\ next = IF \E p \in powers : p >= num THEN Min({p \in powers : p >= num}) ELSE 0
        /\ num > 0 /\ next # 0 =>
             nearest = Min({p \in powers : \A q \in powers : Abs(p - num) <= Abs(q - num)})

\* Cut at a set of characters a text gives the runs between them, whole, in order
\* and none empty; cut at a separator it gives every piece; and read by lines it
\* gives the same lines however they end, the last one with or without an end.
Ends(text) ==
  {e \in DOMAIN text : text[e] = LF \/ (text[e] = CR /\ ~(e < Len(text) /\ text[e + 1] = LF))}
RunsAreTokens ==
  Of("takeApart") =>
    LET text == result.args[1]
        kept(p) == text[p] \notin {Dot, Slash}
        runs == {p \in DOMAIN text : kept(p) /\ (p = 1 \/ ~kept(p - 1))}
        over == SelectSeq(text, LAMBDA c : c \notin {LF, CR})
        tokens == result.value.tokens
        pieces == result.value.pieces
        lines == result.value.lines
    IN  /\ text # <<>> =>
             /\ FlattenSeq(tokens) = SelectSeq(text, LAMBDA c : c \notin {Dot, Slash})
             /\ Len(tokens) = Cardinality(runs) /\ \A k \in DOMAIN tokens : tokens[k] # <<>>
        /\ pieces # <<>> =>
             Tail(FlattenSeq([k \in DOMAIN pieces |-> <<Dot>> \o pieces[k]])) = text
        /\ FlattenSeq(lines) = over
        /\ Len(lines) = Cardinality(Ends(text)) +
                        IF text # <<>> /\ text[Len(text)] \notin {LF, CR} THEN 1 ELSE 0

\* An absolute path of a file below some folder, without doubled slashes, is its
\* folder followed by its name, and the name of a file ends with its extension.
PathIsRejoined ==
  Of("path") =>
    LET path == result.args[1]
        plain == /\ \A p \in 1 .. (Len(path) - 1) : path[p] = Slash => path[p + 1] # Slash
                 /\ Cardinality({p \in DOMAIN path : path[p] = Slash}) >= 2
                 /\ path[1] = Slash /\ path[Len(path)] # Slash
    IN  plain => /\ result.value.folder \o result.value.file[1] = path
                 /\ path[Len(path)] # Dot => IsSuffix(result.value.extension[1], path)

\* Nothing of a text or a path is lost or made up when it is taken apart.
TextIsTakenApart == RunsAreTokens /\ PathIsRejoined

\* numeric_string_compare can be handed to std::sort: it is asymmetric, and what
\* it does not tell apart is exchangeable, leading zeros and numbers beyond int
\* included.
NamesAreOrdered ==
  Of("compare") =>
    LET s1 == result.args[1]
        s2 == result.args[2]
        less(a, b) == numeric_string_compare(a, b)
    IN  /\ result.value => ~less(s2, s1)
        /\ \A s3 \in Names : result.value => less(s1, s3) \/ less(s3, s2)

\* What is sorted, vectors or file names, comes out in one order, and it is known
\* where everything was.
SortsInOrder == SortedIntoItself /\ NamesAreOrdered
=============================================================================
