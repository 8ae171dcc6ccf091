---------------------------- MODULE StringUtilities ----------------------------
(***************************************************************************)
(* The functions of src/include/StringUtilities.h that compute with texts: *)
(* paths are taken apart, the lines of a stream are read and file names    *)
(* are compared.  A text is a sequence of character codes.  What only asks *)
(* the system (directories, the clock, the terminal) is left out.          *)
(***************************************************************************)
EXTENDS Integers, SequencesExt

CONSTANT Widest   \* the greatest int

LF == 10
CR == 13
Dot == 46
Slash == 47
Zero == 48
IsDigit(c) == c \in Zero .. (Zero + 9)

\* find_first_of and find_first_not_of; 0 is npos.
First(S) == IF S = {} THEN 0 ELSE Min(S)
FirstOf(str, delim, p) == First({q \in DOMAIN str : p <= q /\ str[q] \in delim})
FirstNotOf(str, delim, p) == IF p = 0 THEN 0 ELSE First({q \in DOMAIN str : q >= p /\ str[q] \notin delim})
Up(str, p, q) == SubSeq(str, p, IF q = 0 THEN Len(str) ELSE q - 1)

\* Variant: what is empty counts.
AnyToken(str, p0, p1) == <<Up(str, p0, p1)>>

\* What lies between two delimiters, unless it is empty.
Token(str, p0, p1) == IF p1 # p0 THEN <<Up(str, p0, p1)>> ELSE <<>>

RECURSIVE TokensFrom(_, _, _)
TokensFrom(str, delim, p0) ==
  LET p1 == FirstOf(str, delim, p0)
  IN  IF p0 = 0 THEN <<>> ELSE Token(str, p0, p1) \o TokensFrom(str, delim, FirstNotOf(str, delim, p1))
tokenize(str, delim) == TokensFrom(str, delim, 1)

\* Of a path of dots alone there is no last token, and none to be read.
getFileExtension(path) == LET tokens == tokenize(path, {Dot}) IN IF tokens = <<>> THEN <<>> ELSE <<Last(tokens)>>
getFilenameFromPath(path) == LET tokens == tokenize(path, {Slash}) IN IF tokens = <<>> THEN <<>> ELSE <<Last(tokens)>>

\* A relative path comes back as an absolute one.
getFilePathWithoutFilename(path) ==
  LET tokens == tokenize(path, {Slash})
  IN  IF Len(tokens) = 1 THEN <<>>
      ELSE <<Slash>> \o FlattenSeq([t \in 1 .. (Len(tokens) - 1) |-> Append(tokens[t], Slash)])

\* splitToFloats, before the pieces are read as numbers: a text without the
\* separator has none.
RECURSIVE PiecesFrom(_, _, _)
PiecesFrom(s, c, i) ==
  LET j == FirstOf(s, {c}, i)
  IN  IF j = 0 THEN <<Up(s, i, 0)>> ELSE <<Up(s, i, j)>> \o PiecesFrom(s, c, j + 1)
splitToFloats(s, c) == IF FirstOf(s, {c}, 1) = 0 THEN <<>> ELSE PiecesFrom(s, c, 1)

-----------------------------------------------------------------------------
\* safeGetline from position p: the line, the position behind it, and whether it
\* has set eofbit.
Line(text, p) ==
  LET e == FirstOf(text, {LF, CR}, p)
      line == Up(text, p, e)
  IN  [line |-> line,
       behind |-> IF e = 0 THEN Len(text) + 1
                  ELSE IF text[e] = CR /\ e < Len(text) /\ text[e + 1] = LF THEN e + 2 ELSE e + 1,
       eof |-> e = 0 /\ line = <<>>]

\* The lines that a client reads until eof().
RECURSIVE LinesFrom(_, _)
LinesFrom(text, p) ==
  LET l == Line(text, p)
  IN  IF l.eof THEN <<>> ELSE <<l.line>> \o LinesFrom(text, l.behind)

-----------------------------------------------------------------------------
\* The digits in front, as a stream reads them: no more than the greatest int.
Digits(s) == Up(s, 1, First({q \in DOMAIN s : ~IsDigit(s[q])}))
Number(s) ==
  FoldLeft(LAMBDA n, c : IF 10 * n + (c - Zero) > Widest THEN Widest ELSE 10 * n + (c - Zero), 0, Digits(s))
BehindDigits(s) == SubSeq(s, Len(Digits(s)) + 1, Len(s))

\* std::lexicographical_compare.
Precedes(a, b) ==
  \E k \in 0 .. Len(a) :
    /\ k <= Len(b) /\ SubSeq(a, 1, k) = SubSeq(b, 1, k)
    /\ \/ k = Len(a) /\ k < Len(b)
       \/ k < Len(a) /\ k < Len(b) /\ a[k + 1] < b[k + 1]

BeginsWithDigit(s) == s # <<>> /\ IsDigit(s[1])

\* Variant: only the first is looked at.
FirstIsNumbered(s1, s2) == BeginsWithDigit(s1)
AreNumbered(s1, s2) == BeginsWithDigit(s1) /\ BeginsWithDigit(s2)

numeric_string_compare(s1, s2) ==
  IF ~AreNumbered(s1, s2) THEN Precedes(s1, s2)
  ELSE IF Number(s1) # Number(s2) THEN Number(s1) < Number(s2)
  ELSE Precedes(BehindDigits(s1), BehindDigits(s2))
=============================================================================
