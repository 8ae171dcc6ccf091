---------------------------- MODULE VorbisCodebook ----------------------------
(***************************************************************************)
(* The codebooks of src/src/stb_vorbis.c.  The setup packet gives every    *)
(* entry of a book the length of its code, and compute_codewords hands out *)
(* the leaves of a binary tree in the order of the entries.  A packet is   *)
(* then read bit by bit, by get_bits and by DECODE, from an accumulator    *)
(* that is filled with whole bytes.                                        *)
(*                                                                         *)
(* A code is kept as the address of its leaf, the word that bit_reverse    *)
(* makes of the codeword: a leaf at level y has the Span[y] words from its *)
(* address on below it.  The accumulator is the bits it was filled with,   *)
(* and zeros behind them.                                                  *)
(***************************************************************************)
EXTENDS Integers, Sequences, FiniteSetsExt

CONSTANTS
  Depth,   \* bits of a word, 32
  Byte,    \* bits of a byte, 8
  Fast,    \* STB_VORBIS_FAST_HUFFMAN_LENGTH
  Small,   \* the number of entries up to which there is no binary search, 8
  Span,    \* Span[y] is 2^(Depth - y)
  NoCode,  \* NO_CODE
  Books,   \* the books of setup packets: whether sparse, and the lengths
  Packets  \* the bits of packets

\* What the proofs need of the powers of two.
ASSUME SpanAssumption ==
  /\ Depth \in Nat \ {0}
  /\ Span \in [0 .. Depth -> Nat \ {0}]
  /\ \A y \in 1 .. Depth : Span[y - 1] = 2 * Span[y]

\* A code has 1 to Depth - 1 bits.
ASSUME BooksAssumption ==
  /\ NoCode \notin Nat
  /\ \A b \in Books : b.len \in Seq(1 .. (Depth - 1) \cup {NoCode}) /\ b.sparse \in BOOLEAN

\* Packets are whole bytes.
ASSUME PacketsAssumption ==
  /\ Byte \in 1 .. Depth /\ Fast \in Nat
  /\ \A p \in Packets : p \in Seq({0, 1}) /\ Len(p) % Byte = 0

VARIABLES
  book,
  i,           \* the entry that is next
  available,   \* the free leaf of every level, 0 if there is none
  code,        \* the leaves of the entries so far
  outcome,     \* "building", "refused" or "built"
  packet,
  fetched,     \* bits of it that have been put into the accumulator
  valid_bits,  \* those of them not taken out yet; -1: INVALID_BITS
  read         \* the last call: where it began, and the entry it came to

tree == <<book, i, available, code, outcome>>
reader == <<packet, fetched, valid_bits, read>>
vars == <<tree, reader>>

Levels == 1 .. (Depth - 1)
len == book.len
Coded == {s \in DOMAIN len : len[s] # NoCode}

-----------------------------------------------------------------------------
\* Variant: any free leaf is as good.
HighestLevel(n) == {z \in 1 .. n : available[z] # 0 /\ \A y \in 1 .. n : available[y] # 0 => z <= y}
\* Variant: a code takes its whole leaf, and nothing of it is free any more.
LeavesKept(z, n) == [available EXCEPT ![z] = 0]
\* Variant: the other halves are counted from the wrong side.
HalvesBelow(z, n) ==
  [y \in Levels |-> IF y = z THEN 0 ELSE IF z < y /\ y <= n THEN available[z] ELSE available[y]]

\* The level of the lowest free leaf a code of n bits fits into: the one closest
\* above n, none or one.
LowestLevel(n) == {z \in 1 .. n : available[z] # 0 /\ \A y \in (z + 1) .. n : available[y] = 0}

\* The code takes the lowest part of the leaf at z: the other halves on the way
\* down to it are free.
LeavesBehind(z, n) ==
  [y \in Levels |-> IF y = z THEN 0
                    ELSE IF z < y /\ y <= n THEN available[z] + Span[y] ELSE available[y]]

AssignTo(leaf) == code' = [s \in DOMAIN code \cup {i} |-> IF s = i THEN leaf ELSE code[s]]

SkipEntry ==
  /\ outcome = "building" /\ i <= Len(len) /\ len[i] = NoCode
  /\ i' = i + 1
  /\ UNCHANGED <<book, available, code, outcome, reader>>

FirstEntry ==
  /\ outcome = "building" /\ i \in Coded /\ DOMAIN code = {}
  /\ AssignTo(0)
  /\ available' = [y \in Levels |-> IF y <= len[i] THEN Span[y] ELSE 0]
  /\ i' = i + 1
  /\ UNCHANGED <<book, outcome, reader>>

AddEntry ==
  /\ outcome = "building" /\ i \in Coded /\ DOMAIN code # {}
  /\ \E z \in LowestLevel(len[i]) :
       /\ AssignTo(available[z])
       /\ available' = LeavesBehind(z, len[i])
  /\ i' = i + 1
  /\ UNCHANGED <<book, outcome, reader>>

\* No leaf is left: the setup is invalid.
Refuse ==
  /\ outcome = "building" /\ i \in Coded /\ DOMAIN code # {}
  /\ LowestLevel(len[i]) = {}
  /\ outcome' = "refused"
  /\ UNCHANGED <<book, i, available, code, reader>>

\* The book is complete, and a packet comes.
Finish ==
  /\ outcome = "building" /\ i > Len(len)
  /\ outcome' = "built"
  /\ packet' \in Packets
  /\ UNCHANGED <<book, i, available, code, fetched, valid_bits, read>>

-----------------------------------------------------------------------------
\* A sparse book of many codes becomes one that is not.
Sparse == book.sparse /\ Cardinality(Coded) < Len(len) \div 4

\* The codes that the binary search finds.
Sorted == {s \in Coded : Sparse \/ len[s] > Fast}
SortedCodes ==
  LET words == {code[s] : s \in Sorted}
  IN  [x \in 1 .. Cardinality(words) |-> CHOOSE w \in words : Cardinality({v \in words : v < w}) = x - 1]

\* n words from x on.
Ranges(most) == {r \in (0 .. most) \X (0 .. most) : r[1] + r[2] <= most}

\* Variant: the upper half keeps the size of the lower one.
SearchedShort(words, word) ==
  LET Search[at \in Ranges(Len(words))] ==
        LET x == at[1]
            n == at[2]
        IN  IF n <= 1 THEN x
            ELSE IF words[x + (n \div 2) + 1] <= word THEN Search[<<x + (n \div 2), n \div 2>>]
            ELSE Search[<<x, n \div 2>>]
  IN  1 + Search[<<0, Len(words)>>]

\* The binary search.
Searched(words, word) ==
  LET Search[at \in Ranges(Len(words))] ==
        LET x == at[1]
            n == at[2]
        IN  IF n <= 1 THEN x
            ELSE IF words[x + (n \div 2) + 1] <= word THEN Search[<<x + (n \div 2), n - (n \div 2)>>]
            ELSE Search[<<x, n \div 2>>]
  IN  1 + Search[<<0, Len(words)>>]

\* sorted_values.
SortedValue(x) == CHOOSE s \in Sorted : Searched(SortedCodes, code[s]) = x

\* The bits that are in front, v of them in the accumulator.
Reached == fetched - (IF valid_bits > 0 THEN valid_bits ELSE 0)
Bits(from, v) == SumFunctionOnSet([j \in 1 .. v |-> packet[from + j] * Span[j]], 1 .. v)
Word(v) == Bits(Reached, v)
Fits(s, word) == code[s] <= word /\ word < code[s] + Span[len[s]]

\* prep_huffman: bytes are put in as long as there is room for one, or until v
\* of them are there.
Lesser(a, b) == IF a < b THEN a ELSE b
Bytes(n) == Lesser((n + Byte - 1) \div Byte, (Len(packet) - fetched) \div Byte)
Room(v) == IF v <= Depth - Byte THEN Depth - Byte - v + 1 ELSE 0
Prepared(v) == v + Byte * Bytes(Room(v))

\* Which entry DECODE comes to, if any: from the fast table, by binary search, or
\* one by one.
InFastTable(v) == {s \in Coded : len[s] <= Fast /\ Fits(s, Word(v))}
Searches == IF Len(len) > Small THEN Sorted # {} ELSE Sparse
OneByOne(v) ==
  LET fit == {s \in Coded : Fits(s, Word(v))} IN {s \in fit : \A t \in fit : s <= t}
Slow(v) == IF Searches THEN {SortedValue(Searched(SortedCodes, Word(v)))} ELSE OneByOne(v)

\* A call fails, and what is in the accumulator is lost; or it takes n bits.
Fails(op, v, valid) ==
  /\ fetched' = Reached + v
  /\ valid_bits' = valid
  /\ read' = [op |-> op, from |-> Reached, got |-> 0]
  /\ UNCHANGED packet

Takes(op, v, n, what) ==
  /\ fetched' = Reached + v
  /\ valid_bits' = v - n
  /\ read' = [op |-> op, from |-> Reached, got |-> what]
  /\ UNCHANGED packet

\* Variant: an entry counts although the packet ends within its code.
EnoughOrNot(v, n) == v > 0 \/ v >= n
Enough(v, n) == v >= n

\* DECODE.  After the end of the packet was read past it fails once more.
Decode ==
  LET v1 == IF valid_bits < Fast THEN Prepared(valid_bits) ELSE valid_bits
      v2 == Prepared(valid_bits)
      v == IF InFastTable(v1) # {} THEN v1 ELSE v2
      hits == IF InFastTable(v1) # {} THEN InFastTable(v1) ELSE Slow(v2)
  IN  /\ outcome = "built" /\ Coded # {}
      /\ IF valid_bits < 0 THEN Fails("fails", 0, 0)
         ELSE \/ \E s \in hits : IF Enough(v, len[s]) THEN Takes("symbol", v, len[s], s) ELSE Fails("fails", v, 0)
              \/ hits = {} /\ Fails("fails", v, 0)
      /\ UNCHANGED tree

\* get_bits, of no more than 24.
GetBits ==
  /\ outcome = "built"
  /\ \E n \in 1 .. (Depth - Byte) :
       LET v == IF valid_bits >= n THEN valid_bits ELSE valid_bits + Byte * Bytes(n - valid_bits)
       IN  IF valid_bits < 0 THEN UNCHANGED reader
           ELSE IF v < n THEN Fails("bits", v, -1)
           ELSE Takes("bits", v, n, 0)
  /\ UNCHANGED tree

Init ==
  /\ book \in Books /\ packet = <<>>
  /\ i = 1 /\ available = [y \in Levels |-> 0] /\ code = <<>> /\ outcome = "building"
  /\ fetched = 0 /\ valid_bits = 0 /\ read = [op |-> "none", from |-> 0, got |-> 0]

Build == SkipEntry \/ FirstEntry \/ AddEntry \/ Refuse \/ Finish

Next == Build \/ Decode \/ GetBits

Spec == Init /\ [][Next]_vars

-----------------------------------------------------------------------------
\* The free leaf that the search from the longest codes up meets first is the
\* one with the lowest address of all that are large enough: the claim of the
\* comment in compute_codewords, "should always be earliest".
LowestIsEarliest ==
  \A n \in Levels : \A z \in LowestLevel(n), y \in 1 .. n :
    available[y] # 0 => available[z] <= available[y]

\* No codeword begins another one, in whatever order the lengths come.
PrefixFree ==
  \A s, t \in DOMAIN code : s # t =>
    code[s] + Span[len[s]] <= code[t] \/ code[t] + Span[len[t]] <= code[s]

\* How many words each code takes.
Words == [s \in Coded |-> Span[len[s]]]

\* A book is refused when its codes do not fit into one tree, and only then.
KraftDecides ==
  /\ outcome = "refused" => SumFunctionOnSet(Words, {s \in Coded : s <= i}) > Span[0]
  /\ outcome = "built" => SumFunctionOnSet(Words, Coded) <= Span[0]

\* DECODE reads the entry whose code the packet goes on with, at whatever bit of
\* a byte it begins, short or long, through whichever of the three searches and
\* whatever was read before; and in a full tree it reads nothing else.  (A code of
\* more bits than whole bytes surely fill of the accumulator may fail.)
GoesOnWith(s) ==
  /\ read.from + len[s] <= Len(packet)
  /\ Fits(s, Bits(read.from, len[s]))
DecodesTheSymbol ==
  LET full == SumFunctionOnSet(Words, Coded) = Span[0]
  IN  /\ read.op = "symbol" /\ full => GoesOnWith(read.got)
      /\ read.op \in {"symbol", "fails"} =>
           \A s \in Coded : GoesOnWith(s) /\ len[s] <= Depth - Byte + 1 => read.got = s
=============================================================================
