---------------------------- MODULE MCStbVorbis ----------------------------
(***************************************************************************)
(* The streams of the runs: packets as an encoder writes them, laced into  *)
(* segments, and cut into pages at every place; then some of them damaged. *)
(***************************************************************************)
EXTENDS StbVorbis, FiniteSets, SequencesExt

CONSTANTS Blocks,    \* bound on the audio packets
          Breaks,    \* bound on the page breaks among them
          Cuts       \* how much of the last block the last page takes away

\* Blocks of these kinds, with their neighbours' sizes and their positions.
Quarter(kind) == (IF kind = "long" THEN blocksize_1 ELSE blocksize_0) \div 4
RECURSIVE Chain(_, _, _)
Chain(kinds, before, behind) ==
  LET n == Len(kinds)
      kind == kinds[n]
      front == Chain(Front(kinds), before, kind = "long")
  IN  IF n = 1 THEN <<Packet(kind, kind = "long" /\ before, kind = "long" /\ behind, 0)>>
      ELSE Append(front, Packet(kind, kind = "long" /\ kinds[n - 1] = "long", kind = "long" /\ behind,
                                front[n - 1].tells + Quarter(kinds[n - 1]) + Quarter(kind)))
Chains(n) == {Chain(kinds, p, q) : kinds \in [1 .. n -> {"short", "long"}], p \in BOOLEAN, q \in BOOLEAN}

\* The segments of packets of these sizes.
Nothing == Packet("none", FALSE, FALSE, Unknown)
RECURSIVE Lacing(_, _, _), Laced(_, _)
Lacing(packet, size, tells) ==
  IF size < Full THEN <<[len |-> size, head |-> packet, tells |-> tells]>>
  ELSE <<[len |-> Full, head |-> packet, tells |-> tells]>> \o Lacing(Nothing, size - Full, tells)
Laced(packets, sizes) ==
  IF packets = <<>> THEN <<>>
  ELSE Lacing(Head(packets), Head(sizes), Head(packets).tells) \o Laced(Tail(packets), Tail(sizes))

\* The page of these segments, and the pages that begin with it.
RECURSIVE Ends(_), Paged(_, _, _, _)
Ends(segs) ==
  IF segs = <<>> THEN <<0>>
  ELSE LET e == Ends(Front(segs)) IN Append(e, Last(e) + Last(segs).len)
RECURSIVE HeadsOf(_)
HeadsOf(segs) == IF segs = <<>> THEN <<>> ELSE <<segs[1].head>> \o HeadsOf(Tail(segs))

MakePage(segs, continued, last, cut) ==
  LET over == {i \in DOMAIN segs : segs[i].len < Full}
      ends == Tail(Ends(segs))
  IN  [ends |-> ends, size |-> Last(ends), heads |-> HeadsOf(segs),
       continued |-> continued, last |-> last, good |-> TRUE, whole |-> TRUE,
       loc |-> IF over = {} THEN None
               ELSE LET t == segs[CHOOSE i \in over : \A j \in over : j <= i].tells
                    IN  IF last /\ t >= cut THEN t - cut ELSE t]

\* breaks: before which segments a page begins.
Paged(segs, breaks, isLast, cut) ==
  IF breaks = {} THEN <<MakePage(segs, FALSE, isLast, cut)>>
  ELSE LET b == CHOOSE x \in breaks : \A y \in breaks : y <= x
           front == Paged(SubSeq(segs, 1, b), breaks \ {b}, FALSE, 0)
       IN  Append(front, MakePage(SubSeq(segs, b + 1, Len(segs)), segs[b].len = Full, isLast, cut))

UpTo(n, S) == {B \in SUBSET S : Cardinality(B) <= n}
Pages(packets, sizes, n, isLast, cuts) ==
  LET segs == Laced(packets, sizes)
  IN  {Paged(segs, B, isLast, c) : B \in UpTo(n, 1 .. (Len(segs) - 1)), c \in cuts}

Header == <<Packet("other", FALSE, FALSE, 0), Packet("setup", FALSE, FALSE, 0)>>
First == MakePage(Laced(<<Header[1]>>, <<1>>), FALSE, FALSE, 0)
Streams(headers, audios) == {<<First>> \o h \o a : h \in headers, a \in audios}
ShortHeader == Pages(Header, <<1, 1>>, 0, FALSE, {0})

\* Streams of blocks of one and of more segments.
Music ==
  UNION {Streams(ShortHeader, Pages(c, sizes, Breaks, TRUE, Cuts)) :
           c \in UNION {Chains(n) : n \in 2 .. Blocks}, sizes \in {[i \in 1 .. Blocks |-> IF i \in big THEN Full + 1 ELSE 1] : big \in UpTo(1, 1 .. Blocks)}}

\* Headers over several pages, packets that are no audio, packets of Full bytes.
Odd ==
  LET b == <<Packet("short", FALSE, FALSE, 0), Packet("short", FALSE, FALSE, 2 * Quarter("short"))>>
      c == <<b[1], Packet("other", FALSE, FALSE, 0), b[2]>>
  IN  UNION {Streams(Pages(Header, <<x, y>>, 2, FALSE, {0}), Pages(b, <<1, Full>>, 1, TRUE, {0})) :
               x \in {1, Full, Full + 1}, y \in {1, Full, Full + 1}}
      \cup UNION {Streams(ShortHeader, Pages(c, <<x, y, 1>>, 2, TRUE, {0})) :
               x \in {Full, Full + 1}, y \in {1, Full, Full + 1}}

\* A page is lost, or not whole, or one of no segments comes in; or a block
\* cannot be decoded.
Damaged(f) ==
  LET mark(g) == [p \in DOMAIN g |-> [g[p] EXCEPT !.whole = FALSE]]
      empty == [First EXCEPT !.ends = <<>>, !.heads = <<>>, !.size = 0, !.loc = None]
  IN  {mark(RemoveAt(f, p)) : p \in 2 .. Len(f)}
      \cup {mark([SubSeq(f, 1, p) EXCEPT ![p].size = @ - 1]) : p \in {q \in 2 .. Len(f) : f[q].size > 0}}
      \cup {mark([f EXCEPT ![p].good = FALSE]) : p \in DOMAIN f}
      \cup {mark(InsertAt(f, p, empty)) : p \in 2 .. Len(f)}
      \cup {mark([f EXCEPT ![p].heads[s] = Packet("bad", FALSE, FALSE, Unknown)]) :
              p \in {q \in 3 .. Len(f) : f[q].heads[1].kind # "none"}, s \in {1}}

Some == UNION {Streams(Pages(Header, <<1, Full + 1>>, 1, FALSE, {0}), Pages(c, <<1, Full + 1, 1>>, 2, TRUE, {0})) :
                 c \in {Chain(<<"short", "long", "long">>, TRUE, TRUE), Chain(<<"short", "long", "short">>, TRUE, TRUE)}}

\* One stream behind another in a file: the second one's blocks follow the last
\* one of the first, which its page has cut short.
Chained ==
  LET played == UNION {Streams(ShortHeader, Pages(c, <<1, 1>>, 0, TRUE, Cuts)) :
                         c \in {Chain(<<kind, kind>>, FALSE, FALSE) : kind \in {"short", "long"}}}
      joined == {f \o g : f \in played, g \in played}
  IN  {[p \in DOMAIN f |-> [f[p] EXCEPT !.whole = FALSE]] : f \in joined}

MCFiles == Music \cup Odd \cup Some \cup UNION {Damaged(f) : f \in Some} \cup Chained

ASSUME StreamsFit == FitsTheCounter /\ RoomForAFrame
=============================================================================
