-------------------------- MODULE MCVorbisCodebook --------------------------
EXTENDS VorbisCodebook, TLC

\* Bounds: entries of a book of any lengths, and bytes of a packet.
CONSTANTS MostEntries, MostBytes

Powers == [y \in 0 .. Depth |-> 2 ^ (Depth - y)]

Book(sparse, lengths) == [sparse |-> sparse, len |-> lengths]
Dense == {Book(FALSE, l) : l \in UNION {[1 .. n -> Levels \cup {NoCode}] : n \in 1 .. MostEntries}}

\* Books of more entries: the leaves of full trees, most of them long.
Wide == {Book(FALSE, l) : l \in {<<2, 3, 3, 3, 3, 2>>, <<3, 4, 4, 2, 1>>, <<5, 1, 5, 4, 3, 3>>,
                                 <<3, 5, 2, 5, 4, 1>>, <<3, 3, 3, 3, 3, 3, 3, 3>>, <<2, 4, 4, 4, 4, 4, 3, 4>>}}

\* Books of few codes, which stay sparse, and of some more, which do not.
Few(n, codes) ==
  {Book(TRUE, [s \in 1 .. n |-> IF s \in DOMAIN c THEN c[s] ELSE NoCode]) :
     c \in UNION {[S -> {1, 2, 4}] : S \in {T \in SUBSET (1 .. n) : Cardinality(T) \in codes}}}
Scattered == Few(3, {1, 2}) \cup Few(8, {1})
             \cup {Book(TRUE, [s \in 1 .. 16 |-> IF s \in DOMAIN c THEN c[s] ELSE NoCode]) :
                     c \in {1 :> 2 @@ 4 :> 1 @@ 11 :> 2, 3 :> 4 @@ 5 :> 1 @@ 16 :> 3, 2 :> 1 @@ 9 :> 1}}

Middling == {Book(FALSE, l) : l \in [1 .. 4 -> {1, 2, 3}] \cup [1 .. 5 -> {2, 3}]}

AnyBooks == Dense \cup Middling \cup Wide \cup Scattered
AnyPackets == UNION {[1 .. n * Byte -> {0, 1}] : n \in 0 .. MostBytes}
=============================================================================
