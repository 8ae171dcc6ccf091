--------------------------- MODULE OggPacketsProofs ---------------------------
(***************************************************************************)
(* Every byte lies in the packet that was started, for every stream, every *)
(* lacing value and every decoder that asks for it; and what is given out  *)
(* of a stream as encoders write it are its samples, each of them once.    *)
(***************************************************************************)
EXTENDS StbVorbis, SumProofs, TLAPS

\* How many segments of the page are taken, and where they end.
Taken == IF next_seg = None THEN Count(Here) ELSE next_seg

\* What the variables hold.
Books ==
  /\ file \in Files
  /\ page \in 1 .. Len(file)
  /\ at \in Nat
  /\ eof \in BOOLEAN
  /\ next_seg \in {None} \cup 0 .. (Count(Here) - 1)
  /\ last_seg \in BOOLEAN
  /\ bytes_in_seg \in Nat
  /\ eop \in BOOLEAN
  /\ skipped \in BOOLEAN
  /\ start[1] \in 1 .. page
  /\ start[2] \in 0 .. Count(file[start[1]])

\* An EOP leaves no bytes; bytes are left of the segment taken last only.
SegmentInv ==
  /\ eop => bytes_in_seg = 0
  /\ ~skipped /\ bytes_in_seg > 0 => Taken > 0 /\ bytes_in_seg <= Segment(Here, Taken - 1)

\* The read position is where the table of segments has it, or behind a file
\* that was cut.
PlaceInv ==
  ~skipped => \/ page = Len(file) /\ at >= Here.size
              \/ at + bytes_in_seg = Offset(Here, Taken)

\* All segments taken for the packet but the last one are full.
PacketInv ==
  WellPaged(file) /\ ~skipped =>
    /\ start[2] < Count(file[start[1]])
    /\ ~last_seg => OnePacket(file, start[1], start[2], page, Taken)
    /\ bytes_in_seg > 0 => OnePacket(file, start[1], start[2], page, Taken - 1)

ReaderInv == Books /\ SegmentInv /\ PlaceInv /\ PacketInv /\ ReadsItsPacket

\* Pages are numbered, and segments end where the next ones begin.
LEMMA PageFacts ==
  ASSUME NEW f \in Files, NEW p \in 1 .. Len(f)
  PROVE  /\ Full \in Nat \ {0}
         /\ Len(f) \in Nat \ {0}
         /\ Count(f[p]) \in Nat
         /\ \A s \in 0 .. Count(f[p]) : Offset(f[p], s) \in Nat
         /\ \A s \in 0 .. (Count(f[p]) - 1) : /\ Segment(f[p], s) \in 0 .. Full
                                              /\ Segment(f[p], s) = Offset(f[p], s + 1) - Offset(f[p], s)
         /\ f[p].size \in Nat /\ f[p].size <= Body(f[p])
         /\ p < Len(f) => f[p].size = Body(f[p])
         /\ Body(f[p]) = Offset(f[p], Count(f[p]))
         /\ \A s \in 0 .. Count(f[p]) : Offset(f[p], s) <= Body(f[p])
<1>1. f[p].ends \in Seq(Nat)
  BY FilesAssumption
<1>2. Count(f[p]) \in Nat
  BY <1>1 DEF Count
<1>3. \A s \in 0 .. Count(f[p]) : Offset(f[p], s) \in Nat
  BY <1>1, <1>2 DEF Offset, Count
<1>4. Body(f[p]) = Offset(f[p], Count(f[p])) /\ Body(f[p]) \in Nat
  BY <1>2, <1>3 DEF Body
<1>5. \A s \in 0 .. (Count(f[p]) - 1) : /\ Segment(f[p], s) \in 0 .. Full
                                        /\ Segment(f[p], s) = Offset(f[p], s + 1) - Offset(f[p], s)
  BY FilesAssumption DEF Segment
<1>6. f[p].size \in 0 .. Body(f[p]) /\ (p < Len(f) => f[p].size = Body(f[p]))
  BY FilesAssumption
<1>7. Full \in Nat \ {0} /\ Len(f) \in Nat \ {0}
  BY FilesAssumption
<1>8. \A s \in 0 .. Count(f[p]) : Offset(f[p], s) <= Body(f[p])
  BY FilesAssumption
<1>. QED BY <1>2, <1>3, <1>4, <1>5, <1>6, <1>7, <1>8

\* A packet of no segments yet.
LEMMA PacketOfNothing ==
  ASSUME NEW f, NEW p \in Nat, NEW s \in Nat
  PROVE  OnePacket(f, p, s, p, s)
<1>1. ~Before(p, s, p, s)
  BY DEF Before
<1>2. ASSUME NEW x \in p .. p, NEW y \in 0 .. (Count(f[x]) - 1)
      PROVE  /\ ~Before(x, y, p, s) /\ Before(x, y, p, s) => Segment(f[x], y) = Full
             /\ Before(p, s, x, 0) /\ y = 0 => f[x].continued
  BY <1>2 DEF Before
<1>. QED BY <1>1, <1>2 DEF OnePacket

\* What start_page does to the books.
LEMMA PageStarts ==
  ASSUME ReaderInv, StartPage, file' = file
  PROVE  /\ page' = page + 1 /\ page' \in 1 .. Len(file) /\ page + 1 \in 1 .. Len(file)
         /\ at' = 0 /\ eof' = eof /\ Here' = Ahead /\ Count(Ahead) \in Nat \ {0}
         /\ Offset(Ahead, 0) = 0
<1>1. page' = page + 1 /\ at' = 0 /\ eof' = eof /\ Here' = Ahead /\ page < Len(file) /\ Count(Ahead) > 0
  BY DEF StartPage, PageOpens, Captured, Here, Ahead
<1>2. file \in Files /\ page \in 1 .. Len(file) /\ Len(file) \in Nat
  BY PageFacts DEF ReaderInv, Books
<1>3. page + 1 \in 1 .. Len(file)
  BY <1>1, <1>2
<1>4. Count(Ahead) \in Nat
  BY <1>2, <1>3, PageFacts DEF Ahead
<1>. QED BY <1>1, <1>2, <1>3, <1>4 DEF Offset

\* A decoder that stays in its packets loses its place nowhere, however badly a
\* page header comes out.
LEMMA PageFails ==
  ASSUME ReaderInv, StartPageFails, file' = file, next_seg = None, next_seg' = None
  PROVE  /\ page' \in 1 .. Len(file) /\ page' >= page /\ at' \in Nat /\ eof' \in BOOLEAN
         /\ WellPaged(file) => page' = page
         /\ ~skipped /\ bytes_in_seg = 0 =>
              \/ page' = Len(file) /\ at' >= Here'.size
              \/ at' = Offset(Here', Taken')
<1>1. file \in Files /\ page \in 1 .. Len(file) /\ Len(file) \in Nat /\ at \in Nat /\ eof \in BOOLEAN
  BY PageFacts DEF ReaderInv, Books
<1>2. Count(Here) \in Nat /\ Here.size \in Nat /\ Here.size <= Body(Here)
      /\ Body(Here) = Offset(Here, Count(Here)) /\ Body(Here) \in Nat
  BY <1>1, PageFacts DEF Here
<1>3. CASE Captured
  <2>1. page < Len(file) /\ page + 1 \in 1 .. Len(file) /\ ~(Count(Ahead) > 0)
    BY <1>1, <1>3 DEF Captured, StartPageFails, PageOpens
  <2>2. page' = page + 1 /\ at' = 0 /\ eof' = TRUE /\ Here' = Ahead
    BY <1>3 DEF StartPageFails, Here, Ahead
  <2>3. Count(Ahead) = 0
    BY <1>1, <2>1, PageFacts DEF Ahead
  <2>4. Offset(Here', Taken') = 0
    BY <2>2, <2>3 DEF Taken, Offset
  <2>5. ~WellPaged(file)
    BY <2>1 DEF WellPaged, Ahead
  <2>. QED BY <1>1, <2>1, <2>2, <2>4, <2>5
<1>4. CASE ~Captured
  <2>1. page' = page /\ Here' = Here /\ at' = (IF at < Here.size THEN at + 1 ELSE at)
        /\ eof' = (eof \/ page = Len(file))
    BY <1>4 DEF StartPageFails, Here
  <2>2. Taken = Count(Here) /\ Taken' = Count(Here)
    BY <2>1 DEF Taken
  <2>3. ASSUME ~skipped, bytes_in_seg = 0
        PROVE  (page = Len(file) /\ at >= Here.size) \/ at = Offset(Here, Count(Here))
    BY <2>2, <2>3, <1>1, <1>2 DEF ReaderInv, PlaceInv
  <2>. QED BY <1>1, <1>2, <2>1, <2>2, <2>3
<1>. QED BY <1>3, <1>4

\* A step that starts no packet and delivers no byte leaves the last one where
\* it was.
LEMMA SameByte ==
  ASSUME ReadsItsPacket, file' = file, start' = start, byte' = byte, skipped => skipped'
  PROVE  ReadsItsPacket'
BY DEF ReadsItsPacket

\* A packet that has just been started.
LEMMA NewPacket ==
  ASSUME ReaderInv, file' = file, page' \in 1 .. Len(file), at' \in Nat, eof' \in BOOLEAN,
         next_seg' \in 0 .. (Count(Here') - 1), last_seg' = FALSE, bytes_in_seg' = 0,
         eop' = FALSE \/ eop' = eop, eop' \in BOOLEAN, skipped' \in BOOLEAN,
         start' = <<page', next_seg'>>, byte' = <<>>,
         ~skipped' => (page' = Len(file) /\ at' >= Here'.size) \/ at' = Offset(Here', next_seg')
  PROVE  ReaderInv'
<1>1. file \in Files /\ Len(file) \in Nat /\ \A x \in 1 .. Len(file) : Count(file[x]) \in Nat
  BY PageFacts DEF ReaderInv, Books
<1>2. Here' = file[page'] /\ Count(Here') \in Nat
  BY <1>1 DEF Here
<1>3. next_seg' \in Nat /\ next_seg' # None /\ Taken' = next_seg' /\ page' \in Nat
  BY <1>1, <1>2 DEF Taken, None
<1>4. start'[1] = page' /\ start'[2] = next_seg'
  OBVIOUS
<1>5. Books'
  <2>1. start'[1] \in 1 .. page' /\ start'[2] \in 0 .. Count(file'[start'[1]])
    BY <1>1, <1>2, <1>3, <1>4
  <2>. QED BY <1>1, <2>1 DEF Books
<1>6. SegmentInv'
  BY DEF SegmentInv
<1>7. PlaceInv'
  BY <1>1, <1>3 DEF PlaceInv
<1>8. PacketInv'
  <2>1. OnePacket(file', page', next_seg', page', next_seg')
    BY <1>1, <1>3, PacketOfNothing
  <2>. QED BY <2>1, <1>1, <1>2, <1>3, <1>4 DEF PacketInv
<1>9. ReadsItsPacket'
  BY DEF ReadsItsPacket
<1>. QED BY <1>5, <1>6, <1>7, <1>8, <1>9 DEF ReaderInv

LEMMA PacketStartsKeeps ==
  ASSUME ReaderInv, PacketStarts
  PROVE  ReaderInv'
<1>1. file' = file /\ last_seg' = FALSE /\ bytes_in_seg' = 0 /\ eop' = FALSE
      /\ start' = <<page', next_seg'>> /\ byte' = <<>> /\ skipped' = (skipped \/ ~eop)
  BY DEF PacketStarts
<1>2. skipped' \in BOOLEAN /\ (~skipped' => ~skipped /\ bytes_in_seg = 0)
  BY <1>1 DEF ReaderInv, Books, SegmentInv
<1>3. CASE next_seg # None
  <2>1. page' = page /\ at' = at /\ eof' = eof /\ next_seg' = next_seg /\ Here' = Here
    BY <1>1, <1>3 DEF PacketStarts, Here
  <2>2. page' \in 1 .. Len(file) /\ at' \in Nat /\ eof' \in BOOLEAN /\ next_seg' \in 0 .. (Count(Here') - 1)
    BY <1>3, <2>1 DEF ReaderInv, Books
  <2>3. ~skipped' => (page' = Len(file) /\ at' >= Here'.size) \/ at' = Offset(Here', next_seg')
    BY <1>2, <1>3, <2>1 DEF ReaderInv, Books, PlaceInv, Taken
  <2>. QED BY <1>1, <1>2, <2>2, <2>3, NewPacket
<1>4. CASE next_seg = None
  <2>1. StartPage /\ next_seg' = 0
    BY <1>4 DEF PacketStarts
  <2>2. page' \in 1 .. Len(file) /\ at' \in Nat /\ eof' \in BOOLEAN /\ next_seg' \in 0 .. (Count(Here') - 1)
    BY <1>1, <2>1, PageStarts DEF ReaderInv, Books
  <2>3. at' = Offset(Here', next_seg')
    BY <1>1, <2>1, PageStarts
  <2>. QED BY <1>1, <1>2, <2>2, <2>3, NewPacket
<1>. QED BY <1>3, <1>4

LEMMA NewPageKeeps ==
  ASSUME ReaderInv, PacketStartsOnNewPage
  PROVE  ReaderInv'
<1>1. StartPage /\ file' = file /\ next_seg' = 0 /\ last_seg' = FALSE /\ bytes_in_seg' = 0 /\ eop' = FALSE
      /\ start' = <<page + 1, 0>> /\ byte' = <<>> /\ skipped' = (skipped \/ ~eop)
  BY DEF PacketStartsOnNewPage
<1>2. skipped' \in BOOLEAN
  BY <1>1
<1>3. page' \in 1 .. Len(file) /\ at' \in Nat /\ eof' \in BOOLEAN /\ next_seg' \in 0 .. (Count(Here') - 1)
      /\ at' = Offset(Here', next_seg') /\ start' = <<page', next_seg'>>
  BY <1>1, PageStarts DEF ReaderInv, Books
<1>. QED BY <1>1, <1>2, <1>3, NewPacket

LEMMA PacketFailsKeeps ==
  ASSUME ReaderInv, PacketFails
  PROVE  ReaderInv'
<1>1. next_seg = None /\ file' = file /\ eop' = eop /\ skipped' = (skipped \/ ~eop)
  BY DEF PacketFails
<1>2. skipped' \in BOOLEAN /\ (~skipped' => ~skipped /\ bytes_in_seg = 0)
  BY <1>1 DEF ReaderInv, Books, SegmentInv
<1>3. CASE StartPage /\ Ahead.continued /\ next_seg' = 0 /\ last_seg' = FALSE /\ bytes_in_seg' = 0
           /\ start' = <<page + 1, 0>> /\ byte' = <<>>
  <2>1. page' \in 1 .. Len(file) /\ at' \in Nat /\ eof' \in BOOLEAN /\ next_seg' \in 0 .. (Count(Here') - 1)
        /\ at' = Offset(Here', next_seg') /\ start' = <<page', next_seg'>>
    BY <1>1, <1>3, PageStarts DEF ReaderInv, Books
  <2>2. eop' \in BOOLEAN
    BY <1>1 DEF ReaderInv, Books
  <2>. QED BY <1>1, <1>2, <1>3, <2>1, <2>2, NewPacket
<1>4. CASE StartPageFails /\ UNCHANGED <<next_seg, last_seg, bytes_in_seg, start, byte>>
  <2>. USE <1>4
  <2>1. next_seg' = None
    BY <1>1
  <2>2. /\ page' \in 1 .. Len(file) /\ page' >= page /\ at' \in Nat /\ eof' \in BOOLEAN
        /\ WellPaged(file) => page' = page
        /\ ~skipped /\ bytes_in_seg = 0 =>
              \/ page' = Len(file) /\ at' >= Here'.size
              \/ at' = Offset(Here', Taken')
    BY <1>1, <2>1, PageFails
  <2>3. Books'
    BY <1>1, <1>2, <2>1, <2>2 DEF ReaderInv, Books
  <2>4. SegmentInv'
    <3>1. eop' => bytes_in_seg' = 0
      BY <1>1 DEF ReaderInv, SegmentInv
    <3>. QED BY <3>1, <1>2 DEF SegmentInv
  <2>5. PlaceInv'
    BY <1>1, <1>2, <2>2 DEF PlaceInv
  <2>6. PacketInv'
    <3>1. SUFFICES ASSUME WellPaged(file), ~skipped' PROVE PacketInv'
      BY <1>1 DEF PacketInv
    <3>2. page' = page /\ Taken' = Taken
      BY <3>1, <1>1, <2>1, <2>2 DEF Taken, Here
    <3>. QED BY <3>1, <3>2, <1>1, <1>2 DEF ReaderInv, PacketInv
  <2>7. ReadsItsPacket'
    BY <1>1, SameByte DEF ReaderInv
  <2>. QED BY <2>3, <2>4, <2>5, <2>6, <2>7 DEF ReaderInv
<1>. QED BY <1>3, <1>4 DEF PacketFails

\* A packet that has taken only full segments may take one more.
LEMMA OneMoreSegment ==
  ASSUME NEW f, NEW p \in Nat, NEW s \in Nat, NEW q \in Nat, NEW t \in Nat,
         OnePacket(f, p, s, q, t), Segment(f[q], t) = Full
  PROVE  OnePacket(f, p, s, q, t + 1)
<1>1. ~Before(q, t + 1, p, s)
  BY DEF OnePacket, Before
<1>2. ASSUME NEW x \in p .. q, NEW y \in 0 .. (Count(f[x]) - 1),
             ~Before(x, y, p, s), Before(x, y, q, t + 1)
      PROVE  Segment(f[x], y) = Full
  <2>1. Before(x, y, q, t) \/ (x = q /\ y = t)
    BY <1>2 DEF Before
  <2>. QED BY <1>2, <2>1 DEF OnePacket
<1>3. ASSUME NEW x \in p .. q, NEW y \in 0 .. (Count(f[x]) - 1), Before(p, s, x, 0), y = 0
      PROVE  f[x].continued
  BY <1>3 DEF OnePacket
<1>. QED BY <1>1, <1>2, <1>3 DEF OnePacket

\* A packet that has taken a page to its end goes on with the next.
LEMMA OneMorePage ==
  ASSUME NEW f, NEW p \in Nat, NEW s \in Nat, NEW q \in Nat, Count(f[q]) \in Nat,
         OnePacket(f, p, s, q, Count(f[q])), f[q + 1].continued
  PROVE  OnePacket(f, p, s, q + 1, 0)
<1>1. ~Before(q + 1, 0, p, s)
  BY DEF OnePacket, Before
<1>2. ASSUME NEW x \in p .. (q + 1), NEW y \in 0 .. (Count(f[x]) - 1)
      PROVE  /\ ~Before(x, y, p, s) /\ Before(x, y, q + 1, 0) => Segment(f[x], y) = Full
             /\ Before(p, s, x, 0) /\ y = 0 => f[x].continued
  <2>1. CASE x = q + 1
    BY <2>1 DEF Before
  <2>2. CASE x # q + 1
    <3>1. x \in p .. q
      BY <2>2
    <3>2. Before(x, y, q, Count(f[q]))
      BY <3>1, <1>2 DEF Before
    <3>. QED BY <3>1, <3>2 DEF OnePacket
  <2>. QED BY <2>1, <2>2
<1>. QED BY <1>1, <1>2 DEF OnePacket

LEMMA TakeSegmentKeeps ==
  ASSUME ReaderInv, TakeSegment
  PROVE  ReaderInv'
<1>. DEFINE len == Segment(Here, next_seg)
<1>1. /\ bytes_in_seg = 0 /\ last_seg = FALSE /\ next_seg # None
      /\ bytes_in_seg' = len /\ last_seg' = (len < Full) /\ eop' = (len = 0)
      /\ next_seg' = IF next_seg + 1 = Count(Here) THEN None ELSE next_seg + 1
      /\ file' = file /\ page' = page /\ at' = at /\ eof' = eof /\ start' = start /\ byte' = byte
      /\ skipped' = skipped /\ Here' = Here
  BY DEF TakeSegment, EndsPacket, BehindSegment, Here, ReaderInv, Books
<1>2. file \in Files /\ page \in 1 .. Len(file) /\ Len(file) \in Nat
  BY PageFacts DEF ReaderInv, Books
<1>3. next_seg \in 0 .. (Count(Here) - 1) /\ Count(Here) \in Nat /\ Taken = next_seg
  BY <1>1, <1>2, PageFacts DEF ReaderInv, Books, Taken, Here
<1>4. len \in 0 .. Full /\ Full \in Nat /\ Offset(Here, next_seg) \in Nat
      /\ len = Offset(Here, next_seg + 1) - Offset(Here, next_seg) /\ Offset(Here, next_seg + 1) \in Nat
  <2>1. next_seg \in 0 .. Count(Here) /\ next_seg + 1 \in 0 .. Count(Here)
    BY <1>3
  <2>2. /\ \A s \in 0 .. Count(Here) : Offset(Here, s) \in Nat
        /\ \A s \in 0 .. (Count(Here) - 1) : /\ Segment(Here, s) \in 0 .. Full
                                            /\ Segment(Here, s) = Offset(Here, s + 1) - Offset(Here, s)
        /\ Full \in Nat
    BY <1>2, PageFacts DEF Here
  <2>. QED BY <1>3, <2>1, <2>2
<1>5. Taken' = next_seg + 1
  BY <1>1, <1>3 DEF Taken, None
<1>6. Books'
  BY <1>1, <1>2, <1>3, <1>4 DEF ReaderInv, Books, None
<1>7. SegmentInv'
  <2>1. Taken' > 0 /\ Taken' - 1 = next_seg
    BY <1>3, <1>5
  <2>2. bytes_in_seg' <= Segment(Here', Taken' - 1)
    BY <1>1, <1>4, <2>1
  <2>. QED BY <1>1, <2>1, <2>2 DEF SegmentInv
<1>8. PlaceInv'
  BY <1>1, <1>3, <1>4, <1>5, <1>2 DEF ReaderInv, Books, PlaceInv
<1>9. PacketInv'
  <2>1. SUFFICES ASSUME WellPaged(file), ~skipped PROVE PacketInv'
    BY <1>1 DEF PacketInv
  <2>2. start[2] < Count(file[start[1]]) /\ OnePacket(file, start[1], start[2], page, next_seg)
    BY <1>1, <1>3, <2>1 DEF ReaderInv, PacketInv
  <2>3. start[1] \in Nat /\ start[2] \in Nat /\ page \in Nat /\ next_seg \in Nat
    BY <1>2, <1>3 DEF ReaderInv, Books
  <2>4. len = Full => OnePacket(file, start[1], start[2], page, next_seg + 1)
    BY <2>2, <2>3, OneMoreSegment DEF Here
  <2>5. ~last_seg' => len = Full
    <3>1. ~last_seg' => ~(len < Full)
      BY <1>1
    <3>. QED BY <3>1, <1>4
  <2>. QED BY <1>1, <1>3, <1>5, <2>2, <2>4, <2>5 DEF PacketInv
<1>10. ReadsItsPacket'
  BY <1>1, SameByte DEF ReaderInv
<1>. QED BY <1>6, <1>7, <1>8, <1>9, <1>10 DEF ReaderInv

LEMMA ContinueKeeps ==
  ASSUME ReaderInv, ContinueOnNextPage
  PROVE  ReaderInv'
<1>1. /\ bytes_in_seg = 0 /\ last_seg = FALSE /\ next_seg = None
      /\ file' = file /\ bytes_in_seg' = 0 /\ start' = start /\ byte' = byte /\ skipped' = skipped
  BY DEF ContinueOnNextPage, ReaderInv, Books
<1>2. file \in Files /\ page \in 1 .. Len(file) /\ Len(file) \in Nat /\ Count(Here) \in Nat /\ Taken = Count(Here)
  BY <1>1, PageFacts DEF ReaderInv, Books, Here, Taken
<1>3. ReadsItsPacket' /\ SegmentInv'
  BY <1>1, SameByte DEF ReaderInv, SegmentInv
<1>4. CASE StartPageFails /\ last_seg' = TRUE /\ eop' = TRUE /\ UNCHANGED next_seg
  <2>1. next_seg' = None
    BY <1>1, <1>4
  <2>2. /\ page' \in 1 .. Len(file) /\ page' >= page /\ at' \in Nat /\ eof' \in BOOLEAN
        /\ ~skipped => (page' = Len(file) /\ at' >= Here'.size) \/ at' = Offset(Here', Taken')
    BY <1>1, <1>4, <2>1, PageFails
  <2>3. Books'
    BY <1>1, <1>4, <2>1, <2>2, <1>2 DEF ReaderInv, Books
  <2>4. PlaceInv'
    <3>1. CASE at' = Offset(Here', Taken')
      BY <3>1, <1>1, <2>2 DEF PlaceInv
    <3>2. CASE page' = Len(file) /\ at' >= Here'.size
      BY <3>2, <1>1 DEF PlaceInv
    <3>3. CASE skipped
      BY <3>3, <1>1 DEF PlaceInv
    <3>. QED BY <2>2, <3>1, <3>2, <3>3
  <2>5. PacketInv'
    BY <1>1, <1>4 DEF ReaderInv, PacketInv
  <2>. QED BY <1>3, <2>3, <2>4, <2>5 DEF ReaderInv
<1>5. CASE StartPage /\ next_seg' = 0 /\ eop' = ~Ahead.continued /\ UNCHANGED last_seg
  <2>1. /\ page' = page + 1 /\ page + 1 \in 1 .. Len(file)
        /\ at' = 0 /\ eof' = eof /\ Here' = Ahead /\ Count(Ahead) \in Nat \ {0} /\ Offset(Ahead, 0) = 0
    BY <1>1, <1>5, PageStarts
  <2>2. Taken' = 0
    BY <1>5 DEF Taken, None
  <2>3. Books'
    BY <1>1, <1>2, <1>5, <2>1 DEF ReaderInv, Books
  <2>4. PlaceInv'
    BY <1>1, <2>1, <2>2 DEF PlaceInv
  <2>5. PacketInv'
    <3>1. SUFFICES ASSUME WellPaged(file), ~skipped PROVE PacketInv'
      BY <1>1 DEF PacketInv
    <3>2. start[2] < Count(file[start[1]]) /\ OnePacket(file, start[1], start[2], page, Count(Here))
      BY <1>1, <1>2, <3>1 DEF ReaderInv, PacketInv
    <3>3. start[1] \in 1 .. page /\ start[2] \in Nat /\ page \in Nat /\ start[1] \in Nat
      BY <1>2 DEF ReaderInv, Books
    <3>4. Count(Here) > 0
      BY <1>2, <3>1 DEF WellPaged, Here
    <3>5. Segment(Here, Count(Here) - 1) = Full
      <4>1. ~Before(page, Count(Here) - 1, start[1], start[2])
        BY <1>2, <3>2, <3>3 DEF Before, Here
      <4>2. Before(page, Count(Here) - 1, page, Count(Here))
        BY <1>2 DEF Before
      <4>3. Count(Here) - 1 \in 0 .. (Count(file[page]) - 1) /\ page \in start[1] .. page
        BY <1>2, <3>3, <3>4 DEF Here
      <4>. QED BY <3>2, <4>1, <4>2, <4>3 DEF OnePacket, Here
    <3>6. file[page + 1].continued
      <4>1. page \in 1 .. (Len(file) - 1)
        BY <1>2, <2>1
      <4>. QED BY <3>1, <3>5, <4>1 DEF WellPaged, Here
    <3>7. OnePacket(file, start[1], start[2], page + 1, 0)
      BY <1>2, <3>2, <3>3, <3>6, OneMorePage DEF Here
    <3>. QED BY <1>1, <2>1, <2>2, <3>2, <3>7 DEF PacketInv
  <2>. QED BY <1>3, <2>3, <2>4, <2>5 DEF ReaderInv
<1>. QED BY <1>4, <1>5 DEF ContinueOnNextPage

\* The bytes of a segment that are left may only get fewer.
LEMMA FewerBytesKeep ==
  ASSUME ReaderInv, bytes_in_seg' \in Nat, bytes_in_seg' <= bytes_in_seg,
         file' = file, page' = page, next_seg' = next_seg, last_seg' = last_seg,
         start' = start, skipped' = skipped
  PROVE  /\ PacketInv'
         /\ ~skipped' /\ bytes_in_seg' > 0 => Taken' > 0 /\ bytes_in_seg' <= Segment(Here', Taken' - 1)
<1>1. Here' = Here /\ Taken' = Taken
  BY DEF Here, Taken
<1>2. bytes_in_seg \in Nat
  BY DEF ReaderInv, Books
<1>3. bytes_in_seg' > 0 => bytes_in_seg > 0
  BY <1>2
<1>4. PacketInv'
  BY <1>1, <1>3 DEF ReaderInv, PacketInv
<1>5. ASSUME ~skipped', bytes_in_seg' > 0
      PROVE  Taken' > 0 /\ bytes_in_seg' <= Segment(Here', Taken' - 1)
  <2>1. Taken > 0 /\ bytes_in_seg <= Segment(Here, Taken - 1)
    BY <1>3, <1>5 DEF ReaderInv, SegmentInv
  <2>2. file \in Files /\ page \in 1 .. Len(file) /\ Taken \in 0 .. Count(Here) /\ Count(Here) \in Nat
    BY PageFacts DEF ReaderInv, Books, Taken, Here
  <2>3. Segment(Here, Taken - 1) \in Nat
    BY <2>1, <2>2, PageFacts DEF Here
  <2>. QED BY <1>1, <1>2, <2>1, <2>3
<1>. QED BY <1>4, <1>5

LEMMA DeliverByteKeeps ==
  ASSUME ReaderInv, DeliverByte
  PROVE  ReaderInv'
<1>1. /\ bytes_in_seg > 0 /\ bytes_in_seg' = bytes_in_seg - 1 /\ eop' = FALSE
      /\ file' = file /\ page' = page /\ next_seg' = next_seg /\ last_seg' = last_seg
      /\ start' = start /\ skipped' = skipped /\ Here' = Here /\ Taken' = Taken
  BY DEF DeliverByte, Here, Taken
<1>2. file \in Files /\ page \in 1 .. Len(file) /\ Len(file) \in Nat /\ at \in Nat /\ bytes_in_seg \in Nat
      /\ bytes_in_seg' \in Nat /\ Here.size \in Nat
  BY <1>1, PageFacts DEF ReaderInv, Books, Here
<1>3. Taken \in 0 .. Count(Here) /\ Count(Here) \in Nat
  BY <1>2, PageFacts DEF ReaderInv, Books, Taken, Here
<1>4. PacketInv' /\ SegmentInv'
  BY <1>1, <1>2, FewerBytesKeep DEF SegmentInv
<1>5. CASE at < Here.size
  <2>1. at' = at + 1 /\ byte' = <<page, at>> /\ eof' = eof
    BY <1>5 DEF DeliverByte
  <2>2. Books'
    <3>1. at' \in Nat /\ eof' = eof
      BY <1>2, <2>1
    <3>. QED BY <1>1, <1>2, <3>1 DEF ReaderInv, Books
  <2>3. ~skipped => at + bytes_in_seg = Offset(Here, Taken)
    BY <1>2, <1>5 DEF ReaderInv, PlaceInv
  <2>4. PlaceInv'
    BY <1>1, <1>2, <2>1, <2>3 DEF PlaceInv
  <2>5. ReadsItsPacket'
    <3>1. SUFFICES ASSUME WellPaged(file), ~skipped
                   PROVE  \E t \in 0 .. (Count(file[page]) - 1) :
                            /\ Offset(file[page], t) <= at /\ at < Offset(file[page], t + 1)
                            /\ OnePacket(file, start[1], start[2], page, t)
      BY <1>1, <2>1 DEF ReadsItsPacket
    <3>2. Taken > 0 /\ bytes_in_seg <= Segment(Here, Taken - 1)
          /\ OnePacket(file, start[1], start[2], page, Taken - 1)
      BY <1>1, <3>1 DEF ReaderInv, SegmentInv, PacketInv
    <3>3. Taken - 1 \in 0 .. (Count(Here) - 1) /\ (Taken - 1) + 1 = Taken
          /\ Taken - 1 \in 0 .. Count(Here) /\ Taken \in 0 .. Count(Here)
      BY <1>3, <3>2
    <3>4. Segment(Here, Taken - 1) = Offset(Here, Taken) - Offset(Here, Taken - 1)
          /\ Offset(Here, Taken) \in Nat /\ Offset(Here, Taken - 1) \in Nat
      <4>1. /\ \A s \in 0 .. Count(Here) : Offset(Here, s) \in Nat
            /\ \A s \in 0 .. (Count(Here) - 1) : Segment(Here, s) = Offset(Here, s + 1) - Offset(Here, s)
        BY <1>2, PageFacts DEF Here
      <4>. QED BY <3>3, <4>1
    <3>5. Offset(Here, Taken - 1) <= at /\ at < Offset(Here, Taken)
      BY <1>1, <1>2, <2>3, <3>1, <3>2, <3>4
    <3>. QED BY <3>2, <3>3, <3>5 DEF Here
  <2>. QED BY <1>4, <2>2, <2>4, <2>5 DEF ReaderInv
<1>6. CASE ~(at < Here.size)
  <2>1. at' = at /\ byte' = byte /\ eof' = TRUE
    BY <1>6 DEF DeliverByte
  <2>2. Books'
    BY <1>1, <1>2, <2>1 DEF ReaderInv, Books
  <2>3. ReadsItsPacket'
    BY <1>1, <2>1, SameByte DEF ReaderInv
  <2>4. PlaceInv'
    <3>1. SUFFICES ASSUME ~skipped PROVE page = Len(file)
      BY <1>1, <1>2, <1>6, <2>1 DEF PlaceInv
    <3>2. CASE at + bytes_in_seg = Offset(Here, Taken) /\ page # Len(file)
      <4>1. Here.size = Body(Here) /\ Offset(Here, Taken) <= Body(Here) /\ Offset(Here, Taken) \in Nat
        BY <1>2, <1>3, <3>2, PageFacts DEF Here
      <4>. QED BY <1>1, <1>2, <1>6, <3>2, <4>1
    <3>. QED BY <3>1, <3>2 DEF ReaderInv, PlaceInv
  <2>. QED BY <1>4, <2>2, <2>3, <2>4 DEF ReaderInv
<1>. QED BY <1>5, <1>6

LEMMA SkipSegmentKeeps ==
  ASSUME ReaderInv, SkipSegment
  PROVE  ReaderInv'
<1>1. /\ bytes_in_seg > 0 /\ bytes_in_seg' = 0 /\ at' = at + bytes_in_seg /\ eop' = eop /\ eof' = eof
      /\ file' = file /\ page' = page /\ next_seg' = next_seg /\ last_seg' = last_seg
      /\ start' = start /\ byte' = byte /\ skipped' = skipped /\ Here' = Here /\ Taken' = Taken
  BY DEF SkipSegment, Here, Taken
<1>2. file \in Files /\ page \in 1 .. Len(file) /\ at \in Nat /\ bytes_in_seg \in Nat /\ Here.size \in Nat
  BY PageFacts DEF ReaderInv, Books, Here
<1>3. at' \in Nat /\ bytes_in_seg' \in Nat /\ bytes_in_seg' <= bytes_in_seg /\ at' >= at
  BY <1>1, <1>2
<1>4. PacketInv' /\ SegmentInv'
  BY <1>1, <1>3, FewerBytesKeep DEF SegmentInv
<1>5. Books'
  BY <1>1, <1>3 DEF ReaderInv, Books
<1>6. PlaceInv'
  BY <1>1, <1>2, <1>3 DEF ReaderInv, PlaceInv
<1>7. ReadsItsPacket'
  BY <1>1, SameByte DEF ReaderInv
<1>. QED BY <1>4, <1>5, <1>6, <1>7 DEF ReaderInv

LEMMA EndOfPacketKeeps ==
  ASSUME ReaderInv, EndOfPacket
  PROVE  ReaderInv'
<1>1. /\ bytes_in_seg = 0 /\ bytes_in_seg' = bytes_in_seg /\ at' = at /\ eop' = TRUE /\ eof' = eof
      /\ file' = file /\ page' = page /\ next_seg' = next_seg /\ last_seg' = last_seg
      /\ start' = start /\ byte' = byte /\ skipped' = skipped /\ Here' = Here /\ Taken' = Taken
  BY DEF EndOfPacket, Here, Taken
<1>2. Books' /\ SegmentInv'
  BY <1>1 DEF ReaderInv, Books, SegmentInv
<1>3. PlaceInv' /\ PacketInv'
  BY <1>1 DEF ReaderInv, PlaceInv, PacketInv
<1>4. ReadsItsPacket'
  BY <1>1, SameByte DEF ReaderInv
<1>. QED BY <1>2, <1>3, <1>4 DEF ReaderInv

LEMMA StutterKeeps ==
  ASSUME ReaderInv, UNCHANGED reader
  PROVE  ReaderInv'
BY DEF reader, ReaderInv, Books, SegmentInv, PlaceInv, PacketInv, ReadsItsPacket, Here, Taken

LEMMA ReaderStarts ==
  ASSUME ReaderInit
  PROVE  ReaderInv
<1>1. /\ file \in Files /\ page = 1 /\ at = Here.size /\ eof = FALSE /\ next_seg = None /\ last_seg = TRUE
      /\ bytes_in_seg = 0 /\ eop = TRUE /\ start = <<1, 0>> /\ byte = <<>> /\ skipped = FALSE
  BY DEF ReaderInit, Here
<1>2. Len(file) \in Nat \ {0}
  BY <1>1, FilesAssumption
<1>3. page = 1 /\ page \in 1 .. Len(file) /\ (page = Len(file) \/ page < Len(file))
  <2>. DEFINE n == Len(file)
  <2>1. page = 1 /\ n \in Nat \ {0}
    BY <1>1, <1>2
  <2>. HIDE DEF n
  <2>2. page \in 1 .. n /\ (page = n \/ page < n)
    BY <2>1
  <2>. QED BY <2>1, <2>2 DEF n
<1>4. Count(Here) \in Nat /\ Here.size \in Nat /\ (page < Len(file) => Here.size = Offset(Here, Count(Here)))
  BY <1>1, <1>3, PageFacts DEF Here
<1>5. start[1] = 1 /\ start[2] = 0 /\ Here = file[1] /\ Taken = Count(Here)
  BY <1>1 DEF Here, Taken
<1>6. Books
  <2>1. start[1] \in 1 .. page /\ start[2] \in 0 .. Count(file[start[1]])
    BY <1>3, <1>4, <1>5
  <2>2. at \in Nat
    BY <1>1, <1>4
  <2>3. file \in Files /\ eof \in BOOLEAN /\ next_seg \in {None} \cup 0 .. (Count(Here) - 1)
        /\ last_seg \in BOOLEAN /\ bytes_in_seg \in Nat /\ eop \in BOOLEAN /\ skipped \in BOOLEAN
    BY <1>1
  <2>. QED BY <1>3, <2>1, <2>2, <2>3 DEF Books
<1>7. SegmentInv /\ ReadsItsPacket
  BY <1>1 DEF SegmentInv, ReadsItsPacket
<1>8. PlaceInv
  <2>1. page = Len(file) \/ page < Len(file)
    BY <1>3
  <2>2. at = at + bytes_in_seg
    BY <1>1, <1>4
  <2>. QED BY <1>1, <1>4, <1>5, <2>1, <2>2 DEF PlaceInv
<1>9. PacketInv
  BY <1>1, <1>3, <1>5 DEF PacketInv, WellPaged
<1>. QED BY <1>6, <1>7, <1>8, <1>9 DEF ReaderInv

LEMMA ReaderSteps ==
  ASSUME ReaderInv, [ReaderNext]_reader
  PROVE  ReaderInv'
<1>1. CASE PacketStarts
  BY <1>1, PacketStartsKeeps
<1>2. CASE PacketFails
  BY <1>2, PacketFailsKeeps
<1>3. CASE PacketStartsOnNewPage
  BY <1>3, NewPageKeeps
<1>4. CASE TakeSegment
  BY <1>4, TakeSegmentKeeps
<1>5. CASE ContinueOnNextPage
  BY <1>5, ContinueKeeps
<1>6. CASE DeliverByte
  BY <1>6, DeliverByteKeeps
<1>7. CASE EndOfPacket
  BY <1>7, EndOfPacketKeeps
<1>8. CASE SkipSegment
  BY <1>8, SkipSegmentKeeps
<1>9. CASE UNCHANGED reader
  BY <1>9, StutterKeeps
<1>. QED BY <1>1, <1>2, <1>3, <1>4, <1>5, <1>6, <1>7, <1>8, <1>9 DEF ReaderNext, Get8

LEMMA ReaderBooks == ReaderSpec => []ReaderInv
<1>1. ReaderInit => ReaderInv
  BY ReaderStarts
<1>2. ReaderInv /\ [ReaderNext]_reader => ReaderInv'
  BY ReaderSteps
<1>. QED BY <1>1, <1>2, PTL DEF ReaderSpec

\* Whoever asks for the bytes, in whatever order, and however the stream is cut
\* into pages: as long as packets are read to their ends, get8_packet_raw gives
\* out the bytes of the packet that was started, and no other.
THEOREM ReaderIsFaithful == ReaderSpec => []ReadsItsPacket
<1>1. ReaderInv => ReadsItsPacket
  BY DEF ReaderInv
<1>. QED BY <1>1, ReaderBooks, PTL

LEMMA StepUsesReader ==
  ASSUME [Next]_vars
  PROVE  [ReaderNext]_reader
<1>1. CASE Next
  BY <1>1 DEF Next, Open, SkipComment, NextPacket, EndOfFile, FirstByte, PacketType, SkipPacket,
              ReadPacket, RefuseSetup, LengthsRunOut, Flush, FinishFrame, NoWindow, ReaderNext
<1>2. CASE UNCHANGED vars
  BY <1>2 DEF vars
<1>. QED BY <1>1, <1>2

\* stb_vorbis_decode_filename and all it calls use the page layer as any decoder
\* may.
THEOREM DecoderUsesReader == Spec => ReaderSpec
<1>1. Init => ReaderInit
  BY DEF Init
<1>2. [Next]_vars => [ReaderNext]_reader
  BY StepUsesReader
<1>. QED BY <1>1, <1>2, PTL DEF Spec, ReaderSpec

\* So the decoder never mixes the bytes of two packets.
THEOREM DecoderReadsItsPackets == Spec => []ReadsItsPacket
BY ReaderIsFaithful, DecoderUsesReader, PTL

-----------------------------------------------------------------------------
\* The buffer of stb_vorbis_decode_filename always has room for one more frame.
RoomInv ==
  /\ data_len \in Int /\ samples_output = data_len
  /\ total \in Nat /\ total >= Limit /\ total - data_len >= Limit
  /\ discard_samples_deferred \in Nat /\ current_loc \in Int /\ known_loc_for_packet \in Int
  /\ caller # "frame" => previous_length = 0

\* What the page layer knows of positions is a number.
LEMMA KnownLocation ==
  ASSUME file \in Files, page \in 1 .. Len(file), known_loc_for_packet \in Int, [ReaderNext]_reader
  PROVE  known_loc_for_packet' \in Int
<1>1. CASE StartPage
  <2>1. page + 1 \in 1 .. Len(file)
    BY <1>1, FilesAssumption DEF StartPage, PageOpens, Captured
  <2>2. Ahead.loc \in Nat \cup {None}
    BY <2>1, FilesAssumption DEF Ahead
  <2>. QED BY <1>1, <2>2 DEF StartPage, None
<1>2. CASE known_loc_for_packet' = known_loc_for_packet
  BY <1>2
<1>3. StartPage \/ known_loc_for_packet' = known_loc_for_packet
  BY DEF ReaderNext, Get8, PacketStarts, PacketFails, PacketStartsOnNewPage, TakeSegment,
         ContinueOnNextPage, DeliverByte, EndOfPacket, SkipSegment, StartPageFails, reader
<1>. QED BY <1>1, <1>2, <1>3

\* A frame gives out no more than the samples before its right overlap.
LEMMA FrameFits ==
  ASSUME RoomForAFrame
  PROVE  \A b : /\ LeftStart(b) \in Nat /\ RightStart(b) \in Nat /\ RightEnd(b) \in Nat /\ Size(b) \in Nat
                /\ RightStart(b) <= Limit /\ RightEnd(b) <= Size(b)
<1>1. /\ blocksize_0 \in Nat /\ blocksize_1 \in Nat /\ blocksize_0 <= blocksize_1 /\ Limit \in Nat
      /\ 3 * blocksize_1 - blocksize_0 <= 4 * Limit
  BY BlocksizeAssumption DEF RoomForAFrame
<1>. QED BY <1>1 DEF LeftStart, RightStart, RightEnd, Size

LEMMA ReturnsKeeps ==
  ASSUME RoomInv, Limit \in Nat \ {0}, NEW n \in Int, n <= Limit, Returns(n), caller # "frame" => n = 0,
         samples_output' = samples_output + n
  PROVE  /\ data_len' \in Int /\ samples_output' = data_len' /\ caller' = "frame"
         /\ total' \in Nat /\ total' >= Limit /\ total' - data_len' >= Limit
<1>1. Lesser(n, total - data_len) = n
  BY DEF Lesser, RoomInv
<1>2. caller' = "frame"
  BY DEF Returns
<1>3. CASE caller = "pump"
  BY <1>2, <1>3 DEF Returns, RoomInv
<1>4. CASE caller # "pump"
  <2>1. data_len' = data_len + n /\ total' = IF n = 0 THEN total ELSE Grown(data_len')
    BY <1>1, <1>4 DEF Returns
  <2>2. CASE n = 0
    BY <1>2, <2>1, <2>2 DEF RoomInv
  <2>3. CASE n # 0
    BY <1>2, <2>1, <2>3 DEF RoomInv, Grown
  <2>. QED BY <2>2, <2>3
<1>. QED BY <1>3, <1>4

LEMMA FinishFrameKeeps ==
  ASSUME RoomInv, FinishFrame, RoomForAFrame
  PROVE  RoomInv'
<1>. DEFINE n == Size(block)
            left == LeftStart(block) + IF first_decode THEN 0 ELSE discard_samples_deferred
            right == RightStart(block)
            behind == n - RightEnd(block)
            loc == IF first_decode THEN (-(n \div 2)) % Wrap ELSE current_loc
            known == last_seg_which = end_seg_with_known_loc
            current_end == (known_loc_for_packet - behind) % Wrap
            truncates == known /\ Here.last /\ current_end < (loc + RightEnd(block)) % Wrap
            len == IF truncates THEN CutAt(left, loc, current_end) ELSE RightEnd(block)
            out == IF previous_length = 0 THEN 0 ELSE Lesser(right, len) - left
<1>1. /\ discard_samples_deferred' = IF first_decode THEN behind ELSE 0
      /\ current_loc' = (IF truncates THEN loc + len
                         ELSE (IF known THEN LocationOf(n, left) ELSE loc) + right - left) % Wrap
      /\ samples_output' = samples_output + out
      /\ Returns(out) /\ known_loc_for_packet' = known_loc_for_packet
  BY DEF FinishFrame, reader
<1>2. /\ LeftStart(block) \in Nat /\ right \in Nat /\ RightEnd(block) \in Nat /\ n \in Nat
      /\ right <= Limit /\ RightEnd(block) <= n
  BY FrameFits
<1>3. Limit \in Nat \ {0} /\ Wrap \in Nat \ {0}
  BY BlocksizeAssumption
<1>4. left \in Nat /\ behind \in Nat
  BY <1>2 DEF RoomInv
<1>5. known_loc_for_packet \in Int /\ current_loc \in Int
  BY DEF RoomInv
<1>6. loc \in Int
  <2>1. (-(n \div 2)) % Wrap \in Int
    BY <1>2, <1>3
  <2>. QED BY <1>5, <2>1
<1>7. current_end \in Int
  BY <1>3, <1>4, <1>5
<1>8. len \in Int
  <2>1. CutAt(left, loc, current_end) \in Int
    BY <1>4, <1>6, <1>7 DEF CutAt
  <2>. QED BY <1>2, <2>1
<1>9. out \in Int /\ out <= Limit /\ (caller # "frame" => out = 0)
  <2>1. caller # "frame" => previous_length = 0
    BY DEF RoomInv
  <2>2. Lesser(right, len) \in Int /\ Lesser(right, len) <= right
    BY <1>2, <1>8 DEF Lesser
  <2>. HIDE DEF left, right, len
  <2>. QED BY <1>2, <1>3, <1>4, <2>1, <2>2
<1>10. LocationOf(n, left) \in Int
  BY <1>2, <1>4, <1>5 DEF LocationOf
<1>11. current_loc' \in Int
  <2>. HIDE DEF left, right, len, loc, truncates, known
  <2>. QED BY <1>1, <1>2, <1>3, <1>4, <1>6, <1>8, <1>10
<1>12. discard_samples_deferred' \in Nat
  BY <1>1, <1>4
<1>13. /\ data_len' \in Int /\ samples_output' = data_len' /\ caller' = "frame"
       /\ total' \in Nat /\ total' >= Limit /\ total' - data_len' >= Limit
  <2>. HIDE DEF out
  <2>. QED BY <1>1, <1>3, <1>9, ReturnsKeeps
<1>. QED BY <1>1, <1>5, <1>11, <1>12, <1>13 DEF RoomInv

LEMMA NoFrameKeeps ==
  ASSUME RoomInv, NoFrame, known_loc_for_packet' \in Int
  PROVE  RoomInv'
<1>1. Returns(0) /\ samples_output' = samples_output + 0
      /\ discard_samples_deferred' = discard_samples_deferred /\ current_loc' = current_loc
  BY DEF NoFrame, RoomInv
<1>2. /\ data_len' \in Int /\ samples_output' = data_len' /\ caller' = "frame"
      /\ total' \in Nat /\ total' >= Limit /\ total' - data_len' >= Limit
  BY <1>1, ReturnsKeeps, BlocksizeAssumption
<1>. QED BY <1>1, <1>2 DEF RoomInv

LEMMA ReadingKeeps ==
  ASSUME RoomInv, known_loc_for_packet' \in Int, NEW place, Reads(place)
  PROVE  RoomInv'
BY DEF RoomInv, Reads, frame

LEMMA RoomStays ==
  ASSUME RoomForAFrame
  PROVE  Spec => []RoomInv
<1>1. Init => RoomInv
  BY BlocksizeAssumption DEF Init, ReaderInit, RoomInv
<1>2. ReaderInv /\ RoomInv /\ [Next]_vars => RoomInv'
  <2>1. SUFFICES ASSUME ReaderInv, RoomInv, [Next]_vars PROVE RoomInv'
    OBVIOUS
  <2>2. known_loc_for_packet' \in Int
    <3>1. [ReaderNext]_reader
      BY <2>1, StepUsesReader
    <3>. QED BY <2>1, <3>1, KnownLocation DEF ReaderInv, Books, RoomInv
  <2>3. CASE UNCHANGED vars
    BY <2>1, <2>3 DEF vars, reader, frame, RoomInv
  <2>4. CASE \E place : Reads(place)
    BY <2>1, <2>2, <2>4, ReadingKeeps
  <2>5. CASE NoFrame
    BY <2>1, <2>2, <2>5, NoFrameKeeps
  <2>6. CASE FinishFrame
    BY <2>1, <2>6, FinishFrameKeeps
  <2>7. CASE PacketType
    <3>1. CASE UNCHANGED <<caller, first_decode, discard_samples_deferred, previous_length,
                           current_loc, samples_output, data_len, total, even>>
      BY <2>1, <2>2, <3>1 DEF RoomInv
    <3>. QED BY <2>4, <2>5, <2>7, <3>1 DEF PacketType
  <2>8. CASE Flush
    <3>1. CASE caller = "setup" /\ caller' = "pump" /\ UNCHANGED frame
      BY <2>1, <2>2, <2>8, <3>1 DEF Flush, frame, RoomInv
    <3>. QED BY <2>4, <2>8, <3>1 DEF Flush
  <2>. QED BY <2>1, <2>3, <2>4, <2>5, <2>6, <2>7, <2>8
           DEF Next, Open, SkipComment, NextPacket, EndOfFile, FirstByte, SkipPacket, ReadPacket,
               RefuseSetup, LengthsRunOut, NoWindow
<1>3. Spec => []ReaderInv
  BY DecoderUsesReader, ReaderBooks
<1>. QED BY <1>1, <1>2, <1>3, PTL DEF Spec

\* The blocks of a stream that are no longer than 4096 samples always fit: nothing
\* that a frame gives out is cut off, however long the stream is.
THEOREM EverythingIsHandedOver ==
  ASSUME RoomForAFrame
  PROVE  Spec => []NothingIsDropped
<1>1. RoomInv => NothingIsDropped
  BY DEF RoomInv, NothingIsDropped
<1>. QED BY <1>1, RoomStays, PTL

-----------------------------------------------------------------------------
\* The places of a stream, and its packets.

\* Segments lie one behind the other.
LEMMA OffsetsGrow ==
  ASSUME NEW f \in Files, NEW p \in 1 .. Len(f),
         NEW s \in 0 .. Count(f[p]), NEW t \in 0 .. Count(f[p]), s <= t
  PROVE  Offset(f[p], s) <= Offset(f[p], t)
<1>1. Count(f[p]) \in Nat
  BY PageFacts
<1>2. \A u \in 0 .. Count(f[p]) : Offset(f[p], u) \in Nat
  BY PageFacts
<1>3. \A u \in 0 .. (Count(f[p]) - 1) : Segment(f[p], u) \in Nat /\ Segment(f[p], u) = Offset(f[p], u + 1) - Offset(f[p], u)
  BY PageFacts
<1>. DEFINE Down == {n \in Nat : s + n <= Count(f[p]) /\ ~(Offset(f[p], s) <= Offset(f[p], s + n))}
<1>4. SUFFICES ASSUME Down # {} PROVE FALSE
  <2>1. Down = {} => t - s \notin Down
    BY ONLY TRUE
  <2>2. t - s \in Nat /\ s + (t - s) = t /\ t <= Count(f[p])
    BY <1>1
  <2>. QED BY <2>1, <2>2
<1>5. PICK n \in Down : \A m \in Down : n <= m
  <2>1. Down \subseteq Nat
    OBVIOUS
  <2>. HIDE DEF Down
  <2>. QED BY <1>4, <2>1, Smallest
<1>6. n \in Nat /\ s + n <= Count(f[p]) /\ ~(Offset(f[p], s) <= Offset(f[p], s + n))
  BY <1>5
<1>7. n # 0
  <2>1. s + 0 = s /\ Offset(f[p], s) \in Nat
    BY <1>1, <1>2
  <2>. QED BY <1>6, <2>1
<1>8. n - 1 \in Nat /\ n - 1 \notin Down
  <2>1. n - 1 \in Nat /\ ~(n <= n - 1)
    BY <1>6, <1>7
  <2>. HIDE DEF Down
  <2>. QED BY <1>5, <2>1
<1>9. Offset(f[p], s) <= Offset(f[p], s + (n - 1))
  <2>1. s + (n - 1) <= Count(f[p])
    BY <1>1, <1>6
  <2>. QED BY <1>8, <2>1
<1>10. s + (n - 1) \in 0 .. (Count(f[p]) - 1) /\ (s + (n - 1)) + 1 = s + n /\ s + n \in 0 .. Count(f[p])
       /\ s + (n - 1) \in 0 .. Count(f[p])
  BY <1>1, <1>6, <1>8
<1>11. /\ Segment(f[p], s + (n - 1)) \in Nat /\ Offset(f[p], s) \in Nat /\ Offset(f[p], s + n) \in Nat
       /\ Offset(f[p], s + (n - 1)) \in Nat
       /\ Segment(f[p], s + (n - 1)) = Offset(f[p], s + n) - Offset(f[p], s + (n - 1))
  BY <1>2, <1>3, <1>10
<1>. QED BY <1>6, <1>9, <1>11

\* A place is a page and a segment of it.
LEMMA PlaceFacts ==
  ASSUME NEW f \in Files
  PROVE  \A a : a \in Places(f) <=>
           a = <<a[1], a[2]>> /\ a[1] \in 1 .. Len(f) /\ a[2] \in 0 .. (Count(f[a[1]]) - 1)
<1>1. ASSUME NEW a, a \in Places(f)
      PROVE  a = <<a[1], a[2]>> /\ a[1] \in 1 .. Len(f) /\ a[2] \in 0 .. (Count(f[a[1]]) - 1)
  <2>1. PICK p \in 1 .. Len(f) : a \in {p} \X (0 .. (Count(f[p]) - 1))
    BY <1>1 DEF Places
  <2>. QED BY <2>1
<1>2. ASSUME NEW a, a = <<a[1], a[2]>>, a[1] \in 1 .. Len(f), a[2] \in 0 .. (Count(f[a[1]]) - 1)
      PROVE  a \in Places(f)
  <2>1. a \in {a[1]} \X (0 .. (Count(f[a[1]]) - 1))
    BY <1>2
  <2>. QED BY <1>2, <2>1 DEF Places
<1>. QED BY <1>1, <1>2

LEMMA StartFacts ==
  ASSUME NEW f \in Files, NEW a \in Starts(f)
  PROVE  /\ a = <<a[1], a[2]>> /\ a[1] \in 1 .. Len(f) /\ a[2] \in 0 .. (Count(f[a[1]]) - 1)
         /\ a[1] \in Nat /\ a[2] \in Nat /\ Count(f[a[1]]) \in Nat /\ Len(f) \in Nat
         /\ Begins(f, a[1], a[2])
<1>1. a \in Places(f) /\ Begins(f, a[1], a[2])
  BY DEF Starts
<1>2. a = <<a[1], a[2]>> /\ a[1] \in 1 .. Len(f) /\ a[2] \in 0 .. (Count(f[a[1]]) - 1)
  BY <1>1, PlaceFacts
<1>3. Len(f) \in Nat /\ Count(f[a[1]]) \in Nat
  BY <1>2, PageFacts
<1>. QED BY <1>1, <1>2, <1>3

\* Of two places one is the earlier one.
LEMMA OneIsEarlier ==
  ASSUME NEW f \in Files, NEW a \in Starts(f), NEW b \in Starts(f), a # b
  PROVE  Earlier(a, b) \/ Earlier(b, a)
<1>1. /\ a = <<a[1], a[2]>> /\ a[1] \in Nat /\ a[2] \in Nat
      /\ b = <<b[1], b[2]>> /\ b[1] \in Nat /\ b[2] \in Nat
  BY StartFacts
<1>2. a[1] # b[1] \/ a[2] # b[2]
  BY <1>1
<1>3. a[1] < b[1] \/ b[1] < a[1] \/ (a[1] = b[1] /\ (a[2] < b[2] \/ b[2] < a[2]))
  BY <1>1, <1>2
<1>. QED BY <1>3 DEF Earlier, Before

\* No packet begins within another.
LEMMA NoneBetween ==
  ASSUME NEW f \in Files, NEW a \in Starts(f), NEW c \in Starts(f), NEW q \in 1 .. Len(f), NEW t \in Nat,
         OnePacket(f, a[1], a[2], q, t), Earlier(a, c)
  PROVE  Before(q, t, c[1], c[2])
<1>1. /\ a[1] \in 1 .. Len(f) /\ a[2] \in Nat /\ a[1] \in Nat
      /\ c[1] \in 1 .. Len(f) /\ c[2] \in 0 .. (Count(f[c[1]]) - 1) /\ c[1] \in Nat /\ c[2] \in Nat
      /\ Count(f[c[1]]) \in Nat /\ Len(f) \in Nat /\ Begins(f, c[1], c[2])
  BY StartFacts
<1>2. q \in Nat /\ t \in Nat
  BY <1>1
<1>3. SUFFICES ASSUME ~Before(q, t, c[1], c[2]) PROVE FALSE
  OBVIOUS
<1>4. c[1] < q \/ (c[1] = q /\ c[2] <= t)
  BY <1>1, <1>2, <1>3 DEF Before
<1>5. a[1] < c[1] \/ (a[1] = c[1] /\ a[2] < c[2])
  BY DEF Earlier, Before
<1>6. c[1] \in a[1] .. q
  BY <1>1, <1>2, <1>4, <1>5
<1>7. CASE c[2] = 0
  <2>1. Before(a[1], a[2], c[1], 0)
    BY <1>1, <1>5, <1>7 DEF Before
  <2>2. 0 \in 0 .. (Count(f[c[1]]) - 1)
    BY <1>1
  <2>3. f[c[1]].continued
    BY <1>6, <2>1, <2>2 DEF OnePacket
  <2>. QED BY <1>1, <1>7, <2>3 DEF Begins
<1>8. CASE c[2] # 0
  <2>1. c[2] - 1 \in 0 .. (Count(f[c[1]]) - 1) /\ c[2] - 1 \in Nat
    BY <1>1, <1>8
  <2>2. ~Before(c[1], c[2] - 1, a[1], a[2])
    BY SMTT(20), <1>1, <1>5, <2>1 DEF Before
  <2>3. Before(c[1], c[2] - 1, q, t)
    BY <1>1, <1>2, <1>4, <2>1 DEF Before
  <2>4. Segment(f[c[1]], c[2] - 1) = Full
    BY <1>6, <2>1, <2>2, <2>3 DEF OnePacket
  <2>5. ~(Full < Full)
    BY <1>1, PageFacts
  <2>. QED BY <1>1, <1>8, <2>4, <2>5 DEF Begins
<1>. QED BY <1>7, <1>8

\* A segment is of one packet.
LEMMA OnePacketOnly ==
  ASSUME NEW f \in Files, NEW a \in Starts(f), NEW c \in Starts(f), NEW q \in 1 .. Len(f), NEW t \in Nat,
         OnePacket(f, a[1], a[2], q, t), OnePacket(f, c[1], c[2], q, t)
  PROVE  a = c
<1>1. ASSUME NEW x \in Starts(f), NEW y \in Starts(f), Earlier(x, y),
             OnePacket(f, x[1], x[2], q, t), OnePacket(f, y[1], y[2], q, t)
      PROVE  FALSE
  <2>1. Before(q, t, y[1], y[2])
    BY <1>1, NoneBetween
  <2>. QED BY <1>1, <2>1 DEF OnePacket
<1>. QED BY <1>1, OneIsEarlier

-----------------------------------------------------------------------------
\* The page layer within a stream as encoders write it.

\* Nothing is left of the packet, and what of its page was taken last is its end.
AtEnd == page = Len(file) /\ next_seg = None

\* What the page layer knows of a stream as encoders write it.
Sound ==
  /\ at + bytes_in_seg = Offset(Here, Taken)
  /\ last_seg => /\ Taken > 0 /\ Segment(Here, Taken - 1) < Full /\ last_seg_which = Taken - 1
                 /\ OnePacket(file, start[1], start[2], page, Taken - 1)
  /\ eop => last_seg
  /\ eof => AtEnd
  /\ end_seg_with_known_loc = IF page = 1 THEN Unknown ELSE KnownSegment(Here)
  /\ end_seg_with_known_loc # Unknown => known_loc_for_packet = Here.loc
  /\ start \in Starts(file)

WholeInv == file[1].whole /\ ~skipped => Sound

LEMMA WholeFacts ==
  ASSUME NEW f \in Files, f[1].whole, NEW p \in 1 .. Len(f)
  PROVE  /\ Count(f[p]) \in Nat \ {0} /\ f[p].good /\ f[p].size = Body(f[p]) /\ Body(f[p]) = Offset(f[p], Count(f[p]))
         /\ f[p].last = (p = Len(f))
         /\ f[p].continued = (p > 1 /\ Segment(f[p - 1], Count(f[p - 1]) - 1) = Full)
         /\ Count(f[1]) = 1 /\ Segment(f[1], 0) < Full
         /\ Segment(f[Len(f)], Count(f[Len(f)]) - 1) < Full
         /\ WellPaged(f)
         /\ Len(f) \in Nat \ {0} /\ Full \in Nat \ {0}
<1>1. Bound(f)
  BY EncodersAssumption
<1>2. /\ f[p].good /\ f[p].size = Body(f[p])
      /\ f[p].last = (p = Len(f))
      /\ f[p].continued = (p > 1 /\ Segment(f[p - 1], Count(f[p - 1]) - 1) = Full)
      /\ Count(f[1]) = 1 /\ Segment(f[1], 0) < Full
      /\ Segment(f[Len(f)], Count(f[Len(f)]) - 1) < Full
      /\ WellPaged(f)
  BY <1>1 DEF Bound
<1>3. Count(f[p]) \in Nat /\ Count(f[p]) > 0 /\ Body(f[p]) = Offset(f[p], Count(f[p]))
      /\ Len(f) \in Nat \ {0} /\ Full \in Nat \ {0}
  BY <1>2, PageFacts DEF WellPaged
<1>. QED BY <1>2, <1>3

\* Where the decoder is in such a stream.
LEMMA SoundFacts ==
  ASSUME ReaderInv, WholeInv, file[1].whole, ~skipped
  PROVE  /\ file \in Files /\ page \in 1 .. Len(file) /\ page \in Nat /\ Len(file) \in Nat \ {0}
         /\ Count(Here) \in Nat \ {0} /\ Here.good /\ Here.size = Offset(Here, Count(Here))
         /\ Taken \in 0 .. Count(Here) /\ at \in Nat /\ bytes_in_seg \in Nat
         /\ Offset(Here, Taken) <= Here.size /\ Here.size \in Nat
         /\ next_seg = None => Taken = Count(Here)
         /\ next_seg # None => Taken = next_seg /\ next_seg \in 0 .. (Count(Here) - 1) /\ next_seg \in Nat
         /\ Full \in Nat \ {0} /\ WellPaged(file)
         /\ start[1] \in Nat /\ start[2] \in Nat /\ start[1] \in 1 .. page
         /\ start[2] \in 0 .. (Count(file[start[1]]) - 1)
<1>1. file \in Files /\ page \in 1 .. Len(file) /\ at \in Nat /\ bytes_in_seg \in Nat
      /\ start[1] \in 1 .. page /\ start \in Starts(file)
  BY DEF ReaderInv, Books, WholeInv, Sound
<1>2. /\ Count(Here) \in Nat \ {0} /\ Here.good /\ Here.size = Offset(Here, Count(Here))
      /\ Len(file) \in Nat \ {0} /\ Full \in Nat \ {0} /\ WellPaged(file)
  BY <1>1, WholeFacts DEF Here
<1>3. next_seg \in {None} \cup 0 .. (Count(Here) - 1)
  BY DEF ReaderInv, Books
<1>4. Taken \in 0 .. Count(Here)
  BY <1>2, <1>3 DEF Taken
<1>5. Offset(Here, Taken) <= Here.size /\ Here.size \in Nat
  BY <1>1, <1>2, <1>4, PageFacts DEF Here
<1>6. start[1] \in Nat /\ start[2] \in Nat /\ start[2] \in 0 .. (Count(file[start[1]]) - 1)
  BY <1>1, StartFacts
<1>. QED BY <1>1, <1>2, <1>3, <1>4, <1>5, <1>6 DEF Taken

\* A page of such a stream can be opened unless it was the last.
LEMMA NextPageOpens ==
  ASSUME ReaderInv, WholeInv, file[1].whole, ~skipped, next_seg = None, bytes_in_seg = 0, page # Len(file)
  PROVE  PageOpens
<1>1. page \in 1 .. Len(file) /\ Len(file) \in Nat /\ file \in Files /\ Taken = Count(Here)
      /\ Here.size = Offset(Here, Count(Here)) /\ at \in Nat
  BY SoundFacts
<1>2. page < Len(file) /\ page + 1 \in 1 .. Len(file)
  BY <1>1
<1>3. Ahead.good /\ Count(Ahead) \in Nat \ {0}
  BY <1>1, <1>2, WholeFacts DEF Ahead
<1>4. at = Here.size
  <2>1. at + bytes_in_seg = Offset(Here, Count(Here))
    BY <1>1 DEF WholeInv, Sound
  <2>. QED BY <1>1, <2>1
<1>. QED BY <1>2, <1>3, <1>4 DEF PageOpens, Captured

LEMMA LastFails ==
  ASSUME ReaderInv, WholeInv, file[1].whole, ~skipped, next_seg = None, bytes_in_seg = 0, StartPageFails
  PROVE  /\ page = Len(file) /\ page' = page /\ at' = at /\ eof' = TRUE
         /\ end_seg_with_known_loc' = end_seg_with_known_loc /\ known_loc_for_packet' = known_loc_for_packet
<1>1. page = Len(file)
  BY NextPageOpens DEF StartPageFails
<1>2. ~Captured
  BY <1>1, SoundFacts DEF Captured
<1>3. at + bytes_in_seg = Here.size /\ at \in Nat
  BY SoundFacts DEF WholeInv, Sound
<1>4. at = Here.size /\ ~(at < Here.size)
  BY <1>3
<1>. QED BY <1>1, <1>2, <1>4 DEF StartPageFails

\* A packet that has taken all of a page goes on with the next, and does so
\* only then.
LEMMA GoesOn ==
  ASSUME ReaderInv, WholeInv, file[1].whole, ~skipped, next_seg = None
  PROVE  /\ page + 1 \in 1 .. Len(file) => Ahead.continued = (Segment(Here, Taken - 1) = Full)
         /\ page = Len(file) => Segment(Here, Taken - 1) < Full
         /\ ~last_seg => Segment(Here, Taken - 1) = Full
<1>1. page \in 1 .. Len(file) /\ page \in Nat /\ file \in Files /\ Taken = Count(Here) /\ Count(Here) \in Nat \ {0}
      /\ Len(file) \in Nat \ {0} /\ WellPaged(file)
      /\ start[1] \in Nat /\ start[2] \in Nat /\ start[1] \in 1 .. page
      /\ start[2] \in 0 .. (Count(file[start[1]]) - 1)
  BY SoundFacts
<1>2. page = Len(file) => Segment(Here, Taken - 1) < Full
  BY <1>1, WholeFacts DEF Here
<1>3. ASSUME page + 1 \in 1 .. Len(file) PROVE Ahead.continued = (Segment(Here, Taken - 1) = Full)
  <2>1. file[page + 1].continued = (page + 1 > 1 /\ Segment(file[(page + 1) - 1], Count(file[(page + 1) - 1]) - 1) = Full)
    BY <1>1, <1>3, WholeFacts
  <2>2. (page + 1) - 1 = page /\ page + 1 > 1
    BY <1>1
  <2>. QED BY <1>1, <2>1, <2>2 DEF Here, Ahead
<1>4. ASSUME ~last_seg PROVE Segment(Here, Taken - 1) = Full
  <2>1. OnePacket(file, start[1], start[2], page, Count(Here))
    BY <1>1, <1>4 DEF ReaderInv, PacketInv
  <2>2. ~Before(page, Count(Here) - 1, start[1], start[2])
    BY <1>1 DEF Before, Here
  <2>3. Before(page, Count(Here) - 1, page, Count(Here))
    BY <1>1 DEF Before
  <2>4. Count(Here) - 1 \in 0 .. (Count(file[page]) - 1) /\ page \in start[1] .. page
    BY <1>1 DEF Here
  <2>. QED BY <1>1, <2>1, <2>2, <2>3, <2>4 DEF OnePacket, Here
<1>. QED BY <1>2, <1>3, <1>4

\* start_page in such a stream.
LEMMA SoundPage ==
  ASSUME ReaderInv, file[1].whole, StartPage, file' = file
  PROVE  /\ page' = page + 1 /\ page' \in 1 .. Len(file) /\ page + 1 \in 1 .. Len(file) /\ page' # 1
         /\ at' = 0 /\ eof' = eof /\ Here' = Ahead /\ Offset(Ahead, 0) = 0
         /\ Ahead = file[page + 1] /\ page < Len(file)
         /\ end_seg_with_known_loc' = KnownSegment(Here')
         /\ end_seg_with_known_loc' # Unknown => known_loc_for_packet' = Here'.loc
<1>1. /\ page' = page + 1 /\ page' \in 1 .. Len(file) /\ page + 1 \in 1 .. Len(file)
      /\ at' = 0 /\ eof' = eof /\ Here' = Ahead /\ Offset(Ahead, 0) = 0
  BY PageStarts
<1>2. page \in 1 .. Len(file) /\ Len(file) \in Nat
  BY PageFacts DEF ReaderInv, Books
<1>3. page' # 1 /\ page < Len(file)
  BY <1>1, <1>2
<1>. QED BY <1>1, <1>3 DEF StartPage, Ahead

\* A packet that has just been started.
LEMMA SoundPacket ==
  ASSUME ReaderInv, file[1].whole, file' = file, page' \in 1 .. Len(file), at' = Offset(Here', next_seg'),
         next_seg' \in 0 .. (Count(Here') - 1), last_seg' = FALSE, bytes_in_seg' = 0, eop' = FALSE, eof' = FALSE,
         start' = <<page', next_seg'>>, Begins(file, page', next_seg'),
         end_seg_with_known_loc' = IF page' = 1 THEN Unknown ELSE KnownSegment(Here'),
         end_seg_with_known_loc' # Unknown => known_loc_for_packet' = Here'.loc
  PROVE  Sound'
<1>1. file \in Files /\ Here' = file[page']
  BY DEF ReaderInv, Books, Here
<1>2. Count(Here') \in Nat
  BY <1>1, PageFacts
<1>3. next_seg' # None /\ next_seg' \in Nat
  BY <1>2 DEF None
<1>4. Offset(Here', next_seg') \in Nat
  BY <1>1, <1>2, PageFacts
<1>5. at' + bytes_in_seg' = Offset(Here', Taken')
  BY <1>3, <1>4 DEF Taken
<1>6. start' \in Starts(file')
  <2>1. start'[1] = page' /\ start'[2] = next_seg'
    OBVIOUS
  <2>2. start' \in Places(file)
    BY <1>1, <2>1, PlaceFacts
  <2>. QED BY <2>1, <2>2 DEF Starts
<1>. QED BY <1>5, <1>6 DEF Sound

LEMMA PacketStartsSound ==
  ASSUME ReaderInv, WholeInv, PacketStarts \/ (PacketStartsOnNewPage /\ next_seg = None)
  PROVE  WholeInv'
<1>1. /\ file' = file /\ last_seg' = FALSE /\ bytes_in_seg' = 0 /\ eop' = FALSE
      /\ start' = <<page', next_seg'>> /\ skipped' = (skipped \/ ~eop)
  <2>1. CASE PacketStarts
    BY <2>1 DEF PacketStarts
  <2>2. CASE PacketStartsOnNewPage
    BY <2>2 DEF PacketStartsOnNewPage, StartPage
  <2>. QED BY <2>1, <2>2
<1>2. SUFFICES ASSUME file[1].whole, ~skipped' PROVE Sound'
  BY <1>1 DEF WholeInv
<1>3. ~skipped /\ eop
  BY <1>1, <1>2
<1>4. Sound /\ last_seg /\ bytes_in_seg = 0
  BY <1>2, <1>3 DEF WholeInv, Sound, ReaderInv, SegmentInv
<1>5. CASE next_seg # None
  <2>1. page' = page /\ at' = at /\ eof' = eof /\ next_seg' = next_seg /\ Here' = Here
        /\ end_seg_with_known_loc' = end_seg_with_known_loc /\ known_loc_for_packet' = known_loc_for_packet
    BY <1>1, <1>5 DEF PacketStarts, Here
  <2>2. next_seg' \in 0 .. (Count(Here') - 1) /\ Taken = next_seg /\ next_seg \in Nat /\ page \in 1 .. Len(file) /\ at \in Nat
    BY <1>2, <1>3, <1>5, <2>1, SoundFacts
  <2>3. at' = Offset(Here', next_seg')
    <3>1. at + bytes_in_seg = Offset(Here, Taken)
      BY <1>4 DEF Sound
    <3>. QED BY <1>4, <2>1, <2>2, <3>1
  <2>4. Begins(file, page', next_seg')
    BY <1>4, <2>1, <2>2 DEF Sound, Begins, Here
  <2>5. eof' = FALSE
    BY <1>4, <1>5, <2>1 DEF Sound, AtEnd, ReaderInv, Books
  <2>6. /\ end_seg_with_known_loc' = IF page' = 1 THEN Unknown ELSE KnownSegment(Here')
        /\ end_seg_with_known_loc' # Unknown => known_loc_for_packet' = Here'.loc
    BY <1>4, <2>1 DEF Sound
  <2>. QED BY <1>1, <1>2, <2>1, <2>2, <2>3, <2>4, <2>5, <2>6, SoundPacket
<1>6. CASE next_seg = None
  <2>1. StartPage /\ next_seg' = 0
    BY <1>6 DEF PacketStarts, PacketStartsOnNewPage
  <2>2. /\ page' = page + 1 /\ page' \in 1 .. Len(file) /\ page + 1 \in 1 .. Len(file) /\ page' # 1
        /\ at' = 0 /\ eof' = eof /\ Here' = Ahead /\ Offset(Ahead, 0) = 0
        /\ Ahead = file[page + 1] /\ page < Len(file)
        /\ end_seg_with_known_loc' = KnownSegment(Here')
        /\ end_seg_with_known_loc' # Unknown => known_loc_for_packet' = Here'.loc
    BY <1>1, <1>2, <2>1, SoundPage
  <2>3. next_seg' \in 0 .. (Count(Here') - 1)
    <3>1. Count(Here') \in Nat \ {0}
      BY <1>2, <2>2, WholeFacts DEF ReaderInv, Books
    <3>. QED BY <2>1, <3>1
  <2>4. eof' = FALSE
    <3>1. ~AtEnd
      BY <1>2, <1>3, <2>2, SoundFacts DEF AtEnd
    <3>. QED BY <1>4, <2>2, <3>1 DEF Sound, ReaderInv, Books
  <2>5. Begins(file, page', next_seg')
    <3>1. Ahead.continued = (Segment(Here, Taken - 1) = Full)
      BY <1>2, <1>3, <1>6, <2>2, GoesOn
    <3>2. Segment(Here, Taken - 1) < Full /\ Full \in Nat
      BY <1>2, <1>3, <1>4, SoundFacts DEF Sound
    <3>3. Segment(Here, Taken - 1) # Full
      BY <3>2
    <3>4. ~Ahead.continued
      BY <3>1, <3>3, Zenon
    <3>. QED BY <2>1, <2>2, <3>4 DEF Begins
  <2>. QED BY <1>1, <1>2, <2>1, <2>2, <2>3, <2>4, <2>5, SoundPacket
<1>. QED BY <1>5, <1>6

LEMMA PacketFailsSound ==
  ASSUME ReaderInv, WholeInv, PacketFails
  PROVE  /\ WholeInv'
         /\ file[1].whole /\ ~skipped /\ eop =>
              /\ page = Len(file) /\ page' = page /\ ~skipped' /\ eop'
              /\ UNCHANGED <<file, next_seg, last_seg, bytes_in_seg, start>>
<1>1. next_seg = None /\ file' = file /\ eop' = eop /\ skipped' = (skipped \/ ~eop) /\ last_seg_which' = last_seg_which
  BY DEF PacketFails
<1>2. SUFFICES ASSUME file[1].whole, ~skipped, eop
               PROVE  /\ Sound' /\ page = Len(file) /\ page' = page
                      /\ UNCHANGED <<file, next_seg, last_seg, bytes_in_seg, start>>
  BY <1>1 DEF WholeInv
<1>3. Sound /\ last_seg /\ bytes_in_seg = 0
  BY <1>2 DEF WholeInv, Sound, ReaderInv, SegmentInv
<1>4. CASE StartPageFails /\ UNCHANGED <<next_seg, last_seg, bytes_in_seg, start, byte>>
  <2>1. /\ page = Len(file) /\ page' = page /\ at' = at /\ eof' = TRUE
        /\ end_seg_with_known_loc' = end_seg_with_known_loc /\ known_loc_for_packet' = known_loc_for_packet
    BY <1>1, <1>2, <1>3, <1>4, LastFails
  <2>2. Here' = Here /\ Taken' = Taken
    BY <1>1, <1>4, <2>1 DEF Here, Taken
  <2>. QED BY <1>1, <1>3, <1>4, <2>1, <2>2 DEF Sound, AtEnd
<1>5. CASE StartPage /\ Ahead.continued
  <2>1. page + 1 \in 1 .. Len(file)
    BY <1>1, <1>2, <1>5, SoundPage
  <2>2. Ahead.continued = (Segment(Here, Taken - 1) = Full)
    BY <1>1, <1>2, <2>1, GoesOn
  <2>3. Segment(Here, Taken - 1) < Full /\ Full \in Nat
    BY <1>2, <1>3, SoundFacts DEF Sound
  <2>4. Segment(Here, Taken - 1) # Full
    BY <2>3
  <2>. QED BY <1>5, <2>2, <2>4, Zenon
<1>. QED BY <1>4, <1>5 DEF PacketFails

LEMMA TakeSegmentSound ==
  ASSUME ReaderInv, WholeInv, TakeSegment
  PROVE  WholeInv'
<1>. DEFINE len == Segment(Here, next_seg)
<1>1. /\ bytes_in_seg = 0 /\ next_seg # None /\ last_seg = FALSE
      /\ bytes_in_seg' = len /\ last_seg' = (len < Full) /\ eop' = (len = 0)
      /\ last_seg_which' = IF len < Full THEN next_seg ELSE last_seg_which
      /\ next_seg' = IF next_seg + 1 = Count(Here) THEN None ELSE next_seg + 1
      /\ file' = file /\ page' = page /\ at' = at /\ eof' = eof /\ start' = start
      /\ end_seg_with_known_loc' = end_seg_with_known_loc /\ known_loc_for_packet' = known_loc_for_packet
      /\ skipped' = skipped /\ Here' = Here
  BY DEF TakeSegment, EndsPacket, BehindSegment, Here, ReaderInv, Books
<1>2. SUFFICES ASSUME file[1].whole, ~skipped PROVE Sound'
  BY <1>1 DEF WholeInv
<1>3. Sound
  BY <1>2 DEF WholeInv
<1>4. /\ file \in Files /\ page \in 1 .. Len(file) /\ Count(Here) \in Nat \ {0} /\ Taken = next_seg
      /\ next_seg \in 0 .. (Count(Here) - 1) /\ next_seg \in Nat /\ at \in Nat /\ Full \in Nat \ {0} /\ WellPaged(file)
  BY <1>1, <1>2, SoundFacts
<1>5. Taken' = next_seg + 1
  BY <1>1, <1>4 DEF Taken, None
<1>6. /\ len = Offset(Here, next_seg + 1) - Offset(Here, next_seg)
      /\ Offset(Here, next_seg) \in Nat /\ Offset(Here, next_seg + 1) \in Nat
  <2>1. next_seg \in 0 .. Count(Here) /\ next_seg + 1 \in 0 .. Count(Here)
    BY <1>4
  <2>2. \A s \in 0 .. Count(Here) : Offset(Here, s) \in Nat
    BY <1>4, PageFacts DEF Here
  <2>3. \A s \in 0 .. (Count(Here) - 1) : Segment(Here, s) = Offset(Here, s + 1) - Offset(Here, s)
    BY <1>4, PageFacts DEF Here
  <2>. QED BY <1>4, <2>1, <2>2, <2>3
<1>7. at' + bytes_in_seg' = Offset(Here', Taken')
  <2>1. at + 0 = Offset(Here, next_seg)
    BY <1>1, <1>3, <1>4 DEF Sound
  <2>. QED BY <1>1, <1>4, <1>5, <1>6, <2>1
<1>8. OnePacket(file, start[1], start[2], page, next_seg)
  BY <1>1, <1>2, <1>4 DEF ReaderInv, PacketInv
<1>9. last_seg' => /\ Taken' > 0 /\ Segment(Here', Taken' - 1) < Full /\ last_seg_which' = Taken' - 1
                   /\ OnePacket(file', start'[1], start'[2], page', Taken' - 1)
  <2>1. Taken' - 1 = next_seg /\ Taken' > 0
    BY <1>4, <1>5
  <2>. QED BY <1>1, <1>8, <2>1
<1>10. eop' => last_seg'
  <2>1. len = 0 => len < Full
    BY <1>4
  <2>. HIDE DEF len
  <2>. QED BY <1>1, <2>1, Zenon
<1>11. eof' => AtEnd'
  BY <1>1, <1>3 DEF Sound, AtEnd
<1>. QED BY <1>1, <1>3, <1>7, <1>9, <1>10, <1>11 DEF Sound

LEMMA ContinueSound ==
  ASSUME ReaderInv, WholeInv, ContinueOnNextPage
  PROVE  WholeInv'
<1>1. /\ bytes_in_seg = 0 /\ last_seg = FALSE /\ next_seg = None
      /\ file' = file /\ bytes_in_seg' = 0 /\ start' = start /\ skipped' = skipped
  BY DEF ContinueOnNextPage, ReaderInv, Books
<1>2. SUFFICES ASSUME file[1].whole, ~skipped PROVE Sound'
  BY <1>1 DEF WholeInv
<1>3. Sound
  BY <1>2 DEF WholeInv
<1>4. Segment(Here, Taken - 1) = Full /\ page # Len(file)
  <2>1. /\ page = Len(file) => Segment(Here, Taken - 1) < Full
        /\ Segment(Here, Taken - 1) = Full /\ Full \in Nat
    BY <1>1, <1>2, GoesOn, SoundFacts
  <2>. QED BY <2>1
<1>5. PageOpens
  BY <1>1, <1>2, <1>4, NextPageOpens
<1>6. StartPage /\ next_seg' = 0 /\ eop' = ~Ahead.continued /\ last_seg' = last_seg
  BY <1>5 DEF ContinueOnNextPage, StartPageFails
<1>7. /\ page' = page + 1 /\ page' \in 1 .. Len(file) /\ page + 1 \in 1 .. Len(file) /\ page' # 1
      /\ at' = 0 /\ eof' = eof /\ Here' = Ahead /\ Offset(Ahead, 0) = 0
      /\ end_seg_with_known_loc' = KnownSegment(Here')
      /\ end_seg_with_known_loc' # Unknown => known_loc_for_packet' = Here'.loc
  BY <1>1, <1>2, <1>6, SoundPage
<1>8. Ahead.continued
  BY <1>1, <1>2, <1>4, <1>7, GoesOn
<1>9. eop' = FALSE
  BY <1>6, <1>8
<1>10. at' + bytes_in_seg' = Offset(Here', Taken')
  BY <1>1, <1>6, <1>7 DEF Taken, None
<1>11. ~eof'
  BY <1>3, <1>4, <1>7 DEF Sound, AtEnd
<1>. QED BY <1>1, <1>3, <1>6, <1>7, <1>9, <1>10, <1>11 DEF Sound

LEMMA DeliverByteSound ==
  ASSUME ReaderInv, WholeInv, DeliverByte
  PROVE  /\ WholeInv'
         /\ file[1].whole /\ ~skipped => byte' = <<page, at>>
<1>1. /\ bytes_in_seg > 0 /\ bytes_in_seg' = bytes_in_seg - 1 /\ eop' = FALSE
      /\ file' = file /\ page' = page /\ next_seg' = next_seg /\ last_seg' = last_seg
      /\ start' = start /\ skipped' = skipped /\ Here' = Here /\ Taken' = Taken /\ last_seg_which' = last_seg_which
      /\ end_seg_with_known_loc' = end_seg_with_known_loc /\ known_loc_for_packet' = known_loc_for_packet
  BY DEF DeliverByte, Here, Taken
<1>2. SUFFICES ASSUME file[1].whole, ~skipped PROVE Sound' /\ byte' = <<page, at>>
  BY <1>1 DEF WholeInv
<1>3. Sound
  BY <1>2 DEF WholeInv
<1>4. /\ at \in Nat /\ bytes_in_seg \in Nat /\ Here.size \in Nat /\ Offset(Here, Taken) <= Here.size
      /\ at + bytes_in_seg = Offset(Here, Taken)
  BY <1>2, <1>3, SoundFacts DEF Sound
<1>5. at < Here.size
  BY <1>1, <1>4
<1>6. at' = at + 1 /\ byte' = <<page, at>> /\ eof' = eof
  BY <1>5 DEF DeliverByte
<1>7. at' + bytes_in_seg' = Offset(Here', Taken')
  BY <1>1, <1>4, <1>6
<1>8. AtEnd' = AtEnd
  BY <1>1 DEF AtEnd
<1>. QED BY <1>1, <1>3, <1>6, <1>7, <1>8 DEF Sound

LEMMA SameSegmentSound ==
  ASSUME WholeInv, at' + bytes_in_seg' = at + bytes_in_seg,
         UNCHANGED <<file, page, eof, next_seg, last_seg, last_seg_which, end_seg_with_known_loc,
                     known_loc_for_packet, start, skipped>>,
         eop' => eop \/ last_seg
  PROVE  WholeInv'
<1>1. Here' = Here /\ Taken' = Taken /\ AtEnd' = AtEnd
  BY DEF Here, Taken, AtEnd
<1>. QED BY <1>1 DEF WholeInv, Sound

LEMMA SkipSegmentSound ==
  ASSUME ReaderInv, WholeInv, SkipSegment
  PROVE  WholeInv'
<1>1. at \in Nat /\ bytes_in_seg \in Nat
  BY DEF ReaderInv, Books
<1>2. at' = at + bytes_in_seg /\ bytes_in_seg' = 0
  BY DEF SkipSegment
<1>3. at' + bytes_in_seg' = at + bytes_in_seg
  BY <1>1, <1>2
<1>. QED BY <1>3, SameSegmentSound DEF SkipSegment

LEMMA EndOfPacketSound ==
  ASSUME WholeInv, EndOfPacket
  PROVE  WholeInv'
BY SameSegmentSound DEF EndOfPacket

LEMMA StutterSound ==
  ASSUME WholeInv, UNCHANGED reader
  PROVE  WholeInv'
BY SameSegmentSound DEF reader

LEMMA StartsSound ==
  ASSUME ReaderInit
  PROVE  WholeInv
<1>1. /\ file \in Files /\ page = 1 /\ at = Here.size /\ eof = FALSE /\ next_seg = None /\ last_seg = TRUE
      /\ bytes_in_seg = 0 /\ eop = TRUE /\ start = <<1, 0>> /\ last_seg_which = 0 /\ Here = file[1]
      /\ end_seg_with_known_loc = Unknown /\ Taken = Count(Here)
  BY DEF ReaderInit, Here, Taken
<1>2. SUFFICES ASSUME file[1].whole PROVE Sound
  BY DEF WholeInv
<1>3. Len(file) \in Nat \ {0}
  BY <1>1, FilesAssumption
<1>4. 1 \in 1 .. Len(file)
  BY <1>3
<1>5. /\ Count(Here) = 1 /\ Segment(Here, 0) < Full /\ Here.size = Offset(Here, Count(Here))
      /\ file[1].continued = (1 > 1 /\ Segment(file[1 - 1], Count(file[1 - 1]) - 1) = Full)
      /\ WellPaged(file)
  BY <1>1, <1>2, <1>4, WholeFacts
<1>6. Here.size \in Nat
  BY <1>1, <1>4, PageFacts
<1>7. start[1] = 1 /\ start[2] = 0 /\ 1 - 1 = 0 /\ Taken - 1 = 0 /\ Taken > 0
  BY <1>1, <1>5
<1>8. start \in Starts(file)
  <2>1. ~file[1].continued
    <3>1. ~(1 > 1)
      OBVIOUS
    <3>. QED BY <1>5, <3>1, Zenon
  <2>2. start \in Places(file)
    <3>1. start[2] \in 0 .. (Count(file[start[1]]) - 1)
      BY <1>1, <1>5, <1>7
    <3>. QED BY <1>1, <1>4, <1>7, <3>1, PlaceFacts
  <2>. QED BY <1>7, <2>1, <2>2 DEF Starts, Begins
<1>9. OnePacket(file, start[1], start[2], page, Taken - 1)
  BY <1>1, <1>7, PacketOfNothing
<1>10. at + bytes_in_seg = Offset(Here, Taken)
  BY <1>1, <1>5, <1>6
<1>. QED BY <1>1, <1>5, <1>7, <1>8, <1>9, <1>10 DEF Sound

\* Each step of the page layer keeps a sound stream sound, if pages are opened
\* anew only where one is to come.
LEMMA StepsSound ==
  ASSUME ReaderInv, WholeInv,
         \/ PacketStarts \/ (PacketStartsOnNewPage /\ next_seg = None) \/ PacketFails
         \/ Get8 \/ SkipSegment \/ UNCHANGED reader
  PROVE  WholeInv'
<1>1. CASE PacketStarts \/ (PacketStartsOnNewPage /\ next_seg = None)
  BY <1>1, PacketStartsSound
<1>2. CASE PacketFails
  BY <1>2, PacketFailsSound
<1>3. CASE TakeSegment
  BY <1>3, TakeSegmentSound
<1>4. CASE ContinueOnNextPage
  BY <1>4, ContinueSound
<1>5. CASE DeliverByte
  BY <1>5, DeliverByteSound
<1>6. CASE EndOfPacket
  BY <1>6, EndOfPacketSound
<1>7. CASE SkipSegment
  BY <1>7, SkipSegmentSound
<1>8. CASE UNCHANGED reader
  BY <1>8, StutterSound
<1>. QED BY <1>1, <1>2, <1>3, <1>4, <1>5, <1>6, <1>7, <1>8 DEF Get8

-----------------------------------------------------------------------------
\* Positions, and the windows of blocks.

\* A position may be reduced before something is added to it.
LEMMA ModuloOf ==
  ASSUME NEW W \in Nat \ {0}, NEW x \in Int
  PROVE  x % W \in 0 .. (W - 1) /\ x = W * (x \div W) + (x % W) /\ x \div W \in Int
OBVIOUS

LEMMA MultipleIsNone ==
  ASSUME NEW W \in Nat \ {0}, NEW k \in Int, NEW u \in 0 .. (W - 1), NEW v \in 0 .. (W - 1), u - v = W * k
  PROVE  u = v
<1>1. CASE k >= 1
  <2>1. W * k >= W
    BY <1>1
  <2>. QED BY <2>1
<1>2. CASE k <= -1
  <2>1. W * k <= -W
    BY <1>2
  <2>. QED BY <2>1
<1>3. CASE k = 0
  BY <1>3
<1>. QED BY <1>1, <1>2, <1>3

LEMMA ModuloOfSum ==
  ASSUME NEW W \in Nat \ {0}, NEW x \in Int, NEW y \in Int
  PROVE  ((x % W) + y) % W = (x + y) % W
<1>1. x % W \in Int
  BY ModuloOf
<1>. DEFINE z == (x % W) + y
            k == (x + y) \div W - x \div W - z \div W
<1>2. /\ x = W * (x \div W) + (x % W) /\ x \div W \in Int
      /\ z = W * (z \div W) + (z % W) /\ z \div W \in Int /\ z % W \in 0 .. (W - 1)
      /\ x + y = W * ((x + y) \div W) + ((x + y) % W) /\ (x + y) \div W \in Int /\ (x + y) % W \in 0 .. (W - 1)
  <2>1. z \in Int /\ x + y \in Int
    BY <1>1
  <2>. HIDE DEF z
  <2>. QED BY <2>1, ModuloOf
<1>. DEFINE q1 == x \div W  q2 == z \div W  q3 == (x + y) \div W
<1>3. W * (q3 - q1 - q2) = W * q3 - W * q1 - W * q2
  <2>. HIDE DEF q1, q2, q3, z
  <2>1. q1 \in Int /\ q2 \in Int /\ q3 \in Int
    BY <1>2 DEF q1, q2, q3
  <2>. QED BY <2>1
<1>4. (z % W) - ((x + y) % W) = W * k
  BY <1>2, <1>3
<1>5. k \in Int
  <2>. HIDE DEF z
  <2>. QED BY <1>2
<1>6. z % W = (x + y) % W
  <2>. HIDE DEF z, k
  <2>. QED BY <1>2, <1>4, <1>5, MultipleIsNone
<1>. QED BY <1>6

LEMMA ModuloOfSmall ==
  ASSUME NEW W \in Nat \ {0}, NEW x \in 0 .. (W - 1)
  PROVE  x % W = x
<1>1. x - (x % W) = W * (x \div W) /\ x % W \in 0 .. (W - 1) /\ x \div W \in Int
  <2>1. x \in Int
    OBVIOUS
  <2>2. x = W * (x \div W) + (x % W) /\ x % W \in 0 .. (W - 1) /\ x \div W \in Int
    BY <2>1, ModuloOf
  <2>3. W * (x \div W) \in Int
    BY <2>2
  <2>. QED BY <2>1, <2>2, <2>3
<1>. QED BY <1>1, MultipleIsNone

\* The sizes are four times something.
LEMMA Quarters ==
  \E u, v \in Nat : /\ blocksize_0 = 4 * u /\ blocksize_1 = 4 * v /\ 0 < u /\ u <= v
<1>1. /\ blocksize_0 \in Nat /\ blocksize_1 \in Nat /\ blocksize_0 % 4 = 0 /\ blocksize_1 % 4 = 0
      /\ 0 < blocksize_0 /\ blocksize_0 <= blocksize_1
  BY BlocksizeAssumption
<1>2. blocksize_0 \div 4 \in Nat /\ blocksize_1 \div 4 \in Nat
  BY <1>1
<1>3. /\ blocksize_0 = 4 * (blocksize_0 \div 4) /\ blocksize_1 = 4 * (blocksize_1 \div 4)
      /\ 0 < blocksize_0 \div 4 /\ blocksize_0 \div 4 <= blocksize_1 \div 4
  BY <1>1
<1>. QED BY <1>2, <1>3

\* The windows of a block, in quarters of the short one (u) and of the long (v).
LEMMA WindowsIn ==
  ASSUME NEW u \in Nat, NEW v \in Nat, blocksize_0 = 4 * u, blocksize_1 = 4 * v, NEW b
  PROVE  /\ b.kind # "long" =>
              /\ Size(b) = 4 * u /\ Size(b) \div 2 = 2 * u /\ Size(b) \div 4 = u
              /\ LeftStart(b) = 0 /\ LeftEnd(b) = 2 * u /\ RightStart(b) = 2 * u /\ RightEnd(b) = 4 * u
         /\ b.kind = "long" =>
              /\ Size(b) = 4 * v /\ Size(b) \div 2 = 2 * v /\ Size(b) \div 4 = v
              /\ b.prev => LeftStart(b) = 0 /\ LeftEnd(b) = 2 * v
              /\ ~b.prev => LeftStart(b) = v - u /\ LeftEnd(b) = v + u
              /\ b.next => RightStart(b) = 2 * v /\ RightEnd(b) = 4 * v
              /\ ~b.next => RightStart(b) = 3 * v - u /\ RightEnd(b) = 3 * v + u
<1>1. b.kind # "long" =>
        /\ Size(b) = 4 * u /\ LeftStart(b) = 0 /\ LeftEnd(b) = Size(b) \div 2
        /\ RightStart(b) = Size(b) \div 2 /\ RightEnd(b) = Size(b)
  BY DEF Size, LeftStart, LeftEnd, RightStart, RightEnd
<1>2. b.kind = "long" =>
        /\ Size(b) = 4 * v
        /\ b.prev => LeftStart(b) = 0 /\ LeftEnd(b) = Size(b) \div 2
        /\ ~b.prev => LeftStart(b) = (Size(b) - 4 * u) \div 4 /\ LeftEnd(b) = (Size(b) + 4 * u) \div 4
        /\ b.next => RightStart(b) = Size(b) \div 2 /\ RightEnd(b) = Size(b)
        /\ ~b.next => RightStart(b) = (3 * Size(b) - 4 * u) \div 4 /\ RightEnd(b) = (3 * Size(b) + 4 * u) \div 4
  BY DEF Size, LeftStart, LeftEnd, RightStart, RightEnd
<1>3. /\ (4 * u) \div 2 = 2 * u /\ (4 * u) \div 4 = u /\ (4 * v) \div 2 = 2 * v /\ (4 * v) \div 4 = v
      /\ (4 * v - 4 * u) \div 4 = v - u /\ (4 * v + 4 * u) \div 4 = v + u
      /\ (3 * (4 * v) - 4 * u) \div 4 = 3 * v - u /\ (3 * (4 * v) + 4 * u) \div 4 = 3 * v + u
  OBVIOUS
<1>. QED BY <1>1, <1>2, <1>3

\* A window begins before it ends, the left one before the right one.
LEMMA WindowFacts ==
  ASSUME NEW b
  PROVE  /\ Size(b) \in Nat /\ LeftStart(b) \in Nat /\ LeftEnd(b) \in Nat /\ RightStart(b) \in Nat /\ RightEnd(b) \in Nat
         /\ Size(b) \div 2 \in Nat /\ Size(b) \div 2 <= RightStart(b) /\ Size(b) \div 4 \in Nat
         /\ LeftStart(b) < RightStart(b) /\ RightStart(b) < RightEnd(b) /\ RightEnd(b) <= Size(b)
         /\ LeftStart(b) + LeftStart(b) <= Size(b) \div 2 /\ Size(b) <= blocksize_1
         /\ RightEnd(b) = Size(b) => RightStart(b) = Size(b) \div 2 /\ RightStart(b) + RightStart(b) = Size(b)
<1>1. PICK u, v \in Nat : blocksize_0 = 4 * u /\ blocksize_1 = 4 * v /\ 0 < u /\ u <= v
  BY Quarters
<1>2. CASE b.kind # "long"
  <2>1. /\ Size(b) = 4 * u /\ Size(b) \div 2 = 2 * u /\ Size(b) \div 4 = u
        /\ LeftStart(b) = 0 /\ LeftEnd(b) = 2 * u /\ RightStart(b) = 2 * u /\ RightEnd(b) = 4 * u
    BY <1>1, <1>2, WindowsIn
  <2>. QED BY <1>1, <2>1
<1>3. CASE b.kind = "long"
  <2>1. /\ Size(b) = 4 * v /\ Size(b) \div 2 = 2 * v /\ Size(b) \div 4 = v
        /\ \/ LeftStart(b) = 0 /\ LeftEnd(b) = 2 * v
           \/ LeftStart(b) = v - u /\ LeftEnd(b) = v + u
        /\ \/ RightStart(b) = 2 * v /\ RightEnd(b) = 4 * v
           \/ RightStart(b) = 3 * v - u /\ RightEnd(b) = 3 * v + u
    BY <1>1, <1>3, WindowsIn
  <2>. QED BY <1>1, <2>1
<1>. QED BY <1>2, <1>3

\* Of neighbours, the right window of one is as wide as the left window of the
\* other, and what lies between them is a quarter of each.
LEMMA WindowsMeet ==
  ASSUME NEW a, NEW b, InStep(a, b), a.kind \in {"short", "long"}, b.kind \in {"short", "long"}, a.tells \in Nat
  PROVE  /\ RightEnd(a) - RightStart(a) = LeftEnd(b) - LeftStart(b)
         /\ a.tells + RightStart(a) - Size(a) \div 2 + (RightStart(b) - LeftStart(b))
              = b.tells + RightStart(b) - Size(b) \div 2
<1>1. PICK u, v \in Nat : blocksize_0 = 4 * u /\ blocksize_1 = 4 * v /\ 0 < u /\ u <= v
  BY Quarters
<1>2. b.tells = a.tells + Size(a) \div 4 + Size(b) \div 4
  BY DEF InStep
<1>. DEFINE t == a.tells  s == b.tells
<1>3. t \in Nat /\ s = t + Size(a) \div 4 + Size(b) \div 4
  BY <1>2
<1>. HIDE DEF t, s
<1>4. SUFFICES /\ RightEnd(a) - RightStart(a) = LeftEnd(b) - LeftStart(b)
               /\ t + RightStart(a) - Size(a) \div 2 + (RightStart(b) - LeftStart(b))
                    = s + RightStart(b) - Size(b) \div 2
  BY DEF t, s
<1>5. CASE a.kind # "long"
  <2>1. /\ Size(a) \div 2 = 2 * u /\ Size(a) \div 4 = u /\ RightStart(a) = 2 * u /\ RightEnd(a) = 4 * u
    BY <1>1, <1>5, WindowsIn
  <2>2. CASE b.kind # "long"
    <3>1. /\ Size(b) \div 2 = 2 * u /\ Size(b) \div 4 = u
          /\ LeftStart(b) = 0 /\ LeftEnd(b) = 2 * u /\ RightStart(b) = 2 * u
      BY <1>1, <2>2, WindowsIn
    <3>. QED BY <1>1, <1>3, <2>1, <3>1
  <2>3. CASE b.kind = "long"
    <3>1. ~b.prev
      BY <1>5, <2>3 DEF InStep
    <3>2. /\ Size(b) \div 2 = 2 * v /\ Size(b) \div 4 = v
          /\ LeftStart(b) = v - u /\ LeftEnd(b) = v + u
          /\ RightStart(b) = 2 * v \/ RightStart(b) = 3 * v - u
      BY <1>1, <2>3, <3>1, WindowsIn
    <3>. QED BY <1>1, <1>3, <2>1, <3>2
  <2>. QED BY <2>2, <2>3
<1>6. CASE a.kind = "long"
  <2>1. Size(a) \div 2 = 2 * v /\ Size(a) \div 4 = v
    BY <1>1, <1>6, WindowsIn
  <2>2. CASE b.kind # "long"
    <3>1. /\ Size(b) \div 2 = 2 * u /\ Size(b) \div 4 = u
          /\ LeftStart(b) = 0 /\ LeftEnd(b) = 2 * u /\ RightStart(b) = 2 * u
      BY <1>1, <2>2, WindowsIn
    <3>2. ~a.next
      <4>1. a.next = (b.kind = "long")
        BY <1>6 DEF InStep
      <4>. QED BY <2>2, <4>1, Zenon
    <3>3. RightStart(a) = 3 * v - u /\ RightEnd(a) = 3 * v + u
      <4>1. /\ a.next => RightStart(a) = 2 * v /\ RightEnd(a) = 4 * v
            /\ ~a.next => RightStart(a) = 3 * v - u /\ RightEnd(a) = 3 * v + u
        BY <1>1, <1>6, WindowsIn
      <4>. QED BY <3>2, <4>1
    <3>. QED BY <1>1, <1>3, <2>1, <3>1, <3>3
  <2>3. CASE b.kind = "long"
    <3>1. b.prev /\ a.next
      BY <1>6, <2>3 DEF InStep
    <3>2. /\ Size(b) \div 2 = 2 * v /\ Size(b) \div 4 = v
          /\ LeftStart(b) = 0 /\ LeftEnd(b) = 2 * v
          /\ RightStart(b) = 2 * v \/ RightStart(b) = 3 * v - u
      BY <1>1, <2>3, <3>1, WindowsIn
    <3>3. RightStart(a) = 2 * v /\ RightEnd(a) = 4 * v
      BY <1>1, <1>6, <3>1, WindowsIn
    <3>. QED BY <1>1, <1>3, <2>1, <3>2, <3>3
  <2>. QED BY <2>2, <2>3
<1>. QED BY <1>5, <1>6

-----------------------------------------------------------------------------
\* Frames within a stream as encoders write it.

\* The blocks that have been decoded.
Behind == {a \in Sounds(file) : Earlier(a, start) \/ (a = start /\ pc \in {"call", "done"})}

\* What is held and counted behind block b.
Stands(b) ==
  /\ previous_length = RightEnd(b) - RightStart(b)
  /\ even => /\ discard_samples_deferred = 0
             /\ samples_output = b.tells + RightStart(b) - Size(b) \div 2
             /\ current_loc = samples_output % Wrap

\* Where the decoder is in the stream.
Placed ==
  /\ ~skipped
  /\ caller \in {"setup", "pump", "frame"}
  /\ pc \in {"open", "call", "finish"} => eop
  /\ pc = "open" => page = 1 /\ next_seg = None /\ start = <<1, 0>>
  /\ pc = "comment" => start = <<2, 0>>
  /\ pc \in {"open", "comment"} => caller = "setup"
  /\ pc \in {"skip", "finish"} => caller # "setup"
  /\ pc = "done" => caller = "frame"
  /\ pc \in {"header", "type"} => start[1] = page
  /\ pc = "header" => /\ byte = <<>>
                      /\ \/ bytes_in_seg = 0 /\ ~last_seg /\ next_seg = start[2]
                         \/ bytes_in_seg = Segment(Here, start[2]) /\ Taken = start[2] + 1
  /\ pc = "type" => byte = <<page, Offset(Here, start[2])>>
  /\ pc \in {"comment", "skip"} \/ (pc \in {"body", "flush"} /\ caller = "setup") => start \notin Sounds(file)
  /\ pc = "finish" \/ (pc \in {"body", "flush"} /\ caller # "setup") =>
       start \in Sounds(file) /\ block = HeadOf(file, start)

\* What it has given out, up to the last of them.
LastIs(a) ==
  /\ \A c \in Behind : ~Earlier(a, c)
  /\ pc \notin {"body", "flush", "finish"} => block = HeadOf(file, a)
  /\ ~(pc \in {"call", "done"} /\ AtEnd) => Stands(HeadOf(file, a))

Counting ==
  /\ (caller = "frame") = ~first_decode
  /\ first_decode => Behind = {} /\ samples_output = 0 /\ previous_length = 0
  /\ ~first_decode => \E a \in Behind : LastIs(a)

\* It has not failed, nor stopped in another way before the end.
Runs == pc \notin {"failed", "aborted", "lengths"}

FrameInv == file[1].whole /\ Runs => Placed /\ Counting

LEMMA SoundIsStart ==
  ASSUME NEW f, NEW a \in Sounds(f)
  PROVE  a \in Starts(f) /\ HeadOf(f, a).kind \in {"short", "long"}
BY DEF Sounds

\* A stream that is at its end has ended with a block.
LEMMA EndIsSound ==
  ASSUME ReaderInv, WholeInv, file[1].whole, ~skipped, last_seg, AtEnd
  PROVE  /\ start \in Sounds(file) /\ file[Len(file)] = Here /\ Taken = Count(Here)
         /\ Here.loc # None /\ Here.loc <= HeadOf(file, start).tells
         /\ HeadOf(file, start).tells - Size(HeadOf(file, start)) \div 2 + LeftStart(HeadOf(file, start)) <= Here.loc
<1>1. /\ file \in Files /\ page = Len(file) /\ Taken = Count(Here) /\ Count(Here) \in Nat \ {0} /\ Here = file[Len(file)]
      /\ Len(file) \in Nat \ {0} /\ page \in 1 .. Len(file)
  BY SoundFacts DEF AtEnd, Here
<1>2. start \in Starts(file) /\ OnePacket(file, start[1], start[2], Len(file), Count(Here) - 1)
  BY <1>1 DEF WholeInv, Sound
<1>3. PICK a \in Sounds(file) :
        /\ OnePacket(file, a[1], a[2], Len(file), Count(Here) - 1)
        /\ Here.loc # None
        /\ Here.loc \in (HeadOf(file, a).tells - Size(HeadOf(file, a)) \div 2 + LeftStart(HeadOf(file, a))) .. HeadOf(file, a).tells
  <2>1. Closed(file)
    BY <1>1, EncodersAssumption
  <2>. QED BY <1>1, <2>1 DEF Closed
<1>4. a = start
  <2>1. Count(Here) - 1 \in Nat /\ Len(file) \in 1 .. Len(file)
    BY <1>1
  <2>. QED BY <1>1, <1>2, <1>3, <2>1, SoundIsStart, OnePacketOnly
<1>. QED BY <1>1, <1>3, <1>4

\* The position of a block is a number, behind the first pages.
LEMMA SoundIsCounted ==
  ASSUME NEW f \in Files, f[1].whole, NEW a \in Sounds(f)
  PROVE  HeadOf(f, a).tells \in Nat /\ Earlier(<<2, 0>>, a)
<1>1. Counted(f)
  BY EncodersAssumption
<1>. QED BY <1>1 DEF Counted

\* The frame layer reads on, and nothing is counted.
LEMMA SameCount ==
  ASSUME Counting, file' = file, start' = start, pc \notin {"call", "done"},
         pc' \in {"call", "done"} => start \notin Sounds(file),
         UNCHANGED <<first_decode, discard_samples_deferred, previous_length, current_loc, samples_output, even>>,
         (caller' = "frame") = (caller = "frame"),
         ~first_decode /\ pc' \notin {"body", "flush", "finish"} =>
           pc \notin {"body", "flush", "finish"} /\ block' = block
  PROVE  Counting'
<1>1. Behind' = Behind
  BY DEF Behind
<1>2. ASSUME ~first_decode, NEW a \in Behind, LastIs(a)
      PROVE  LastIs(a)'
  <2>1. Stands(HeadOf(file, a))
    BY <1>2 DEF LastIs
  <2>2. Stands(HeadOf(file, a))'
    BY <2>1 DEF Stands
  <2>. QED BY <1>1, <1>2, <2>2 DEF LastIs
<1>3. ~first_decode => \E a \in Behind' : LastIs(a)'
  BY <1>1, <1>2 DEF Counting
<1>. QED BY <1>1, <1>3 DEF Counting

\* A decoder within a stream as encoders write it.
InStream == ReaderInv /\ WholeInv /\ file[1].whole /\ Placed /\ Counting

LEMMA InStreamFacts ==
  ASSUME InStream
  PROVE  ReaderInv /\ WholeInv /\ file[1].whole /\ ~skipped /\ Sound /\ Placed /\ Counting /\ file \in Files
BY DEF InStream, WholeInv, Placed, ReaderInv, Books

LEMMA Get8Facts ==
  ASSUME Get8
  PROVE  file' = file /\ start' = start /\ skipped' = skipped
BY DEF Get8, TakeSegment, ContinueOnNextPage, DeliverByte, EndOfPacket

LEMMA NotBeforeItself ==
  ASSUME NEW a, NEW b, a[1] \in Nat, a[2] \in Nat, b[1] \in Nat, b[2] \in Nat
  PROVE  ~Earlier(a, a) /\ ~(Earlier(a, b) /\ Earlier(b, a))
BY DEF Earlier, Before

LEMMA OpenCounts ==
  ASSUME InStream, Open, Runs'
  PROVE  Placed' /\ Counting'
<1>1. pc = "open" /\ PacketStartsOnNewPage /\ Reads("comment")
  BY DEF Open, Reads, Runs
<1>2. file' = file /\ start' = <<page + 1, 0>> /\ skipped' = (skipped \/ ~eop) /\ pc' = "comment"
      /\ UNCHANGED <<caller, frame>>
  BY <1>1 DEF PacketStartsOnNewPage, Reads
<1>3. page = 1 /\ caller = "setup" /\ eop /\ ~skipped /\ file \in Files /\ file[1].whole
  BY <1>1, InStreamFacts DEF Placed
<1>4. start' = <<2, 0>> /\ ~skipped'
  <2>1. page + 1 = 2
    BY <1>3
  <2>. QED BY <1>2, <1>3, <2>1, Zenon
<1>5. \A a \in Sounds(file) : ~Earlier(a, <<2, 0>>) /\ a # <<2, 0>>
  <2>1. SUFFICES ASSUME NEW a \in Sounds(file) PROVE ~Earlier(a, <<2, 0>>) /\ a # <<2, 0>>
    OBVIOUS
  <2>2. Earlier(<<2, 0>>, a) /\ a[1] \in Nat /\ a[2] \in Nat
    BY <1>3, SoundIsCounted, SoundIsStart, StartFacts
  <2>. QED BY <2>2 DEF Earlier, Before
<1>6. Placed'
  BY <1>2, <1>3, <1>4, <1>5 DEF Placed
<1>7. Counting'
  <2>1. first_decode /\ samples_output = 0 /\ previous_length = 0
    BY <1>3, InStreamFacts DEF Counting
  <2>2. Behind' = {}
    BY <1>2, <1>4, <1>5 DEF Behind
  <2>. QED BY <1>2, <1>3, <2>1, <2>2 DEF Counting, frame
<1>. QED BY <1>6, <1>7

LEMMA SkipCommentCounts ==
  ASSUME InStream, SkipComment
  PROVE  Placed' /\ Counting'
<1>1. pc = "comment" /\ UNCHANGED <<caller, frame>> /\ pc' \in {"comment", "call"} /\ (pc' = "call" => eop')
      /\ file' = file /\ start' = start /\ skipped' = skipped
  BY Get8Facts DEF SkipComment, Reads, SkipSegment
<1>2. caller = "setup" /\ start \notin Sounds(file) /\ start = <<2, 0>> /\ ~skipped /\ Counting
  BY <1>1, InStreamFacts DEF Placed
<1>3. Placed'
  BY <1>1, <1>2 DEF Placed
<1>4. first_decode
  BY <1>2 DEF Counting
<1>5. Counting'
  BY <1>1, <1>2, <1>4, SameCount DEF frame
<1>. QED BY <1>3, <1>5

\* The next packet is the one behind this one.
LEMMA PacketStartsCounts ==
  ASSUME InStream, WholeInv', pc = "call", PacketStarts, Reads("header")
  PROVE  Placed' /\ Counting'
<1>1. /\ file' = file /\ last_seg' = FALSE /\ bytes_in_seg' = 0 /\ eop' = FALSE /\ byte' = <<>>
      /\ start' = <<page', next_seg'>> /\ skipped' = (skipped \/ ~eop)
      /\ pc' = "header" /\ UNCHANGED <<caller, frame>>
  BY DEF PacketStarts, Reads
<1>2. ReaderInv /\ WholeInv /\ file[1].whole /\ ~skipped /\ Sound /\ Placed /\ Counting /\ file \in Files /\ eop /\ last_seg
  BY InStreamFacts DEF Placed, Sound
<1>3. Placed'
  <2>1. caller \in {"setup", "pump", "frame"} /\ start'[1] = page' /\ start'[2] = next_seg' /\ ~skipped'
    BY <1>1, <1>2 DEF Placed
  <2>. QED BY <1>1, <2>1 DEF Placed
<1>4. /\ start[1] \in Nat /\ start[2] \in Nat /\ page \in 1 .. Len(file) /\ page \in Nat
      /\ Taken \in 0 .. Count(Here) /\ Count(Here) \in Nat \ {0} /\ start \in Starts(file)
      /\ Taken > 0 /\ Taken - 1 \in Nat /\ OnePacket(file, start[1], start[2], page, Taken - 1)
      /\ Len(file) \in Nat
  BY <1>2, SoundFacts DEF Sound
<1>5. /\ ~AtEnd
      /\ \/ start' = <<page, Taken>>
         \/ start' = <<page + 1, 0>> /\ Taken = Count(Here)
  <2>1. CASE next_seg # None
    <3>1. start' = <<page, next_seg>> /\ Taken = next_seg
      BY <1>1, <1>2, <2>1, SoundFacts DEF PacketStarts
    <3>. QED BY <2>1, <3>1 DEF AtEnd
  <2>2. CASE next_seg = None
    <3>1. StartPage /\ next_seg' = 0
      BY <2>2 DEF PacketStarts
    <3>2. page' = page + 1 /\ page < Len(file) /\ Taken = Count(Here)
      BY <1>1, <1>2, <2>2, <3>1, SoundPage, SoundFacts
    <3>. QED BY <1>1, <1>4, <3>1, <3>2 DEF AtEnd
  <2>. QED BY <2>1, <2>2
<1>6. ASSUME NEW c \in Sounds(file) PROVE Earlier(c, start') <=> Earlier(c, start) \/ c = start
  <2>1. /\ c \in Starts(file) /\ c[1] \in 1 .. Len(file) /\ c[1] \in Nat /\ c[2] \in Nat /\ c = <<c[1], c[2]>>
        /\ c[2] \in 0 .. (Count(file[c[1]]) - 1) /\ start = <<start[1], start[2]>>
    BY <1>2, <1>4, SoundIsStart, StartFacts
  <2>2. Earlier(start, start')
    <3>1. ~Before(page, Taken - 1, start[1], start[2])
      BY <1>4 DEF OnePacket
    <3>. QED BY <1>4, <1>5, <3>1 DEF Earlier, Before
  <2>3. ASSUME Earlier(c, start) PROVE Earlier(c, start')
    <3>1. start'[1] \in Nat /\ start'[2] \in Nat
      BY <1>4, <1>5
    <3>. QED BY <1>4, <2>1, <2>2, <2>3, <3>1 DEF Earlier, Before
  <2>4. ASSUME Earlier(start, c) PROVE ~Earlier(c, start')
    <3>1. Before(page, Taken - 1, c[1], c[2])
      BY <1>2, <1>4, <2>1, <2>4, NoneBetween
    <3>2. CASE start' = <<page, Taken>>
      BY <1>4, <2>1, <3>1, <3>2 DEF Earlier, Before
    <3>3. CASE start' = <<page + 1, 0>> /\ Taken = Count(Here)
      <4>1. c[1] = page => c[2] < Taken
        BY <1>4, <2>1, <3>3 DEF Here
      <4>. QED BY <1>4, <2>1, <3>1, <3>3, <4>1 DEF Earlier, Before
    <3>. QED BY <1>5, <3>2, <3>3
  <2>. QED BY <1>2, <1>4, <2>1, <2>2, <2>3, <2>4, OneIsEarlier
<1>7. Behind' = Behind
  <2>1. Behind = {a \in Sounds(file) : Earlier(a, start) \/ a = start}
    BY DEF Behind
  <2>2. Behind' = {a \in Sounds(file) : Earlier(a, start')}
    BY <1>1 DEF Behind
  <2>. QED BY <1>6, <2>1, <2>2
<1>8. ASSUME NEW a \in Behind, LastIs(a) PROVE LastIs(a)'
  <2>1. Stands(HeadOf(file, a)) /\ block = HeadOf(file, a)
    BY <1>5, <1>8 DEF LastIs
  <2>2. Stands(HeadOf(file, a))'
    BY <1>1, <2>1 DEF Stands, frame
  <2>. QED BY <1>1, <1>7, <1>8, <2>1, <2>2 DEF LastIs, frame
<1>9. Counting'
  <2>1. first_decode' = first_decode /\ caller' = caller /\ samples_output' = samples_output /\ previous_length' = previous_length
    BY <1>1 DEF frame
  <2>2. ~first_decode => \E a \in Behind' : LastIs(a)'
    BY <1>2, <1>7, <1>8 DEF Counting
  <2>. QED BY <1>2, <1>7, <2>1, <2>2 DEF Counting
<1>. QED BY <1>3, <1>9

\* There is no next packet only when the stream is at its end, and then all of it
\* has been decoded.
LEMMA NoFrameCounts ==
  ASSUME InStream, pc = "call", caller # "setup", AtEnd, NoFrame, eop', ~skipped',
         UNCHANGED <<file, page, next_seg, start>>
  PROVE  Placed' /\ Counting' /\ caller = "frame" /\ pc' \in {"call", "done"} /\ samples_output' = samples_output
         /\ block' = block /\ even' = even
<1>1. ReaderInv /\ WholeInv /\ file[1].whole /\ ~skipped /\ Sound /\ Placed /\ Counting /\ eop /\ last_seg
  BY InStreamFacts DEF Placed, Sound
<1>2. start \in Sounds(file)
  BY <1>1, EndIsSound
<1>3. start \in Behind
  BY <1>2 DEF Behind
<1>4. caller = "frame" /\ ~first_decode
  BY <1>1, <1>3 DEF Counting
<1>5. /\ caller' = "frame"
      /\ UNCHANGED <<block, first_decode, discard_samples_deferred, previous_length,
                     current_loc, samples_output, even>>
      /\ pc' \in {"call", "done"}
  BY DEF NoFrame, Returns
<1>6. Placed'
  BY <1>5 DEF Placed
<1>7. Behind' = Behind /\ AtEnd'
  BY <1>5 DEF Behind, AtEnd
<1>8. ASSUME NEW a \in Behind, LastIs(a) PROVE LastIs(a)'
  BY <1>5, <1>7, <1>8 DEF LastIs
<1>9. Counting'
  BY <1>1, <1>4, <1>5, <1>7, <1>8 DEF Counting
<1>. QED BY <1>4, <1>5, <1>6, <1>9

LEMMA NextPacketCounts ==
  ASSUME InStream, WholeInv', NextPacket, Runs'
  PROVE  Placed' /\ Counting'
<1>1. pc = "call"
  BY DEF NextPacket
<1>2. CASE PacketStarts /\ Reads("header")
  BY <1>1, <1>2, PacketStartsCounts
<1>3. CASE PacketFails /\ (IF caller = "setup" THEN Reads("failed") ELSE NoFrame)
  <2>1. caller # "setup" /\ NoFrame /\ next_seg = None
    BY <1>3 DEF Reads, PacketFails, Runs
  <2>2. ReaderInv /\ WholeInv /\ file[1].whole /\ ~skipped /\ eop
    BY <1>1, InStreamFacts DEF Placed
  <2>3. /\ page = Len(file) /\ page' = page /\ ~skipped' /\ eop'
        /\ UNCHANGED <<file, next_seg, last_seg, bytes_in_seg, start>>
    BY <1>3, <2>2, PacketFailsSound
  <2>4. AtEnd
    BY <2>1, <2>3 DEF AtEnd
  <2>. QED BY <1>1, <2>1, <2>3, <2>4, NoFrameCounts
<1>. QED BY <1>2, <1>3 DEF NextPacket

LEMMA EndOfFileCounts ==
  ASSUME InStream, EndOfFile
  PROVE  Placed' /\ Counting'
<1>1. pc = "call" /\ caller # "setup" /\ eof /\ NoFrame
      /\ UNCHANGED <<file, page, next_seg, start>> /\ eop' = eop /\ skipped' = skipped
  BY DEF EndOfFile, reader
<1>2. AtEnd /\ eop /\ ~skipped
  BY <1>1, InStreamFacts DEF Sound, Placed
<1>. QED BY <1>1, <1>2, NoFrameCounts

LEMMA FirstByteCounts ==
  ASSUME InStream, FirstByte
  PROVE  Placed' /\ Counting'
<1>1. pc = "header" /\ Get8 /\ pc' = (IF eop' \/ bytes_in_seg' < bytes_in_seg THEN "type" ELSE "header")
      /\ UNCHANGED <<caller, frame>> /\ file' = file /\ start' = start /\ skipped' = skipped
  BY Get8Facts DEF FirstByte, Reads
<1>2. ReaderInv /\ WholeInv /\ file[1].whole /\ ~skipped /\ Sound /\ Placed /\ Counting /\ file \in Files
  BY InStreamFacts
<1>3. /\ start[1] = page /\ byte = <<>> /\ caller \in {"setup", "pump", "frame"}
      /\ \/ bytes_in_seg = 0 /\ ~last_seg /\ next_seg = start[2]
         \/ bytes_in_seg = Segment(Here, start[2]) /\ Taken = start[2] + 1
  BY <1>1, <1>2 DEF Placed
<1>4. /\ start[2] \in Nat /\ start[2] \in 0 .. (Count(Here) - 1) /\ start \in Starts(file) /\ page \in 1 .. Len(file)
      /\ Count(Here) \in Nat /\ at \in Nat /\ bytes_in_seg \in Nat
  BY <1>2, <1>3, SoundFacts DEF Sound, Here
<1>5. /\ Segment(Here, start[2]) > 0 /\ Segment(Here, start[2]) \in Nat
      /\ Segment(Here, start[2]) = Offset(Here, start[2] + 1) - Offset(Here, start[2])
      /\ Offset(Here, start[2]) \in Nat /\ Offset(Here, start[2] + 1) \in Nat
  <2>1. Bound(file)
    BY <1>2, EncodersAssumption
  <2>2. Segment(file[start[1]], start[2]) > 0
    BY <1>4, <2>1 DEF Bound
  <2>3. start[2] \in 0 .. Count(Here) /\ start[2] + 1 \in 0 .. Count(Here)
    BY <1>4
  <2>4. \A s \in 0 .. Count(Here) : Offset(Here, s) \in Nat
    BY <1>2, <1>4, PageFacts DEF Here
  <2>5. \A s \in 0 .. (Count(Here) - 1) : Segment(Here, s) \in Nat /\ Segment(Here, s) = Offset(Here, s + 1) - Offset(Here, s)
    BY <1>2, <1>4, PageFacts DEF Here
  <2>. QED BY <1>3, <1>4, <2>2, <2>3, <2>4, <2>5 DEF Here
<1>6. CASE bytes_in_seg = 0 /\ ~last_seg /\ next_seg = start[2]
  <2>1. next_seg # None
    BY <1>4, <1>6 DEF None
  <2>2. TakeSegment
    BY <1>1, <1>6, <2>1 DEF Get8, ContinueOnNextPage, DeliverByte, EndOfPacket
  <2>3. /\ bytes_in_seg' = Segment(Here, start[2]) /\ eop' = (Segment(Here, start[2]) = 0)
        /\ page' = page /\ Here' = Here /\ byte' = byte
        /\ next_seg' = IF next_seg + 1 = Count(Here) THEN None ELSE next_seg + 1
    BY <1>1, <1>6, <2>2 DEF TakeSegment, BehindSegment, Here
  <2>4. Taken' = start[2] + 1
    BY <1>4, <1>6, <2>3 DEF Taken, None
  <2>5. pc' = "header"
    <3>1. ~(Segment(Here, start[2]) = 0) /\ ~(bytes_in_seg' < bytes_in_seg)
      BY <1>4, <1>5, <1>6, <2>3
    <3>. QED BY <1>1, <2>3, <3>1
  <2>. QED BY <1>1, <1>2, <1>3, <2>3, <2>4, <2>5, SameCount DEF Placed, frame
<1>7. CASE bytes_in_seg = Segment(Here, start[2]) /\ Taken = start[2] + 1
  <2>1. bytes_in_seg > 0
    BY <1>5, <1>7
  <2>2. DeliverByte
    BY <1>1, <1>4, <2>1 DEF Get8, ContinueOnNextPage, TakeSegment, EndOfPacket
  <2>3. byte' = <<page, at>> /\ page' = page /\ Here' = Here /\ bytes_in_seg' = bytes_in_seg - 1
    BY <1>2, <2>2, DeliverByteSound DEF DeliverByte, Here
  <2>4. at = Offset(Here, start[2])
    <3>1. at + bytes_in_seg = Offset(Here, start[2] + 1)
      BY <1>2, <1>7 DEF Sound
    <3>. QED BY <1>4, <1>5, <1>7, <3>1
  <2>5. pc' = "type"
    <3>1. bytes_in_seg' < bytes_in_seg
      BY <1>4, <2>3
    <3>. QED BY <1>1, <3>1
  <2>. QED BY <1>1, <1>2, <1>3, <2>3, <2>4, <2>5, SameCount DEF Placed, frame
<1>. QED BY <1>3, <1>6, <1>7

\* The first byte of a packet says what the packet is.
LEMMA OneMeaning ==
  ASSUME InStream, pc = "type"
  PROVE  Meanings = {HeadOf(file, start)} /\ HeadOf(file, start).kind \in {"other", "setup", "short", "long"}
         /\ start \in Starts(file)
<1>. DEFINE o == start[2]
            begins == {s \in 0 .. (Count(Here) - 1) : byte = <<page, Offset(Here, s)>> /\ Segment(Here, s) > 0
                                                     /\ Here.heads[s + 1].kind # "none"}
<1>1. ReaderInv /\ WholeInv /\ file[1].whole /\ ~skipped /\ Sound /\ Placed /\ file \in Files
  BY InStreamFacts
<1>2. start[1] = page /\ byte = <<page, Offset(Here, o)>>
  BY <1>1 DEF Placed
<1>3. /\ o \in 0 .. (Count(Here) - 1) /\ start \in Starts(file) /\ page \in 1 .. Len(file)
      /\ Count(Here) \in Nat /\ Here = file[page]
  BY <1>1, <1>2, SoundFacts DEF Sound, Here
<1>4. /\ Segment(Here, o) > 0 /\ HeadOf(file, start).kind \in {"other", "setup", "short", "long"}
      /\ HeadOf(file, start) = Here.heads[o + 1]
  <2>1. Bound(file)
    BY <1>1, EncodersAssumption
  <2>. QED BY <1>2, <1>3, <2>1 DEF Bound, HeadOf
<1>5. o \in begins
  BY <1>2, <1>3, <1>4
<1>6. ASSUME NEW s \in begins PROVE s = o
  <2>1. s \in 0 .. (Count(Here) - 1) /\ Offset(Here, s) = Offset(Here, o) /\ Segment(Here, s) > 0
    BY <1>2
  <2>2. ASSUME NEW x \in 0 .. (Count(Here) - 1), NEW y \in 0 .. (Count(Here) - 1), x < y, Segment(Here, x) > 0
        PROVE  Offset(Here, x) # Offset(Here, y)
    <3>1. x + 1 \in 0 .. Count(Here) /\ y \in 0 .. Count(Here) /\ x + 1 <= y /\ x \in 0 .. Count(Here)
      BY <1>3, <2>2
    <3>2. Offset(Here, x + 1) <= Offset(Here, y)
      BY <1>1, <1>3, <3>1, OffsetsGrow
    <3>3. Segment(Here, x) = Offset(Here, x + 1) - Offset(Here, x)
      BY <1>1, <1>3, PageFacts
    <3>4. Offset(Here, x) \in Nat /\ Offset(Here, x + 1) \in Nat /\ Offset(Here, y) \in Nat
      <4>1. \A u \in 0 .. Count(Here) : Offset(Here, u) \in Nat
        BY <1>1, <1>3, PageFacts
      <4>. QED BY <3>1, <4>1
    <3>. QED BY <2>2, <3>2, <3>3, <3>4
  <2>3. s < o \/ o < s \/ s = o
    BY <1>3, <2>1
  <2>. QED BY <1>3, <1>4, <2>1, <2>2, <2>3
<1>7. begins = {o}
  BY <1>5, <1>6
<1>8. {Here.heads[s + 1] : s \in begins} = {HeadOf(file, start)}
  <2>. HIDE DEF begins
  <2>. QED BY <1>4, <1>7
<1>9. Meanings = {Here.heads[s + 1] : s \in begins}
  <2>1. byte # <<>>
    <3>. HIDE DEF o
    <3>. QED BY <1>2
  <2>2. begins # {}
    BY <1>5
  <2>. DEFINE unread == {Packet(k, FALSE, FALSE, Unknown) : k \in {"short", "long"}}
              said == {Here.heads[s + 1] : s \in begins}
              any == {Packet("other", FALSE, FALSE, Unknown), Packet("bad", FALSE, FALSE, Unknown)}
                     \cup {Packet(k, p, n, Unknown) : k \in {"short", "long"}, p \in BOOLEAN, n \in BOOLEAN}
  <2>3. Meanings = IF byte = <<>> THEN unread ELSE IF begins # {} THEN said ELSE any
    BY DEF Meanings
  <2>. HIDE DEF begins, unread, any, said
  <2>4. Meanings = said
    BY <2>1, <2>2, <2>3
  <2>. QED BY <2>4 DEF said
<1>. QED BY <1>3, <1>4, <1>8, <1>9

LEMMA PacketTypeCounts ==
  ASSUME InStream, PacketType, Runs'
  PROVE  Placed' /\ Counting'
<1>1. pc = "type" /\ file' = file /\ start' = start /\ skipped' = skipped
  BY DEF PacketType, reader
<1>2. ~skipped /\ Placed /\ Counting /\ caller \in {"setup", "pump", "frame"}
  BY InStreamFacts DEF Placed
<1>. DEFINE m == HeadOf(file, start)
<1>3. Meanings = {m} /\ m.kind \in {"other", "setup", "short", "long"} /\ start \in Starts(file)
  BY <1>1, OneMeaning
<1>4. \/ caller = "setup" /\ m.kind = "setup" /\ Reads("body")
      \/ caller # "setup" /\ m.kind \in {"setup", "other"} /\ Reads("skip")
      \/ /\ caller # "setup" /\ m.kind \in {"short", "long"}
         /\ block' = m /\ pc' = "body"
         /\ UNCHANGED <<caller, first_decode, discard_samples_deferred, previous_length,
                        current_loc, samples_output, data_len, total, even>>
  BY <1>3 DEF PacketType, Reads, Runs
<1>5. CASE caller = "setup" /\ m.kind = "setup" /\ Reads("body")
  <2>1. start \notin Sounds(file) /\ pc' = "body" /\ UNCHANGED <<caller, frame>>
    BY <1>5 DEF Sounds, Reads
  <2>2. Placed'
    BY <1>1, <1>2, <1>5, <2>1 DEF Placed
  <2>. QED BY <1>1, <1>2, <2>1, <2>2, SameCount DEF frame
<1>6. CASE caller # "setup" /\ m.kind \in {"setup", "other"} /\ Reads("skip")
  <2>1. start \notin Sounds(file) /\ pc' = "skip" /\ UNCHANGED <<caller, frame>>
    BY <1>6 DEF Sounds, Reads
  <2>2. Placed'
    BY <1>1, <1>2, <1>6, <2>1 DEF Placed
  <2>. QED BY <1>1, <1>2, <2>1, <2>2, SameCount DEF frame
<1>7. CASE /\ caller # "setup" /\ m.kind \in {"short", "long"}
           /\ block' = m /\ pc' = "body"
           /\ UNCHANGED <<caller, first_decode, discard_samples_deferred, previous_length,
                          current_loc, samples_output, data_len, total, even>>
  <2>1. start \in Sounds(file)
    BY <1>3, <1>7 DEF Sounds
  <2>2. Placed'
    BY <1>1, <1>2, <1>7, <2>1 DEF Placed
  <2>. QED BY <1>1, <1>2, <1>7, <2>2, SameCount
<1>. QED BY <1>4, <1>5, <1>6, <1>7

LEMMA SkipPacketCounts ==
  ASSUME InStream, SkipPacket
  PROVE  Placed' /\ Counting'
<1>1. pc = "skip" /\ UNCHANGED <<caller, frame>> /\ pc' \in {"skip", "call"} /\ (pc' = "call" => eop')
      /\ file' = file /\ start' = start /\ skipped' = skipped
  BY Get8Facts DEF SkipPacket, Reads
<1>2. caller \in {"pump", "frame"} /\ start \notin Sounds(file) /\ ~skipped /\ Counting
  BY <1>1, InStreamFacts DEF Placed
<1>3. Placed'
  BY <1>1, <1>2 DEF Placed
<1>. QED BY <1>1, <1>2, <1>3, SameCount DEF frame

LEMMA ReadPacketCounts ==
  ASSUME InStream, ReadPacket
  PROVE  Placed' /\ Counting'
<1>1. pc = "body" /\ UNCHANGED <<caller, frame>> /\ pc' \in {"body", "flush"}
      /\ file' = file /\ start' = start /\ skipped' = skipped
  BY Get8Facts DEF ReadPacket, Reads, reader
<1>2. /\ ~skipped /\ Counting /\ caller \in {"setup", "pump", "frame"}
      /\ caller = "setup" => start \notin Sounds(file)
      /\ caller # "setup" => start \in Sounds(file) /\ block = HeadOf(file, start)
  BY <1>1, InStreamFacts DEF Placed
<1>3. Placed'
  BY <1>1, <1>2 DEF Placed, frame
<1>. QED BY <1>1, <1>2, <1>3, SameCount DEF frame

LEMMA FlushCounts ==
  ASSUME InStream, Flush
  PROVE  Placed' /\ Counting'
<1>1. /\ pc = "flush" /\ UNCHANGED frame
      /\ \/ eop' /\ caller = "setup" /\ caller' = "pump" /\ pc' = "call"
         \/ eop' /\ caller # "setup" /\ caller' = caller /\ pc' = "finish"
         \/ ~eop' /\ caller' = caller /\ pc' = "flush"
      /\ file' = file /\ start' = start /\ skipped' = skipped
  BY Get8Facts DEF Flush, Reads
<1>2. /\ ~skipped /\ Counting /\ caller \in {"setup", "pump", "frame"}
      /\ caller = "setup" => start \notin Sounds(file)
      /\ caller # "setup" => start \in Sounds(file) /\ block = HeadOf(file, start)
  BY <1>1, InStreamFacts DEF Placed
<1>3. caller = "setup" => first_decode
  BY <1>2 DEF Counting
<1>4. Placed'
  BY <1>1, <1>2 DEF Placed, frame
<1>. QED BY <1>1, <1>2, <1>3, <1>4, SameCount DEF frame

\* Where a frame is finished, and what the page says of it.
LEMMA FinishFacts ==
  ASSUME InStream, pc = "finish"
  PROVE  /\ caller \in {"pump", "frame"} /\ start \in Sounds(file) /\ block = HeadOf(file, start)
         /\ block.tells \in Nat /\ block.kind \in {"short", "long"} /\ eop /\ last_seg /\ ~skipped
         /\ Here.last /\ last_seg_which = end_seg_with_known_loc => AtEnd
         /\ last_seg_which = end_seg_with_known_loc /\ ~AtEnd => known_loc_for_packet = block.tells
         /\ AtEnd => /\ Here.last /\ LastEnding(Here) = Taken - 1
                     /\ LastEnding(Here) = 0 => last_seg_which # end_seg_with_known_loc
                     /\ LastEnding(Here) # 0 => /\ last_seg_which = end_seg_with_known_loc
                                                /\ known_loc_for_packet = Here.loc
<1>1. ReaderInv /\ WholeInv /\ file[1].whole /\ ~skipped /\ Sound /\ Placed /\ Counting /\ file \in Files /\ eop /\ last_seg
  BY InStreamFacts DEF Placed, Sound
<1>2. caller \in {"pump", "frame"} /\ start \in Sounds(file) /\ block = HeadOf(file, start)
  BY <1>1 DEF Placed
<1>3. block.tells \in Nat /\ block.kind \in {"short", "long"} /\ Earlier(<<2, 0>>, start) /\ start \in Starts(file)
  BY <1>1, <1>2, SoundIsCounted, SoundIsStart
<1>4. /\ page \in 1 .. Len(file) /\ page \in Nat /\ Len(file) \in Nat \ {0} /\ Count(Here) \in Nat \ {0}
      /\ Taken \in 0 .. Count(Here) /\ start[1] \in 1 .. page /\ start[1] \in Nat /\ start[2] \in Nat
      /\ next_seg # None => Taken = next_seg /\ next_seg \in 0 .. (Count(Here) - 1)
      /\ next_seg = None => Taken = Count(Here)
  BY <1>1, SoundFacts
<1>5. /\ Taken > 0 /\ last_seg_which = Taken - 1 /\ OnePacket(file, start[1], start[2], page, Taken - 1)
      /\ Taken - 1 \in Nat
  BY <1>1, <1>4 DEF Sound
<1>6. page # 1
  <2>1. start[1] >= 2
    BY <1>3, <1>4 DEF Earlier, Before
  <2>. QED BY <1>4, <2>1
<1>7. /\ end_seg_with_known_loc = KnownSegment(Here)
      /\ end_seg_with_known_loc # Unknown => known_loc_for_packet = Here.loc
  BY <1>1, <1>6 DEF Sound
<1>8. last_seg_which # Unknown
  BY <1>5 DEF Unknown
<1>9. KnownSegment(Here) # Unknown => KnownSegment(Here) = LastEnding(Here)
  BY DEF KnownSegment
<1>10. Here.last = (page = Len(file)) /\ (page = Len(file) => Segment(Here, Count(Here) - 1) < Full) /\ Full \in Nat
  BY <1>1, <1>4, WholeFacts DEF Here
<1>11. page = Len(file) => LastEnding(Here) = Count(Here) - 1
  <2>. DEFINE n == Count(Here) - 1
              P(i) == /\ i = 0 \/ Segment(Here, i) < Full
                      /\ \A j \in (i + 1) .. n : Segment(Here, j) = Full
  <2>1. SUFFICES ASSUME page = Len(file) PROVE LastEnding(Here) = n
    OBVIOUS
  <2>2. n \in 0 .. n /\ P(n)
    <3>1. \A j \in (n + 1) .. n : FALSE
      BY <1>4
    <3>2. n \in 0 .. n /\ Segment(Here, n) < Full
      BY <1>4, <1>10, <2>1
    <3>. QED BY <3>1, <3>2
  <2>3. ASSUME NEW i \in 0 .. n, P(i) PROVE i = n
    <3>1. i # n => n \in (i + 1) .. n
      BY <1>4
    <3>2. Segment(Here, n) # Full
      BY <1>10, <2>1
    <3>. QED BY <2>3, <3>1, <3>2
  <2>4. LastEnding(Here) = CHOOSE i \in 0 .. n : P(i)
    BY DEF LastEnding
  <2>. HIDE DEF n, P
  <2>. QED BY <2>2, <2>3, <2>4
<1>12. page = Len(file) /\ Taken = Count(Here) => AtEnd
  BY <1>4 DEF AtEnd
<1>13. ASSUME Here.last, last_seg_which = end_seg_with_known_loc PROVE AtEnd
  <2>1. page = Len(file)
    BY <1>10, <1>13
  <2>2. Taken - 1 = Count(Here) - 1
    BY <1>5, <1>7, <1>8, <1>9, <1>11, <1>13, <2>1
  <2>3. Taken = Count(Here)
    BY <1>4, <2>2
  <2>. QED BY <1>12, <2>1, <2>3
<1>14. ASSUME last_seg_which = end_seg_with_known_loc, ~AtEnd PROVE known_loc_for_packet = block.tells
  <2>1. ~Here.last
    BY <1>13, <1>14
  <2>2. page # Len(file)
    BY <1>10, <2>1
  <2>3. page \in 1 .. (Len(file) - 1)
    BY <1>4, <2>2
  <2>4. Taken - 1 = LastEnding(Here) /\ KnownSegment(Here) # Unknown /\ known_loc_for_packet = Here.loc
    BY <1>5, <1>7, <1>8, <1>9, <1>14
  <2>5. Counted(file)
    BY <1>1, EncodersAssumption
  <2>6. file[page].loc = HeadOf(file, start).tells
    BY <1>2, <1>5, <2>3, <2>4, <2>5 DEF Counted, Here
  <2>. QED BY <1>2, <2>4, <2>6 DEF Here
<1>15. ASSUME AtEnd
       PROVE  /\ Here.last /\ LastEnding(Here) = Taken - 1
              /\ LastEnding(Here) = 0 => last_seg_which # end_seg_with_known_loc
              /\ LastEnding(Here) # 0 => /\ last_seg_which = end_seg_with_known_loc
                                         /\ known_loc_for_packet = Here.loc
  <2>1. page = Len(file) /\ Taken = Count(Here) /\ LastEnding(Here) = Taken - 1
    BY <1>4, <1>11, <1>15 DEF AtEnd
  <2>2. Here.last
    BY <1>10, <2>1
  <2>3. Here.loc # None
    BY <1>1, <1>15, EndIsSound
  <2>4. LastEnding(Here) = 0 => KnownSegment(Here) = Unknown
    BY DEF KnownSegment
  <2>5. LastEnding(Here) # 0 => KnownSegment(Here) = LastEnding(Here)
    BY <2>3 DEF KnownSegment
  <2>. QED BY <1>5, <1>7, <1>8, <2>1, <2>2, <2>4, <2>5
<1>. QED BY <1>1, <1>2, <1>3, <1>13, <1>14, <1>15

\* The block before this one, if any.
LEMMA Neighbours ==
  ASSUME InStream, pc = "finish"
  PROVE  /\ first_decode => block.tells = 0
         /\ \A a \in Behind : LastIs(a) => /\ InStep(HeadOf(file, a), block)
                                           /\ HeadOf(file, a).tells \in Nat
                                           /\ HeadOf(file, a).kind \in {"short", "long"}
<1>1. file \in Files /\ file[1].whole /\ Counting /\ start \in Sounds(file) /\ block = HeadOf(file, start)
  BY InStreamFacts, FinishFacts
<1>2. Counted(file)
  BY <1>1, EncodersAssumption
<1>3. Behind = {a \in Sounds(file) : Earlier(a, start)}
  BY DEF Behind
<1>4. ASSUME first_decode PROVE block.tells = 0
  <2>1. ~(\E a \in Sounds(file) : Earlier(a, start))
    BY <1>1, <1>3, <1>4 DEF Counting
  <2>. QED BY <1>1, <1>2, <2>1 DEF Counted
<1>5. ASSUME NEW a \in Behind, LastIs(a)
      PROVE  InStep(HeadOf(file, a), block)
  <2>1. a \in Sounds(file) /\ Earlier(a, start) /\ \A c \in Sounds(file) : ~(Earlier(a, c) /\ Earlier(c, start))
    BY <1>3, <1>5 DEF LastIs
  <2>. QED BY <1>1, <1>2, <2>1 DEF Counted
<1>6. ASSUME NEW a \in Behind
      PROVE  HeadOf(file, a).tells \in Nat /\ HeadOf(file, a).kind \in {"short", "long"}
  BY <1>1, <1>3, SoundIsCounted, SoundIsStart
<1>. QED BY <1>4, <1>5, <1>6

\* A block that is not the last is given out up to its right window.
LEMMA FinishValues ==
  ASSUME InStream, FinishFrame, ~AtEnd,
         NEW left, left = LeftStart(block) + (IF first_decode THEN 0 ELSE discard_samples_deferred)
  PROVE  /\ previous_length' = RightEnd(block) - RightStart(block)
         /\ samples_output' = samples_output + (IF previous_length = 0 THEN 0 ELSE RightStart(block) - left)
         /\ \/ current_loc' = (block.tells - (Size(block) \div 2 - left) + RightStart(block) - left) % Wrap
            \/ current_loc' = ((IF first_decode THEN (-(Size(block) \div 2)) % Wrap ELSE current_loc)
                               + RightStart(block) - left) % Wrap
         /\ Returns(IF previous_length = 0 THEN 0 ELSE RightStart(block) - left)
<1>. DEFINE n == Size(block)
            lf == LeftStart(block) + IF first_decode THEN 0 ELSE discard_samples_deferred
            right == RightStart(block)
            behind == n - RightEnd(block)
            loc == IF first_decode THEN (-(n \div 2)) % Wrap ELSE current_loc
            known == last_seg_which = end_seg_with_known_loc
            current_end == (known_loc_for_packet - behind) % Wrap
            truncates == known /\ Here.last /\ current_end < (loc + RightEnd(block)) % Wrap
            len == IF truncates THEN CutAt(lf, loc, current_end) ELSE RightEnd(block)
            out == IF previous_length = 0 THEN 0 ELSE Lesser(right, len) - lf
<1>1. /\ pc = "finish"
      /\ current_loc' = (IF truncates THEN loc + len
                         ELSE (IF known THEN LocationOf(n, lf) ELSE loc) + right - lf) % Wrap
      /\ previous_length' = len - right
      /\ samples_output' = samples_output + out
      /\ Returns(out)
  BY DEF FinishFrame
<1>2. /\ Here.last /\ known => AtEnd
      /\ known /\ ~AtEnd => known_loc_for_packet = block.tells
  BY <1>1, FinishFacts
<1>3. ~truncates /\ len = RightEnd(block)
  BY <1>2
<1>4. Lesser(right, len) = right
  BY <1>3, WindowFacts DEF Lesser
<1>5. lf = left
  OBVIOUS
<1>6. known => LocationOf(n, lf) = block.tells - (n \div 2 - lf)
  BY <1>2 DEF LocationOf
<1>. HIDE DEF truncates, known, len, lf
<1>. QED BY <1>1, <1>3, <1>4, <1>5, <1>6

\* What the frame before says, the frame says: the first frame.
LEMMA FirstFrameStands ==
  ASSUME InStream, FinishFrame, ~AtEnd, first_decode, NEW b, b = block
  PROVE  Stands(b)'
<1>. DEFINE left == LeftStart(b) + (IF first_decode THEN 0 ELSE discard_samples_deferred)
            half == Size(b) \div 2
<1>1. /\ even' = (LeftStart(block) = 0 /\ Size(block) - RightEnd(block) = 0)
      /\ discard_samples_deferred' = Size(block) - RightEnd(block)
  BY DEF FinishFrame
<1>2. samples_output = 0 /\ previous_length = 0 /\ b.tells = 0
  BY InStreamFacts, Neighbours DEF Counting, FinishFrame
<1>3. /\ LeftStart(b) \in Nat /\ RightStart(b) \in Nat /\ RightEnd(b) \in Nat /\ Size(b) \in Nat /\ half \in Nat
      /\ RightEnd(b) = Size(b) => RightStart(b) = half
  BY WindowFacts
<1>4. left = LeftStart(b)
  BY <1>3
<1>5. /\ previous_length' = RightEnd(b) - RightStart(b)
      /\ samples_output' = samples_output + 0
      /\ \/ current_loc' = (b.tells - (half - left) + RightStart(b) - left) % Wrap
         \/ current_loc' = (((-half) % Wrap) + RightStart(b) - left) % Wrap
  <2>. HIDE DEF left
  <2>1. left = LeftStart(block) + (IF first_decode THEN 0 ELSE discard_samples_deferred)
    BY DEF left
  <2>. QED BY <1>2, <2>1, FinishValues
<1>. HIDE DEF left, half
<1>6. ASSUME even'
      PROVE  /\ discard_samples_deferred' = 0
             /\ samples_output' = b.tells + RightStart(b) - half
             /\ current_loc' = samples_output' % Wrap
  <2>1. LeftStart(b) = 0 /\ Size(b) - RightEnd(b) = 0
    BY <1>1, <1>6
  <2>2. left = 0 /\ RightStart(b) = half /\ samples_output' = 0
    BY <1>2, <1>3, <1>4, <1>5, <2>1
  <2>3. Wrap \in Nat \ {0}
    BY BlocksizeAssumption
  <2>4. b.tells - (half - left) + RightStart(b) - left = 0
    BY <1>2, <1>3, <2>2
  <2>5. (((-half) % Wrap) + RightStart(b) - left) % Wrap = 0 % Wrap
    <3>1. -half \in Int /\ (-half) % Wrap \in Int
      BY <1>3, <2>3, ModuloOf
    <3>2. ((-half) % Wrap) + RightStart(b) - left = ((-half) % Wrap) + half
      BY <1>3, <2>2, <3>1
    <3>3. (((-half) % Wrap) + half) % Wrap = (-half + half) % Wrap
      <4>. DEFINE x == -half
      <4>1. x \in Int /\ half \in Int
        BY <1>3
      <4>. HIDE DEF x
      <4>2. ((x % Wrap) + half) % Wrap = (x + half) % Wrap
        BY <2>3, <4>1, ModuloOfSum
      <4>. QED BY <4>2 DEF x
    <3>. QED BY <1>3, <3>2, <3>3
  <2>. QED BY <1>1, <1>2, <1>3, <1>5, <2>1, <2>2, <2>4, <2>5
<1>. QED BY <1>5, <1>6 DEF Stands, half

\* And every other one.
LEMMA NextFrameStands ==
  ASSUME InStream, FinishFrame, ~AtEnd, ~first_decode, NEW b, b = block
  PROVE  Stands(b)' /\ (even => Returns(RightStart(b) - LeftStart(b)))
<1>. DEFINE left == LeftStart(b) + (IF first_decode THEN 0 ELSE discard_samples_deferred)
            half == Size(b) \div 2
<1>1. /\ even' = even /\ discard_samples_deferred' = 0 /\ pc = "finish"
  BY DEF FinishFrame
<1>2. PICK e \in Behind : LastIs(e)
  BY InStreamFacts DEF Counting
<1>3. /\ InStep(HeadOf(file, e), b) /\ HeadOf(file, e).tells \in Nat /\ HeadOf(file, e).kind \in {"short", "long"}
      /\ b.kind \in {"short", "long"} /\ b.tells \in Nat
  BY <1>1, <1>2, Neighbours, FinishFacts
<1>4. PICK a : a = HeadOf(file, e)
  OBVIOUS
<1>5. /\ RightEnd(a) - RightStart(a) = LeftEnd(b) - LeftStart(b)
      /\ a.tells + RightStart(a) - Size(a) \div 2 + (RightStart(b) - LeftStart(b))
           = b.tells + RightStart(b) - half
  BY <1>3, <1>4, WindowsMeet
<1>6. /\ previous_length = RightEnd(a) - RightStart(a)
      /\ even => /\ discard_samples_deferred = 0
                 /\ samples_output = a.tells + RightStart(a) - Size(a) \div 2
                 /\ current_loc = samples_output % Wrap
  BY <1>1, <1>2, <1>4 DEF LastIs, Stands
<1>7. /\ LeftStart(b) \in Nat /\ RightStart(b) \in Nat /\ Size(b) \in Nat /\ half \in Nat
      /\ RightStart(a) \in Nat /\ RightEnd(a) \in Nat /\ Size(a) \div 2 \in Nat /\ RightStart(a) < RightEnd(a)
      /\ a.tells \in Nat
  BY <1>3, <1>4, WindowFacts
<1>8. previous_length # 0
  BY <1>6, <1>7
<1>9. /\ previous_length' = RightEnd(b) - RightStart(b)
      /\ samples_output' = samples_output + (RightStart(b) - left)
      /\ \/ current_loc' = (b.tells - (half - left) + RightStart(b) - left) % Wrap
         \/ current_loc' = (current_loc + RightStart(b) - left) % Wrap
      /\ Returns(RightStart(b) - left)
  <2>. HIDE DEF left
  <2>1. left = LeftStart(block) + (IF first_decode THEN 0 ELSE discard_samples_deferred)
    BY DEF left
  <2>. QED BY <1>8, <2>1, FinishValues
<1>10. even => left = LeftStart(b)
  BY <1>6, <1>7
<1>. HIDE DEF left, half
<1>11. ASSUME even
       PROVE  /\ discard_samples_deferred' = 0
              /\ samples_output' = b.tells + RightStart(b) - half
              /\ current_loc' = samples_output' % Wrap
  <2>1. samples_output \in Int /\ samples_output = a.tells + RightStart(a) - Size(a) \div 2
    BY <1>6, <1>7, <1>11
  <2>2. samples_output' = b.tells + RightStart(b) - half
    BY <1>5, <1>9, <1>10, <1>11, <2>1
  <2>3. Wrap \in Nat \ {0}
    BY BlocksizeAssumption
  <2>4. b.tells - (half - left) + RightStart(b) - left = b.tells + RightStart(b) - half
    BY <1>3, <1>7, <1>10, <1>11
  <2>5. (current_loc + RightStart(b) - left) % Wrap = samples_output' % Wrap
    <3>. DEFINE y == RightStart(b) - LeftStart(b)
    <3>1. y \in Int /\ samples_output % Wrap \in Int
      <4>1. samples_output % Wrap \in 0 .. (Wrap - 1)
        BY <2>1, <2>3, ModuloOf
      <4>. QED BY <1>7, <4>1
    <3>2. current_loc + RightStart(b) - left = (samples_output % Wrap) + y
      BY <1>6, <1>7, <1>10, <1>11, <3>1
    <3>3. samples_output' = samples_output + y
      BY <1>9, <1>10, <1>11
    <3>. HIDE DEF y
    <3>4. ((samples_output % Wrap) + y) % Wrap = (samples_output + y) % Wrap
      BY <2>1, <2>3, <3>1, ModuloOfSum
    <3>. QED BY <3>2, <3>3, <3>4
  <2>. QED BY <1>1, <1>9, <2>2, <2>4, <2>5
<1>12. Stands(b)'
  BY <1>1, <1>9, <1>11 DEF Stands, half
<1>13. even => Returns(RightStart(b) - LeftStart(b))
  BY <1>9, <1>10
<1>. QED BY <1>12, <1>13

LEMMA FinishFrameCounts ==
  ASSUME InStream, FinishFrame
  PROVE  Placed' /\ Counting'
<1>1. /\ pc = "finish" /\ UNCHANGED <<reader, block>> /\ first_decode' = FALSE /\ caller' = "frame"
      /\ pc' \in {"call", "done"}
  BY DEF FinishFrame, Returns
<1>2. /\ start \in Sounds(file) /\ block = HeadOf(file, start) /\ eop /\ ~skipped /\ file \in Files
      /\ file' = file /\ start' = start /\ eop' = eop /\ skipped' = skipped /\ AtEnd' = AtEnd
  BY <1>1, FinishFacts, InStreamFacts DEF reader, AtEnd
<1>3. Placed'
  BY <1>1, <1>2 DEF Placed
<1>4. Behind' = {a \in Sounds(file) : Earlier(a, start) \/ a = start}
  BY <1>1, <1>2 DEF Behind
<1>5. \A c \in Behind' : ~Earlier(start, c)
  <2>1. SUFFICES ASSUME NEW c \in Sounds(file), Earlier(c, start) \/ c = start PROVE ~Earlier(start, c)
    BY <1>4
  <2>2. c[1] \in Nat /\ c[2] \in Nat /\ start[1] \in Nat /\ start[2] \in Nat
    BY <1>2, SoundIsStart, StartFacts
  <2>. QED BY <2>1, <2>2, NotBeforeItself
<1>6. PICK b, s : b = block /\ s = start
  OBVIOUS
<1>7. ~AtEnd => Stands(b)'
  BY <1>6, FirstFrameStands, NextFrameStands
<1>8. LastIs(s)'
  <2>1. HeadOf(file', s) = b /\ block' = b
    BY <1>1, <1>2, <1>6
  <2>2. ~AtEnd => Stands(HeadOf(file, s))'
    BY <1>2, <1>6, <1>7, <2>1 DEF Stands
  <2>. QED BY <1>1, <1>2, <1>5, <1>6, <2>1, <2>2 DEF LastIs
<1>9. s \in Behind'
  BY <1>2, <1>4, <1>6
<1>. QED BY <1>1, <1>3, <1>8, <1>9 DEF Counting

LEMMA StutterCounts ==
  ASSUME FrameInv, UNCHANGED vars
  PROVE  FrameInv'
<1>1. /\ UNCHANGED <<file, page, next_seg, last_seg, bytes_in_seg, eop, start, byte, skipped, pc, caller>>
      /\ UNCHANGED frame
  BY DEF vars, reader
<1>2. Behind' = Behind /\ AtEnd' = AtEnd /\ Here' = Here /\ Taken' = Taken
  BY <1>1 DEF Behind, AtEnd, Here, Taken
<1>3. Placed => Placed'
  BY <1>1, <1>2 DEF Placed, frame
<1>4. ASSUME NEW a \in Behind, LastIs(a) PROVE LastIs(a)'
  <2>1. Stands(HeadOf(file, a)) => Stands(HeadOf(file, a))'
    BY <1>1 DEF Stands, frame
  <2>. QED BY <1>1, <1>2, <1>4, <2>1 DEF LastIs, frame
<1>5. Counting => Counting'
  BY <1>1, <1>2, <1>4 DEF Counting, frame
<1>. QED BY <1>1, <1>3, <1>5 DEF FrameInv, Runs

LEMMA FrameSteps ==
  ASSUME ReaderInv, WholeInv, FrameInv, [Next]_vars
  PROVE  WholeInv' /\ FrameInv'
<1>1. file' = file
  <2>1. [ReaderNext]_reader
    BY StepUsesReader
  <2>. QED BY <2>1 DEF ReaderNext, Get8, PacketStarts, PacketFails, PacketStartsOnNewPage, TakeSegment,
         ContinueOnNextPage, DeliverByte, EndOfPacket, SkipSegment, reader
<1>2. CASE ~file[1].whole
  BY <1>1, <1>2 DEF WholeInv, FrameInv
<1>3. CASE UNCHANGED vars
  BY <1>3, StutterSound, StutterCounts DEF vars
<1>4. CASE file[1].whole /\ Next
  <2>1. Runs
    BY <1>4 DEF Next, Open, SkipComment, NextPacket, EndOfFile, FirstByte, PacketType, SkipPacket,
                ReadPacket, RefuseSetup, LengthsRunOut, Flush, FinishFrame, NoWindow, Runs
  <2>2. InStream /\ Placed
    BY <1>4, <2>1 DEF InStream, FrameInv
  <2>3. WholeInv'
    <3>1. Open => next_seg = None
      BY <2>2 DEF Open, Placed
    <3>2. \/ PacketStarts \/ (PacketStartsOnNewPage /\ next_seg = None) \/ PacketFails
          \/ Get8 \/ SkipSegment \/ UNCHANGED reader
      BY <1>4, <3>1 DEF Next, Open, SkipComment, NextPacket, EndOfFile, FirstByte, PacketType, SkipPacket,
                  ReadPacket, RefuseSetup, LengthsRunOut, Flush, FinishFrame, NoWindow
    <3>. QED BY <3>2, StepsSound
  <2>4. ASSUME Runs' PROVE Placed' /\ Counting'
    <3>1. ~RefuseSetup /\ ~LengthsRunOut /\ ~NoWindow
      BY <2>4 DEF RefuseSetup, LengthsRunOut, NoWindow, Reads, Runs
    <3>2. CASE Open
      BY <2>2, <2>4, <3>2, OpenCounts
    <3>3. CASE SkipComment
      BY <2>2, <3>3, SkipCommentCounts
    <3>4. CASE NextPacket
      BY <2>2, <2>3, <2>4, <3>4, NextPacketCounts
    <3>5. CASE EndOfFile
      BY <2>2, <3>5, EndOfFileCounts
    <3>6. CASE FirstByte
      BY <2>2, <3>6, FirstByteCounts
    <3>7. CASE PacketType
      BY <2>2, <2>4, <3>7, PacketTypeCounts
    <3>8. CASE SkipPacket
      BY <2>2, <3>8, SkipPacketCounts
    <3>9. CASE ReadPacket
      BY <2>2, <3>9, ReadPacketCounts
    <3>10. CASE Flush
      BY <2>2, <3>10, FlushCounts
    <3>11. CASE FinishFrame
      BY <2>2, <3>11, FinishFrameCounts
    <3>. QED BY <1>4, <3>1, <3>2, <3>3, <3>4, <3>5, <3>6, <3>7, <3>8, <3>9, <3>10, <3>11 DEF Next
  <2>. QED BY <2>3, <2>4 DEF FrameInv
<1>. QED BY <1>2, <1>3, <1>4

LEMMA FrameStarts ==
  ASSUME Init
  PROVE  WholeInv /\ FrameInv
<1>1. /\ file \in Files /\ page = 1 /\ next_seg = None /\ eop = TRUE /\ start = <<1, 0>> /\ skipped = FALSE
      /\ pc = "open" /\ caller = "setup" /\ first_decode = TRUE /\ previous_length = 0 /\ samples_output = 0
  BY DEF Init, ReaderInit
<1>2. WholeInv
  BY StartsSound DEF Init
<1>3. Placed
  BY <1>1 DEF Placed
<1>4. ASSUME file[1].whole PROVE Behind = {}
  <2>1. SUFFICES ASSUME NEW a \in Sounds(file) PROVE ~Earlier(a, <<1, 0>>)
    BY <1>1 DEF Behind
  <2>2. a[1] \in Nat /\ a[2] \in Nat /\ Earlier(<<2, 0>>, a)
    BY <1>1, <1>4, SoundIsCounted, SoundIsStart, StartFacts
  <2>. QED BY <2>2 DEF Earlier, Before
<1>. QED BY <1>1, <1>2, <1>3, <1>4 DEF FrameInv, Counting

\* The invariant says more than is promised.
LEMMA CountingIsRight ==
  ASSUME ReaderInv, WholeInv, FrameInv
  PROVE  SamplesMatchTheStream
<1>1. ASSUME pc = "finish", caller = "frame", file[1].whole
      PROVE  previous_length = LeftEnd(block) - LeftStart(block)
  <2>1. InStream /\ Counting
    BY <1>1 DEF InStream, FrameInv, Runs
  <2>2. PICK a \in Behind : LastIs(a)
    BY <1>1, <2>1 DEF Counting
  <2>3. previous_length = RightEnd(HeadOf(file, a)) - RightStart(HeadOf(file, a))
    BY <1>1, <2>2 DEF LastIs, Stands
  <2>4. /\ InStep(HeadOf(file, a), block) /\ HeadOf(file, a).tells \in Nat
        /\ HeadOf(file, a).kind \in {"short", "long"} /\ block.kind \in {"short", "long"}
    BY <1>1, <2>1, <2>2, Neighbours, FinishFacts
  <2>. QED BY <2>3, <2>4, WindowsMeet
<1>2. ASSUME pc = "header", caller = "frame", file[1].whole, even
      PROVE  /\ samples_output = block.tells + RightStart(block) - Size(block) \div 2
             /\ current_loc = samples_output % Wrap
  <2>1. PICK a \in Behind : LastIs(a)
    BY <1>2 DEF FrameInv, Counting, Runs
  <2>2. block = HeadOf(file, a) /\ Stands(HeadOf(file, a))
    BY <1>2, <2>1 DEF LastIs
  <2>. QED BY <1>2, <2>2 DEF Stands
<1>. QED BY <1>1, <1>2 DEF SamplesMatchTheStream, WindowsOverlap

LEMMA FrameBooks == Spec => [](ReaderInv /\ WholeInv /\ FrameInv)
<1>1. Init => WholeInv /\ FrameInv
  BY FrameStarts
<1>2. ReaderInv /\ WholeInv /\ FrameInv /\ [Next]_vars => WholeInv' /\ FrameInv'
  BY FrameSteps
<1>3. Spec => []ReaderInv
  BY DecoderUsesReader, ReaderBooks, PTL
<1>. QED BY <1>1, <1>2, <1>3, PTL DEF Spec

\* Wherever the pages of a stream break, and however its blocks follow one
\* another: a frame overlaps the one before by as much as that one has kept, no
\* sample is lost or given twice, and the decoder knows where it stands.
THEOREM EverySampleOnce == Spec => []SamplesMatchTheStream
<1>1. ReaderInv /\ WholeInv /\ FrameInv => SamplesMatchTheStream
  BY CountingIsRight
<1>. QED BY <1>1, FrameBooks, PTL

-----------------------------------------------------------------------------
\* The end of the stream.

\* A stream that is at its end has had a block there.
EndInv == file[1].whole /\ Runs /\ last_seg /\ AtEnd => start \in Sounds(file)

\* The output has come to the position that the last page tells.
Reached(b) ==
  samples_output = IF LastEnding(file[Len(file)]) # 0 THEN file[Len(file)].loc ELSE b.tells

StopInv ==
  file[1].whole /\ pc \in {"call", "done"} /\ caller = "frame" /\ even =>
    /\ pc = "done" => AtEnd
    /\ AtEnd /\ RightEnd(block) = Size(block) => Reached(block)

\* The last frame is cut where the page says, if it says so.
LEMMA LastFrameEnds ==
  ASSUME InStream, FinishFrame, FitsTheCounter, AtEnd, even', NEW b, b = block, RightEnd(b) = Size(b)
  PROVE  Reached(b)'
<1>. DEFINE half == Size(b) \div 2
            n == Size(block)
            left == LeftStart(block) + IF first_decode THEN 0 ELSE discard_samples_deferred
            right == RightStart(block)
            behind == n - RightEnd(block)
            loc == IF first_decode THEN (-(n \div 2)) % Wrap ELSE current_loc
            known == last_seg_which = end_seg_with_known_loc
            current_end == (known_loc_for_packet - behind) % Wrap
            truncates == known /\ Here.last /\ current_end < (loc + RightEnd(block)) % Wrap
            len == IF truncates THEN CutAt(left, loc, current_end) ELSE RightEnd(block)
            out == IF previous_length = 0 THEN 0 ELSE Lesser(right, len) - left
<1>1. /\ pc = "finish" /\ UNCHANGED reader /\ samples_output' = samples_output + out
      /\ ~first_decode => even' = even
  BY DEF FinishFrame
<1>2. ReaderInv /\ WholeInv /\ file[1].whole /\ ~skipped /\ Sound /\ Placed /\ Counting /\ file \in Files
  BY InStreamFacts
<1>3. /\ start \in Sounds(file) /\ b = HeadOf(file, start) /\ b.tells \in Nat /\ b.kind \in {"short", "long"} /\ last_seg
      /\ Here.last /\ (LastEnding(Here) = 0 => ~known)
      /\ LastEnding(Here) # 0 => known /\ known_loc_for_packet = Here.loc
  BY <1>1, FinishFacts
<1>4. /\ file[Len(file)] = Here /\ Here.loc # None /\ Here.loc <= b.tells
      /\ b.tells - half + LeftStart(b) <= Here.loc
  BY <1>2, <1>3, EndIsSound
<1>5. Here.loc \in Nat
  <2>1. page \in 1 .. Len(file)
    BY <1>2 DEF ReaderInv, Books
  <2>2. Here.loc \in Nat \cup {None}
    BY <1>2, <2>1, FilesAssumption DEF Here
  <2>. QED BY <1>4, <2>2
<1>6. /\ LeftStart(b) \in Nat /\ RightStart(b) = half /\ half \in Nat /\ Size(b) \in Nat /\ Size(b) = half + half
      /\ LeftStart(b) < half /\ LeftStart(b) + LeftStart(b) <= half /\ Size(b) <= blocksize_1
  BY WindowFacts
<1>7. b.tells + blocksize_1 < Wrap /\ Wrap \in Nat \ {0} /\ blocksize_1 \in Nat
  BY <1>2, <1>3, BlocksizeAssumption DEF FitsTheCounter
<1>8. SUFFICES samples_output + out = IF LastEnding(Here) # 0 THEN Here.loc ELSE b.tells
  BY <1>1, <1>4 DEF Reached, reader
<1>9. CASE first_decode
  <2>1. samples_output = 0 /\ previous_length = 0 /\ b.tells = 0
    BY <1>1, <1>2, <1>9, Neighbours DEF Counting
  <2>2. out = 0
    BY <2>1
  <2>. HIDE DEF out
  <2>. QED BY <1>4, <1>5, <2>1, <2>2
<1>10. CASE ~first_decode
  <2>1. PICK e \in Behind : LastIs(e)
    BY <1>2, <1>10 DEF Counting
  <2>2. PICK a : a = HeadOf(file, e)
    OBVIOUS
  <2>3. InStep(a, b) /\ a.tells \in Nat /\ a.kind \in {"short", "long"}
    BY <1>1, <2>1, <2>2, Neighbours
  <2>4. a.tells + RightStart(a) - Size(a) \div 2 + (RightStart(b) - LeftStart(b))
          = b.tells + RightStart(b) - Size(b) \div 2
    BY <1>3, <2>3, WindowsMeet
  <2>5. even
    BY <1>1, <1>10
  <2>6. /\ previous_length = RightEnd(a) - RightStart(a)
        /\ discard_samples_deferred = 0
        /\ samples_output = a.tells + RightStart(a) - Size(a) \div 2
        /\ current_loc = samples_output % Wrap
    BY <1>1, <2>1, <2>2, <2>5 DEF LastIs, Stands
  <2>7. /\ RightStart(a) \in Nat /\ RightEnd(a) \in Nat /\ Size(a) \div 2 \in Nat /\ RightStart(a) < RightEnd(a)
        /\ Size(a) \div 2 <= RightStart(a)
    BY WindowFacts
  <2>8. previous_length # 0 /\ samples_output \in Nat /\ samples_output = b.tells - half + LeftStart(b)
    <3>1. PICK h : h = half
      OBVIOUS
    <3>2. PICK s : s = Size(a) \div 2
      OBVIOUS
    <3>3. /\ RightStart(b) = h /\ h \in Nat /\ LeftStart(b) \in Nat
          /\ a.tells + RightStart(a) - s + (RightStart(b) - LeftStart(b)) = b.tells + RightStart(b) - h
      BY <1>6, <2>4, <3>1, <3>2
    <3>4. /\ RightStart(a) \in Nat /\ RightEnd(a) \in Nat /\ s \in Nat /\ RightStart(a) < RightEnd(a)
          /\ s <= RightStart(a) /\ samples_output = a.tells + RightStart(a) - s
          /\ a.tells \in Nat /\ b.tells \in Nat
      BY <1>3, <2>3, <2>6, <2>7, <3>2
    <3>5. previous_length # 0
      BY <2>6, <2>7
    <3>. HIDE DEF half
    <3>6. samples_output \in Nat /\ samples_output = b.tells - h + LeftStart(b)
      BY <3>3, <3>4
    <3>. QED BY <3>1, <3>5, <3>6
  <2>9. current_loc = samples_output
    <3>1. samples_output \in 0 .. (Wrap - 1)
      BY <1>3, <1>6, <1>7, <2>8
    <3>. QED BY <1>7, <2>6, <3>1, ModuloOfSmall
  <2>10. left = LeftStart(b) /\ right = half /\ behind = 0 /\ loc = samples_output /\ n = Size(b)
    BY <1>6, <1>10, <2>6, <2>9
  <2>11. out = Lesser(half, len) - LeftStart(b)
    BY <2>8, <2>10
  <2>12. /\ samples_output <= Here.loc /\ Here.loc <= samples_output + (half - LeftStart(b))
         /\ Here.loc < samples_output + Size(b)
         /\ Here.loc \in Nat /\ samples_output \in Nat /\ LeftStart(b) \in Nat /\ half \in Nat
    <3>1. PICK h : h = half
      OBVIOUS
    <3>2. /\ h \in Nat /\ LeftStart(b) \in Nat /\ LeftStart(b) < h /\ Size(b) = h + h
          /\ samples_output = b.tells - h + LeftStart(b) /\ b.tells - h + LeftStart(b) <= Here.loc
          /\ Here.loc <= b.tells /\ Here.loc \in Nat /\ b.tells \in Nat /\ samples_output \in Nat
      BY <1>3, <1>4, <1>5, <1>6, <2>8, <3>1
    <3>. HIDE DEF half
    <3>3. /\ samples_output <= Here.loc /\ Here.loc <= samples_output + (h - LeftStart(b))
          /\ Here.loc < samples_output + Size(b)
      BY <3>2
    <3>. QED BY <3>1, <3>2, <3>3
  <2>13. CASE LastEnding(Here) = 0
    <3>1. len = Size(b)
      BY <1>3, <2>13
    <3>. HIDE DEF len, out
    <3>2. Lesser(half, len) = half
      BY <1>6, <3>1 DEF Lesser
    <3>. QED BY <1>3, <1>6, <2>8, <2>11, <2>13, <3>2
  <2>14. CASE LastEnding(Here) # 0
    <3>1. known /\ known_loc_for_packet = Here.loc
      BY <1>3, <2>14
    <3>2. current_end = Here.loc
      <4>1. known_loc_for_packet - behind = Here.loc
        BY <1>5, <2>10, <3>1
      <4>2. Here.loc \in 0 .. (Wrap - 1)
        BY <1>3, <1>4, <1>5, <1>7
      <4>. QED BY <1>7, <4>1, <4>2, ModuloOfSmall
    <3>3. (loc + RightEnd(block)) % Wrap = samples_output + Size(b)
      <4>1. loc + RightEnd(block) = samples_output + Size(b)
        BY <2>10
      <4>2. samples_output + Size(b) \in 0 .. (Wrap - 1)
        BY <1>3, <1>6, <1>7, <2>8
      <4>. QED BY <1>7, <4>1, <4>2, ModuloOfSmall
    <3>4. Here.loc < samples_output + Size(b)
      BY <2>12
    <3>5. truncates
      BY <1>3, <3>1, <3>2, <3>3, <3>4
    <3>6. len = CutAt(LeftStart(b), samples_output, Here.loc)
      <4>1. len = CutAt(left, loc, current_end)
        BY <3>5
      <4>. HIDE DEF len, left, loc, current_end
      <4>. QED BY <2>10, <3>2, <4>1
    <3>. HIDE DEF len, out
    <3>7. len = LeftStart(b) + (Here.loc - samples_output)
      BY <2>12, <3>6 DEF CutAt
    <3>8. len <= half /\ len \in Int
      BY <2>12, <3>7
    <3>9. Lesser(half, len) = len
      BY <1>6, <3>8 DEF Lesser
    <3>. QED BY <1>5, <1>6, <2>8, <2>11, <2>14, <3>7, <3>9
  <2>. QED BY <2>13, <2>14
<1>. QED BY <1>9, <1>10

\* Before that, every frame has samples.
LEMMA FramesGoOn ==
  ASSUME InStream, RoomInv, FinishFrame, RoomForAFrame, ~AtEnd, even'
  PROVE  pc' = "call"
<1>1. PICK b : b = block
  OBVIOUS
<1>2. CASE first_decode
  <2>1. caller # "frame"
    BY <1>2, InStreamFacts DEF Counting
  <2>. QED BY <2>1 DEF FinishFrame, Returns
<1>3. CASE ~first_decode
  <2>1. even
    BY <1>3 DEF FinishFrame
  <2>2. Returns(RightStart(b) - LeftStart(b))
    BY <1>1, <1>3, <2>1, NextFrameStands
  <2>3. LeftStart(b) \in Nat /\ RightStart(b) \in Nat /\ LeftStart(b) < RightStart(b) /\ RightStart(b) <= Limit
    BY WindowFacts, FrameFits
  <2>4. Limit \in Nat \ {0} /\ total \in Nat /\ data_len \in Int /\ total - data_len >= Limit
    BY BlocksizeAssumption DEF RoomInv
  <2>5. Lesser(RightStart(b) - LeftStart(b), total - data_len) # 0
    BY <2>3, <2>4 DEF Lesser
  <2>. QED BY <2>2, <2>5 DEF Returns
<1>. QED BY <1>2, <1>3

LEMMA StopSteps ==
  ASSUME ReaderInv, WholeInv, FrameInv, RoomInv, StopInv, WholeInv', FrameInv', EndInv', [Next]_vars,
         FitsTheCounter, RoomForAFrame
  PROVE  StopInv'
<1>1. file' = file
  <2>1. [ReaderNext]_reader
    BY StepUsesReader
  <2>. QED BY <2>1 DEF ReaderNext, Get8, PacketStarts, PacketFails, PacketStartsOnNewPage, TakeSegment,
         ContinueOnNextPage, DeliverByte, EndOfPacket, SkipSegment, reader
<1>2. SUFFICES ASSUME file[1].whole, pc' \in {"call", "done"}, caller' = "frame", even' PROVE StopInv'
  BY <1>1 DEF StopInv
<1>3. CASE UNCHANGED vars
  BY <1>3 DEF vars, reader, frame, StopInv, AtEnd, Reached
<1>4. CASE Next
  <2>1. Runs
    BY <1>4 DEF Next, Open, SkipComment, NextPacket, EndOfFile, FirstByte, PacketType, SkipPacket,
                ReadPacket, RefuseSetup, LengthsRunOut, Flush, FinishFrame, NoWindow, Runs
  <2>2. InStream /\ Placed /\ ~skipped /\ Sound /\ Placed'
    BY <1>1, <1>2, <2>1, InStreamFacts DEF InStream, FrameInv, Runs
  <2>3. ASSUME pc = "call", NoFrame, caller # "setup", AtEnd, eop', ~skipped', UNCHANGED <<file, page, next_seg, start>>
        PROVE  StopInv'
    <3>1. caller = "frame" /\ samples_output' = samples_output /\ block' = block /\ even' = even
      BY <2>2, <2>3, NoFrameCounts
    <3>2. AtEnd'
      BY <2>3 DEF AtEnd
    <3>3. RightEnd(block) = Size(block) => Reached(block)
      BY <1>2, <2>3, <3>1 DEF StopInv
    <3>. QED BY <1>1, <3>1, <3>2, <3>3 DEF StopInv, Reached
  <2>4. CASE NextPacket
    <3>1. pc = "call" /\ PacketFails /\ caller # "setup" /\ NoFrame /\ next_seg = None
      BY <1>2, <2>4 DEF NextPacket, Reads, PacketFails
    <3>2. eop
      BY <2>2, <3>1 DEF Placed
    <3>3. /\ page = Len(file) /\ page' = page /\ ~skipped' /\ eop'
          /\ UNCHANGED <<file, next_seg, start>>
      BY <1>2, <2>2, <3>1, <3>2, PacketFailsSound
    <3>4. AtEnd
      BY <3>1, <3>3 DEF AtEnd
    <3>. QED BY <2>3, <3>1, <3>3, <3>4
  <2>5. CASE EndOfFile
    <3>1. pc = "call" /\ caller # "setup" /\ eof /\ NoFrame
          /\ UNCHANGED <<file, page, next_seg, start>> /\ eop' = eop /\ skipped' = skipped
      BY <2>5 DEF EndOfFile, reader
    <3>2. AtEnd /\ eop
      BY <2>2, <3>1 DEF Sound, Placed
    <3>. QED BY <2>2, <2>3, <3>1, <3>2
  <2>6. CASE FinishFrame
    <3>1. AtEnd' = AtEnd /\ block' = block
      BY <2>6 DEF FinishFrame, reader, AtEnd
    <3>2. ~AtEnd => pc' = "call"
      BY <1>2, <2>2, <2>6, FramesGoOn
    <3>3. PICK b : b = block
      OBVIOUS
    <3>4. AtEnd /\ RightEnd(b) = Size(b) => Reached(b)'
      BY <1>2, <2>2, <2>6, <3>3, LastFrameEnds
    <3>5. block' = b
      BY <3>1, <3>3
    <3>. QED BY <3>1, <3>2, <3>3, <3>4, <3>5 DEF StopInv, Reached
  <2>7. CASE SkipPacket
    <3>1. pc = "skip" /\ pc' = "call" /\ eop' /\ file' = file /\ start' = start
      BY <1>2, <2>7, Get8Facts DEF SkipPacket, Reads
    <3>2. start \notin Sounds(file)
      BY <2>2, <3>1 DEF Placed
    <3>3. last_seg'
      BY <1>1, <1>2, <2>2, <3>1 DEF WholeInv, Sound, Placed
    <3>4. ~AtEnd'
      BY <1>1, <1>2, <3>1, <3>2, <3>3 DEF EndInv, Runs
    <3>. QED BY <3>1, <3>4 DEF StopInv
  <2>8. ~PacketType
    <3>1. SUFFICES ASSUME PacketType PROVE FALSE
      OBVIOUS
    <3>2. Meanings = {HeadOf(file, start)} /\ HeadOf(file, start).kind \in {"other", "setup", "short", "long"}
      BY <2>2, <3>1, OneMeaning DEF PacketType
    <3>. QED BY <1>2, <3>1, <3>2 DEF PacketType, Reads
  <2>9. ~SkipComment /\ ~Flush
    BY <1>2, <2>2 DEF SkipComment, Flush, Reads, Placed
  <2>10. ~Open /\ ~RefuseSetup /\ ~LengthsRunOut /\ ~NoWindow /\ ~FirstByte /\ ~ReadPacket
    BY <1>2 DEF Open, RefuseSetup, LengthsRunOut, NoWindow, FirstByte, ReadPacket, Reads
  <2>. QED BY <1>4, <2>4, <2>5, <2>6, <2>7, <2>8, <2>9, <2>10 DEF Next
<1>. QED BY <1>3, <1>4

LEMMA EndIsReached ==
  ASSUME ReaderInv, WholeInv, FrameInv
  PROVE  EndInv
BY EndIsSound DEF EndInv, FrameInv, Placed

\* The output ends where the stream does, if positions fit the counter and
\* frames the buffer.
THEOREM OutputEndsWithTheStream ==
  ASSUME FitsTheCounter, RoomForAFrame
  PROVE  Spec => []EndsWhereTheStreamEnds
<1>1. Init => StopInv
  BY DEF Init, StopInv
<1>2. ReaderInv /\ WholeInv /\ FrameInv => EndInv
  BY EndIsReached
<1>3. /\ ReaderInv /\ WholeInv /\ FrameInv /\ RoomInv /\ StopInv /\ WholeInv' /\ FrameInv' /\ EndInv'
      /\ [Next]_vars
      => StopInv'
  BY StopSteps
<1>4. RoomInv /\ FrameInv /\ StopInv => EndsWhereTheStreamEnds
  BY DEF RoomInv, FrameInv, Placed, StopInv, EndsWhereTheStreamEnds, Reached, Runs
<1>5. Spec => []RoomInv
  BY RoomStays
<1>. QED BY <1>1, <1>2, <1>3, <1>4, <1>5, FrameBooks, PTL DEF Spec
=============================================================================
