----------------------------- MODULE OggPackets -----------------------------
(***************************************************************************)
(* The page layer of src/src/stb_vorbis.c.  An Ogg stream is a sequence of *)
(* pages; a page is cut into segments, and a packet is a run of segments   *)
(* that ends with the first one shorter than the greatest lacing value,    *)
(* pages later if need be.  The decoder above asks for the bytes of one    *)
(* packet after the other and never sees a page.                           *)
(*                                                                         *)
(* The read position is kept as the file has it, so many bytes into the    *)
(* body of a page: whether the decoder's books agree with it is the        *)
(* question.  The body of a page never looks like a page header.           *)
(***************************************************************************)
EXTENDS Integers, Sequences

CONSTANTS Full,   \* the greatest lacing value, 255
          Files   \* the streams: sequences of pages

None == -1
Unknown == -2

Count(p) == Len(p.ends)
Offset(p, s) == IF s = 0 THEN 0 ELSE p.ends[s]
Segment(p, s) == Offset(p, s + 1) - Offset(p, s)
Body(p) == Offset(p, Count(p))

\* A page: where its segments end in its body, how much of the body is there
\* (all of it but on the last page), its flags, the position it tells, and
\* whether its header can be read.
ASSUME FilesAssumption ==
  /\ Full \in Nat \ {0}
  /\ \A f \in Files :
       /\ Len(f) \in Nat \ {0}
       /\ \A p \in 1 .. Len(f) :
            /\ f[p].ends \in Seq(Nat)
            /\ \A s \in 0 .. Count(f[p]) : Offset(f[p], s) <= Body(f[p])
            /\ \A s \in 0 .. (Count(f[p]) - 1) : Segment(f[p], s) \in 0 .. Full
            /\ f[p].size \in 0 .. Body(f[p])
            /\ p < Len(f) => f[p].size = Body(f[p])
            /\ f[p].continued \in BOOLEAN /\ f[p].last \in BOOLEAN /\ f[p].good \in BOOLEAN
            /\ f[p].loc \in Nat \cup {None}

VARIABLES
  file,
  page,            \* the page whose header was read last
  at,              \* how much of its body is behind the read position
  eof,
  next_seg,        \* None: on the next page
  last_seg,
  bytes_in_seg,
  last_seg_which,
  end_seg_with_known_loc,
  known_loc_for_packet,
  eop,             \* the last call for a byte returned EOP
  start,           \* the page and segment the packet was taken to start at
  byte,            \* the byte delivered last: its page and place, if any
  skipped          \* a packet was started before the end of the one before it

reader == <<file, page, at, eof, next_seg, last_seg, bytes_in_seg, last_seg_which,
            end_seg_with_known_loc, known_loc_for_packet, eop, start, byte, skipped>>

Here == file[page]
Ahead == file[page + 1]

-----------------------------------------------------------------------------
\* capture_pattern and the version field.
Captured == page < Len(file) /\ at = Here.size /\ Ahead.good
PageOpens == Captured /\ Count(Ahead) > 0

\* The last segment that ends a packet, or the first.
LastEnding(p) ==
  CHOOSE i \in 0 .. (Count(p) - 1) :
    /\ i = 0 \/ Segment(p, i) < Full
    /\ \A j \in (i + 1) .. (Count(p) - 1) : Segment(p, j) = Full

KnownSegment(p) ==
  IF p.loc # None /\ LastEnding(p) # 0 THEN LastEnding(p) ELSE Unknown

\* start_page.
StartPage ==
  /\ PageOpens
  /\ page' = page + 1
  /\ at' = 0
  /\ end_seg_with_known_loc' = KnownSegment(Ahead)
  /\ known_loc_for_packet' = IF KnownSegment(Ahead) # Unknown THEN Ahead.loc ELSE known_loc_for_packet
  /\ UNCHANGED eof

\* A page without segments is taken for the end of the file: fread of no bytes
\* returns 0.
StartPageFails ==
  /\ ~PageOpens
  /\ IF Captured
     THEN page' = page + 1 /\ at' = 0 /\ eof' = TRUE
     ELSE /\ at' = IF at < Here.size THEN at + 1 ELSE at
          /\ eof' = (eof \/ page = Len(file))
          /\ UNCHANGED page
  /\ UNCHANGED <<end_seg_with_known_loc, known_loc_for_packet>>

\* start_packet and maybe_start_packet.
PacketStarts ==
  /\ IF next_seg # None
     THEN UNCHANGED <<page, at, eof, end_seg_with_known_loc, known_loc_for_packet, next_seg>>
     ELSE StartPage /\ next_seg' = 0 /\ ~Ahead.continued
  /\ last_seg' = FALSE /\ bytes_in_seg' = 0
  /\ eop' = FALSE
  /\ start' = <<page', next_seg'>>
  /\ byte' = <<>>
  /\ skipped' = (skipped \/ ~eop)
  /\ UNCHANGED <<file, last_seg_which>>

\* A packet cannot start in the middle of another; the decoder is left where
\* it can read the rest of that one.
PacketFails ==
  /\ next_seg = None
  /\ \/ StartPageFails /\ UNCHANGED <<next_seg, last_seg, bytes_in_seg, start, byte>>
     \/ /\ StartPage /\ Ahead.continued
        /\ next_seg' = 0 /\ last_seg' = FALSE /\ bytes_in_seg' = 0
        /\ start' = <<page + 1, 0>> /\ byte' = <<>>
  /\ skipped' = (skipped \/ ~eop)
  /\ UNCHANGED <<file, last_seg_which, eop>>

\* start_decoder opens a page for the comment without asking what it holds.
PacketStartsOnNewPage ==
  /\ StartPage /\ next_seg' = 0
  /\ last_seg' = FALSE /\ bytes_in_seg' = 0
  /\ eop' = FALSE
  /\ start' = <<page + 1, 0>>
  /\ byte' = <<>>
  /\ skipped' = (skipped \/ ~eop)
  /\ UNCHANGED <<file, last_seg_which>>

\* Variant: only segments shorter by two end a packet.
EndsPacketLate(len) == len < Full - 1

EndsPacket(len) == len < Full
BehindSegment == IF next_seg + 1 = Count(Here) THEN None ELSE next_seg + 1

\* next_segment, on the page: a segment of no bytes is the end at once.
TakeSegment ==
  /\ bytes_in_seg = 0 /\ ~last_seg /\ next_seg # None
  /\ LET len == Segment(Here, next_seg)
     IN  /\ bytes_in_seg' = len
         /\ last_seg' = EndsPacket(len)
         /\ last_seg_which' = IF EndsPacket(len) THEN next_seg ELSE last_seg_which
         /\ eop' = (len = 0)
  /\ next_seg' = BehindSegment
  /\ UNCHANGED <<file, page, at, eof, end_seg_with_known_loc, known_loc_for_packet, start, byte, skipped>>

\* next_segment, from one page to the next.  A page that does not go on with
\* the packet ends it for this call only: the next call takes its first segment.
ContinueOnNextPage ==
  /\ bytes_in_seg = 0 /\ ~last_seg /\ next_seg = None
  /\ last_seg_which' = Count(Here) - 1
  /\ \/ StartPageFails /\ last_seg' = TRUE /\ eop' = TRUE /\ UNCHANGED next_seg
     \/ StartPage /\ next_seg' = 0 /\ eop' = ~Ahead.continued /\ UNCHANGED last_seg
  /\ UNCHANGED <<file, bytes_in_seg, start, byte, skipped>>

\* get8_packet_raw.
DeliverByte ==
  /\ bytes_in_seg > 0
  /\ bytes_in_seg' = bytes_in_seg - 1
  /\ IF at < Here.size THEN at' = at + 1 /\ byte' = <<page, at>> /\ UNCHANGED eof
                       ELSE eof' = TRUE /\ UNCHANGED <<at, byte>>
  /\ eop' = FALSE
  /\ UNCHANGED <<file, page, next_seg, last_seg, last_seg_which, end_seg_with_known_loc,
                 known_loc_for_packet, start, skipped>>

EndOfPacket ==
  /\ bytes_in_seg = 0 /\ last_seg
  /\ eop' = TRUE
  /\ UNCHANGED <<file, page, at, eof, next_seg, last_seg, bytes_in_seg, last_seg_which,
                 end_seg_with_known_loc, known_loc_for_packet, start, byte, skipped>>

Get8 == TakeSegment \/ ContinueOnNextPage \/ DeliverByte \/ EndOfPacket

\* start_decoder moves over a segment of the comment without reading it.
SkipSegment ==
  /\ bytes_in_seg > 0
  /\ at' = at + bytes_in_seg
  /\ bytes_in_seg' = 0
  /\ UNCHANGED <<file, page, eof, next_seg, last_seg, last_seg_which, end_seg_with_known_loc,
                 known_loc_for_packet, eop, start, byte, skipped>>

\* The first page is read and checked by start_decoder on its own; what it
\* leaves in next_seg and last_seg is overwritten before it is read.
ReaderInit ==
  /\ file \in Files
  /\ page = 1 /\ at = file[1].size /\ eof = FALSE
  /\ next_seg = None /\ last_seg = TRUE /\ bytes_in_seg = 0 /\ last_seg_which = 0
  /\ end_seg_with_known_loc = Unknown /\ known_loc_for_packet = 0
  /\ eop = TRUE /\ start = <<1, 0>> /\ byte = <<>> /\ skipped = FALSE

\* Any decoder: it may start a packet or ask for a byte whenever it likes.
ReaderNext ==
  \/ PacketStarts \/ PacketFails \/ PacketStartsOnNewPage
  \/ Get8 \/ SkipSegment

ReaderSpec == ReaderInit /\ [][ReaderNext]_reader

-----------------------------------------------------------------------------
\* Every page has segments, and goes on with a packet when the page before it
\* has not ended it.
WellPaged(f) ==
  /\ \A p \in 1 .. Len(f) : Count(f[p]) > 0
  /\ \A p \in 1 .. (Len(f) - 1) : Segment(f[p], Count(f[p]) - 1) = Full => f[p + 1].continued

Before(p, s, q, t) == p < q \/ (p = q /\ s < t)

\* No packet ends within the segments from s of page p up to t of page q.
OnePacket(f, p, s, q, t) ==
  /\ ~Before(q, t, p, s)
  /\ \A x \in p .. q : \A y \in 0 .. (Count(f[x]) - 1) :
       /\ ~Before(x, y, p, s) /\ Before(x, y, q, t) => Segment(f[x], y) = Full
       /\ Before(p, s, x, 0) /\ y = 0 => f[x].continued

\* As long as the decoder reads packets to their ends, every byte it is given
\* lies in the packet it has started, wherever pages, segments of no bytes and
\* the end of a cut file fall: the read position and the table of segments never
\* come apart.
ReadsItsPacket ==
  WellPaged(file) /\ ~skipped /\ byte # <<>> =>
    \E t \in 0 .. (Count(file[byte[1]]) - 1) :
      /\ Offset(file[byte[1]], t) <= byte[2] /\ byte[2] < Offset(file[byte[1]], t + 1)
      /\ OnePacket(file, start[1], start[2], byte[1], t)
=============================================================================
