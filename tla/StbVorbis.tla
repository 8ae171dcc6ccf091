------------------------------ MODULE StbVorbis ------------------------------
(***************************************************************************)
(* The frame layer of src/src/stb_vorbis.c, as AudioFormat_ogg uses it:    *)
(* stb_vorbis_decode_filename opens a stream, decodes a first frame for    *)
(* its right half alone, and then frame after frame into a buffer that it  *)
(* lets grow.  Neighbouring blocks overlap; a frame gives out the samples  *)
(* from the start of its left overlap to the start of its right one.       *)
(*                                                                         *)
(* The spectrum is left out: a packet is what its first bits say, a block  *)
(* is its windows, and samples are counted.  Any number of bytes is read   *)
(* from a packet before the rest of it is flushed.  current_loc_valid is   *)
(* TRUE from the first frame on, since nobody seeks.  The decoder is done, *)
(* or has failed; has aborted the program, or turns in the loop over the   *)
(* lengths of a codebook.                                                  *)
(***************************************************************************)
EXTENDS OggPackets

CONSTANTS blocksize_0, blocksize_1,
          Limit,   \* 4096: the room a frame must find, per channel
          Wrap     \* 2^32

\* Powers of two, of which it only matters that four divides them.
ASSUME BlocksizeAssumption ==
  /\ blocksize_0 \in Nat /\ blocksize_1 \in Nat /\ blocksize_0 % 4 = 0 /\ blocksize_1 % 4 = 0
  /\ 0 < blocksize_0 /\ blocksize_0 <= blocksize_1
  /\ Limit \in Nat \ {0} /\ Wrap \in Nat \ {0}

VARIABLES
  pc,
  caller,                   \* who reads: "setup" (start_decoder), "pump" or "frame"
  block,                    \* what the first bits of the packet said
  first_decode,
  discard_samples_deferred,
  previous_length,
  current_loc,
  samples_output,
  data_len,                 \* samples handed over
  total,                    \* room in the buffer, per channel
  even                      \* the first block had neighbours of its size

frame == <<block, first_decode, discard_samples_deferred, previous_length,
           current_loc, samples_output, data_len, total, even>>
vars == <<reader, pc, caller, frame>>

Lesser(a, b) == IF a < b THEN a ELSE b

\* What a packet is: a header, something else, damaged, or a block; a long one
\* tells whether its neighbours are long.  tells is the position the encoder
\* counts up to its middle.
Packet(kind, prev, next, tells) == [kind |-> kind, prev |-> prev, next |-> next, tells |-> tells]

\* What the byte at hand says as the first one of a packet: known when it is one.
Meanings ==
  LET begins == {s \in 0 .. (Count(Here) - 1) : byte = <<page, Offset(Here, s)>> /\ Segment(Here, s) > 0
                                               /\ Here.heads[s + 1].kind # "none"}
  IN  IF byte = <<>> THEN {Packet(k, FALSE, FALSE, Unknown) : k \in {"short", "long"}}
      ELSE IF begins # {} THEN {Here.heads[s + 1] : s \in begins}
      ELSE {Packet("other", FALSE, FALSE, Unknown), Packet("bad", FALSE, FALSE, Unknown)}
           \cup {Packet(k, p, n, Unknown) : k \in {"short", "long"}, p \in BOOLEAN, n \in BOOLEAN}

-----------------------------------------------------------------------------
\* The windows of a block: vorbis_decode_initial.
Size(b) == IF b.kind = "long" THEN blocksize_1 ELSE blocksize_0

\* Variants: the left overlap follows the neighbour on the right; the right one
\* always goes to the end.
LeftStartByNext(b) == IF b.kind = "long" /\ ~b.next THEN (Size(b) - blocksize_0) \div 4 ELSE 0
RightEndOfLong(b) == Size(b)

LeftStart(b) == IF b.kind = "long" /\ ~b.prev THEN (Size(b) - blocksize_0) \div 4 ELSE 0
LeftEnd(b) == IF b.kind = "long" /\ ~b.prev THEN (Size(b) + blocksize_0) \div 4 ELSE Size(b) \div 2
RightStart(b) == IF b.kind = "long" /\ ~b.next THEN (3 * Size(b) - blocksize_0) \div 4 ELSE Size(b) \div 2
RightEnd(b) == IF b.kind = "long" /\ ~b.next THEN (3 * Size(b) + blocksize_0) \div 4 ELSE Size(b)

\* Variants: the buffer grows when it is full; samples are counted to the left
\* edge of the block; what is known of the middle is taken for the left overlap.
GrownLate(len) == IF len > total THEN 2 * total ELSE total
CutAtLocation(left, loc, current_end) == IF current_end < loc THEN 0 ELSE current_end - loc
LocationOfMiddle(n, left) == known_loc_for_packet - n \div 2

\* The buffer grows when the next frame might not find room.
Grown(len) == IF len + Limit > total THEN 2 * total ELSE total
CutAt(left, loc, current_end) == left + IF current_end < loc THEN 0 ELSE current_end - loc
LocationOf(n, left) == known_loc_for_packet - (n \div 2 - left)

Reads(place) == pc' = place /\ UNCHANGED <<caller, frame>>

\* Variant: only a negative count is the end.
ReturnsUntilNegative(n) ==
  LET taken == Lesser(n, total - data_len)
  IN  /\ caller' = "frame"
      /\ pc' = IF caller = "frame" /\ taken < 0 THEN "done" ELSE "call"
      /\ data_len' = data_len + taken
      /\ UNCHANGED total

\* What stb_vorbis_get_frame_float or vorbis_pump_first_frame gives out goes to
\* stb_vorbis_decode_filename: a frame of n samples is cut to the room there is,
\* the buffer grows by the time the next one comes, and no samples are the end.
Returns(n) ==
  LET taken == Lesser(n, total - data_len)
  IN  /\ caller' = "frame"
      /\ pc' = IF caller = "frame" /\ taken = 0 THEN "done" ELSE "call"
      /\ IF caller = "pump" THEN UNCHANGED <<data_len, total>>
         ELSE /\ data_len' = data_len + taken
              /\ total' = IF taken = 0 THEN total ELSE Grown(data_len')

NoFrame ==
  /\ Returns(0)
  /\ UNCHANGED <<block, first_decode, discard_samples_deferred, previous_length,
                 current_loc, samples_output, even>>

-----------------------------------------------------------------------------
\* start_decoder: the first page, and the comment, whose bytes are skipped.
Open ==
  /\ pc = "open"
  /\ \/ file[1].good /\ PacketStartsOnNewPage /\ Reads("comment")
     \/ file[1].good /\ ~PageOpens /\ PacketFails /\ Reads("failed")
     \/ ~file[1].good /\ UNCHANGED reader /\ Reads("failed")

SkipComment ==
  /\ pc = "comment"
  /\ \/ SkipSegment /\ Reads("comment")
     \/ bytes_in_seg = 0 /\ Get8 /\ Reads(IF eop' THEN "call" ELSE "comment")

\* The next packet: of start_decoder, or of vorbis_decode_initial.
NextPacket ==
  /\ pc = "call"
  /\ caller # "setup" => ~eof
  /\ \/ PacketStarts /\ Reads("header")
     \/ PacketFails /\ (IF caller = "setup" THEN Reads("failed") ELSE NoFrame)

EndOfFile ==
  /\ pc = "call" /\ caller # "setup" /\ eof
  /\ NoFrame
  /\ UNCHANGED reader

FirstByte ==
  /\ pc = "header"
  /\ Get8
  /\ Reads(IF eop' \/ bytes_in_seg' < bytes_in_seg THEN "type" ELSE "header")

\* A packet that is no audio is skipped; one that cannot be decoded is left
\* where it is.
PacketType ==
  /\ pc = "type"
  /\ UNCHANGED reader
  /\ \E m \in Meanings :
       IF caller = "setup" THEN Reads(IF m.kind = "setup" THEN "body" ELSE "failed")
       ELSE \/ m.kind \in {"setup", "other"} /\ Reads("skip")
            \/ m.kind = "bad" /\ NoFrame
            \/ /\ m.kind \in {"short", "long"}
               /\ block' = m /\ pc' = "body"
               /\ UNCHANGED <<caller, first_decode, discard_samples_deferred, previous_length,
                              current_loc, samples_output, data_len, total, even>>

SkipPacket == pc = "skip" /\ Get8 /\ Reads(IF eop' THEN "call" ELSE "skip")

\* The packet has ended where its segments say.
Ended == last_seg /\ last_seg_which < Count(Here) /\ Segment(Here, last_seg_which) < Full
IsCut == eof \/ ~Ended

\* Floors and residues, whose reading may go on behind the end; or the setup,
\* which asks for bits that are not there only if it is cut, and for no byte
\* after that.
ReadPacket ==
  /\ pc = "body"
  /\ \/ Get8 /\ Reads("body") /\ (caller = "setup" => ~eop /\ (eop' => IsCut'))
     \/ UNCHANGED reader /\ Reads("flush")

\* A setup packet that is cut reads as zeros from there on.  They may pass for
\* what is missing (ReadPacket), or be refused.
RefuseSetup ==
  /\ pc = "body" /\ caller = "setup" /\ (eof \/ eop)
  /\ Reads("failed")
  /\ UNCHANGED reader

\* Or they are read as numbers of entries, in the loop over the lengths of an
\* ordered codebook: none at this length, none at the next one.  No condition of
\* the loop sees that the packet is over.
LengthsRunOut ==
  /\ pc = "body" /\ caller = "setup" /\ eop
  /\ Reads("lengths")
  /\ UNCHANGED reader

\* flush_packet.
Flush ==
  /\ pc = "flush"
  /\ Get8
  /\ IF eop' /\ caller = "setup" THEN caller' = "pump" /\ pc' = "call" /\ UNCHANGED frame
                                 ELSE Reads(IF eop' THEN "finish" ELSE "flush")

\* get_window: what the frame before has kept is half a block long.
HasWindow == 2 * previous_length \in {0, blocksize_0, blocksize_1}

\* Behind a frame that was cut short it may not be: an assertion fails or, where
\* assertions are compiled out, a window is read through a null pointer.
NoWindow ==
  /\ pc = "finish" /\ ~HasWindow
  /\ Reads("aborted")
  /\ UNCHANGED reader

\* The rest of vorbis_decode_packet_rest, and vorbis_finish_frame.  Without
\* assertions a negative length asks nothing of the window.
FinishFrame ==
  LET n == Size(block)
      left == LeftStart(block) + IF first_decode THEN 0 ELSE discard_samples_deferred
      right == RightStart(block)
      behind == n - RightEnd(block)
      loc == IF first_decode THEN (-(n \div 2)) % Wrap ELSE current_loc
      known == last_seg_which = end_seg_with_known_loc
      current_end == (known_loc_for_packet - behind) % Wrap
      truncates == known /\ Here.last /\ current_end < (loc + RightEnd(block)) % Wrap
      len == IF truncates THEN CutAt(left, loc, current_end) ELSE RightEnd(block)
      out == IF previous_length = 0 THEN 0 ELSE Lesser(right, len) - left
  IN  /\ pc = "finish" /\ (HasWindow \/ previous_length < 0)
      /\ UNCHANGED <<reader, block>>
      /\ first_decode' = FALSE
      /\ even' = IF first_decode THEN LeftStart(block) = 0 /\ behind = 0 ELSE even
      /\ discard_samples_deferred' = IF first_decode THEN behind ELSE 0
      /\ current_loc' = (IF truncates THEN loc + len
                         ELSE (IF known THEN LocationOf(n, left) ELSE loc)
                              + right - left) % Wrap
      /\ previous_length' = len - right
      /\ samples_output' = samples_output + out
      /\ Returns(out)

Init ==
  /\ ReaderInit
  /\ pc = "open" /\ caller = "setup"
  /\ block = Packet("none", FALSE, FALSE, Unknown)
  /\ first_decode = TRUE /\ discard_samples_deferred = 0 /\ previous_length = 0
  /\ current_loc = 0 /\ samples_output = 0 /\ data_len = 0 /\ total = Limit /\ even = TRUE

Next ==
  \/ Open \/ SkipComment \/ NextPacket \/ EndOfFile \/ FirstByte \/ PacketType \/ SkipPacket
  \/ ReadPacket \/ RefuseSetup \/ LengthsRunOut \/ Flush \/ FinishFrame \/ NoWindow

Spec == Init /\ [][Next]_vars /\ WF_vars(Next)

-----------------------------------------------------------------------------
\* What "whole" says of a stream: it is as encoders write them.  Packets begin
\* behind segments that are not full, and on pages that do not go on with one.
Places(f) == UNION {{p} \X (0 .. (Count(f[p]) - 1)) : p \in 1 .. Len(f)}
Begins(f, p, s) == IF s = 0 THEN ~f[p].continued ELSE Segment(f[p], s - 1) < Full
Starts(f) == {a \in Places(f) : Begins(f, a[1], a[2])}
HeadOf(f, a) == f[a[1]].heads[a[2] + 1]
Sounds(f) == {a \in Starts(f) : HeadOf(f, a).kind \in {"short", "long"}}
Earlier(a, b) == Before(a[1], a[2], b[1], b[2])

\* Pages are whole and told from one another; the first one has the first
\* header and nothing else, and the last one ends with a packet.
Bound(f) ==
  /\ WellPaged(f)
  /\ \A p \in 1 .. Len(f) :
       /\ f[p].good /\ f[p].size = Body(f[p])
       /\ f[p].last = (p = Len(f))
       /\ f[p].continued = (p > 1 /\ Segment(f[p - 1], Count(f[p - 1]) - 1) = Full)
  /\ Count(f[1]) = 1 /\ Segment(f[1], 0) < Full
  /\ Segment(f[Len(f)], Count(f[Len(f)]) - 1) < Full
  /\ \A a \in Starts(f) : /\ Segment(f[a[1]], a[2]) > 0
                          /\ HeadOf(f, a).kind \in {"other", "setup", "short", "long"}

\* Neighbours know each other's sizes, and a quarter of each lies between them.
InStep(a, b) ==
  /\ a.kind = "long" => a.next = (b.kind = "long")
  /\ b.kind = "long" => b.prev = (a.kind = "long")
  /\ b.tells = a.tells + Size(a) \div 4 + Size(b) \div 4

\* Positions are counted from the first block on; pages tell that of the last
\* packet they end, and the last page one within the last block.
Counted(f) ==
  /\ \A a \in Sounds(f) : Earlier(<<2, 0>>, a) /\ HeadOf(f, a).tells \in Nat
  /\ \A b \in Sounds(f) :
       IF \E a \in Sounds(f) : Earlier(a, b)
       THEN \A a \in Sounds(f) :
              Earlier(a, b) /\ (\A c \in Sounds(f) : ~(Earlier(a, c) /\ Earlier(c, b))) =>
                InStep(HeadOf(f, a), HeadOf(f, b))
       ELSE HeadOf(f, b).tells = 0
  /\ \A p \in 1 .. (Len(f) - 1), a \in Sounds(f) :
       KnownSegment(f[p]) # Unknown /\ OnePacket(f, a[1], a[2], p, LastEnding(f[p])) =>
         f[p].loc = HeadOf(f, a).tells

Closed(f) ==
  \E a \in Sounds(f) :
    LET b == HeadOf(f, a)
    IN  /\ OnePacket(f, a[1], a[2], Len(f), Count(f[Len(f)]) - 1)
        /\ f[Len(f)].loc # None
        /\ f[Len(f)].loc \in (b.tells - Size(b) \div 2 + LeftStart(b)) .. b.tells

ASSUME EncodersAssumption == \A f \in Files : f[1].whole => Bound(f) /\ Counted(f) /\ Closed(f)

\* No position comes near the end of the counter.
FitsTheCounter ==
  \A f \in Files : f[1].whole =>
    \A a \in Sounds(f) : HeadOf(f, a).tells + blocksize_1 < Wrap

\* The buffer has room for the longest frame: a long block between a long one and a short one.
RoomForAFrame == 3 * blocksize_1 - blocksize_0 <= 4 * Limit

-----------------------------------------------------------------------------
\* Of a stream as encoders write it, each frame overlaps the one before it by
\* as much as that one has kept: previous_length is the width of the window.
WindowsOverlap ==
  pc = "finish" /\ caller = "frame" /\ file[1].whole =>
    previous_length = LeftEnd(block) - LeftStart(block)

\* What has been given out ends where the stream says the last block reaches:
\* no frame is lost or given twice, wherever the pages break.  A stream that
\* begins with a long block before a short one is left out: the samples held
\* back for it are taken from the second frame, which may have fewer.  And the
\* decoder knows at which sample it stands, although it hears of it only from
\* some pages.
SamplesMatchTheStream ==
  WindowsOverlap /\ (pc = "header" /\ caller = "frame" /\ file[1].whole /\ even =>
    /\ samples_output = block.tells + RightStart(block) - Size(block) \div 2
    /\ current_loc = samples_output % Wrap)

\* No frame is cut for lack of room.
NothingIsDropped == data_len = samples_output

\* The last page tells where the stream ends within its last block, and the
\* output ends there - unless the only packet that ends on the page ends in its
\* first segment, or the last block expects a short one behind it.
EndsWhereTheStreamEnds ==
  LET p == file[Len(file)]
  IN  pc = "done" /\ file[1].whole /\ even /\ RightEnd(block) = Size(block) =>
        data_len = IF LastEnding(p) # 0 THEN p.loc ELSE block.tells

\* A stream as encoders write it is decoded to its end.  Any other one makes the
\* decoder give up or stop too, but for one case: a setup packet that is cut
\* within the lengths of an ordered codebook holds it for ever.
Terminates ==
  /\ <>(pc \in {"done", "failed", "aborted"} \/ (pc = "lengths" /\ IsCut))
  /\ file[1].whole => <>(pc = "done")
=============================================================================
