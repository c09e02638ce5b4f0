------------------------------- MODULE Buffer -------------------------------
(***************************************************************************)
(* The segmented data buffer of base/memory/buffer.[ch] and the two ways a *)
(* buffered socket uses it (base/net/netbuf.[ch]).                         *)
(*                                                                         *)
(* A buffer is a list of chunks; a chunk is tiled by segments and ends     *)
(* with a terminal segment that links to the next chunk.  The model keeps  *)
(* the segments of all chunks in one sequence, in link order, the          *)
(* pseudo-segment of the buffer (`stub') first: the adjacent segment and   *)
(* the segment behind a terminal one are both the next index, and the next *)
(* of the last terminal segment is NULL.  Sizes are counted in units; H is *)
(* the size of a segment header and the granule of every area.  Byte i of  *)
(* the stream is the number i, so the content shows what went where.       *)
(*                                                                         *)
(* A receive buffer is filled from the network and read by a parser that   *)
(* may rewind to a safe point; a transmit buffer is written and spliced by *)
(* commands and flushed to the network (mc_reader_routine).                *)
(***************************************************************************)
EXTENDS Integers, Sequences, FiniteSets, SequencesExt, FiniteSetsExt, Functions

CONSTANTS
  H,               \* MM_BUFFER_SEGMENT_SIZE
  XSize,           \* sizeof(struct mm_buffer_xsegment)
  ChunkSize,       \* the chunk size mm_buffer_prepare is given
  MaxChunk,        \* MM_BUFFER_MAX_CHUNK_SIZE
  Slack,           \* what the allocator adds to the size of a chunk
  SpliceThreshold, \* MM_BUFFER_SPLICE_THRESHOLD
  MaxIov,          \* MM_NETBUF_MAXIOV
  Sizes,           \* the sizes operations are called with
  MaxBytes,        \* bound: bytes ever put into the buffer
  MaxOps           \* bound: operations of one behaviour

VARIABLES
  role,      \* "rx" or "tx"
  b,         \* the struct mm_buffer
  wrote,     \* the number of bytes put in so far: they are 1 .. wrote
  out,       \* the bytes taken out so far
  saved,     \* the safe point: a reader and the length of out there
  released,  \* external segments released, in order
  dead,      \* the program followed a NULL link or gave up
  ops

bvars == <<role, b, wrote, out, saved, released, dead, ops>>

NoneSaved == [seg |-> 0, off |-> 0, len |-> 0]

--------------------------------------------------------------------------
(* Segments. *)

RoundUp(n) == ((n + H - 1) \div H) * H

Stub == [type |-> "terminal", area |-> H, data |-> <<>>, id |-> 0]

Terminal(s) == s.type = "terminal"

InternalRoom(s) == s.area - H

Room(s) == IF s.type = "external" THEN Len(s.data) ELSE InternalRoom(s)

\* The first terminal segment at or behind index i: the end of i's chunk.
ChunkEnd(segs, i) == Min({j \in i .. Len(segs) : Terminal(segs[j])})

\* The first segment of the chunk that holds the segment at index i > 1.
ChunkStart(segs, i) == Max({j \in 1 .. i - 1 : Terminal(segs[j])}) + 1

Append2(segs, i, bytes) == [segs EXCEPT ![i].data = @ \o bytes]

--------------------------------------------------------------------------
(* The write iterator. *)

WriterRoom(bb) == Room(bb.segs[bb.tail]) - Len(bb.segs[bb.tail].data)

\* A new chunk behind the terminal segment the writer stands on.
WriterGrow(bb, size) ==
  LET want == IF size < bb.chunk THEN bb.chunk
              ELSE IF size > MaxChunk THEN MaxChunk ELSE size
      seg == [type |-> "internal", area |-> RoundUp(want + H) + Slack,
              data |-> <<>>, id |-> 0]
  IN  [bb EXCEPT !.segs = @ \o <<seg, Stub>>, !.tail = Len(bb.segs) + 1]

\* The next segment of the chunk with room, or the first one of the next chunk,
\* or the terminal segment when there is none.
WriterNext(bb) ==
  LET t == ChunkEnd(bb.segs, bb.tail)
      c == {j \in bb.tail + 1 .. t - 1 : InternalRoom(bb.segs[j]) > 0}
  IN  [bb EXCEPT !.tail = IF c # {} THEN Min(c)
                          ELSE IF t < Len(bb.segs) THEN t + 1 ELSE t]

\* The room mm_buffer_writer_next returns is the one of the segment it stops at.
WriterBump(bb, hint) ==
  LET n == WriterNext(bb)
  IN  IF InternalRoom(n.segs[n.tail]) = 0 THEN WriterGrow(n, hint) ELSE n

WriterMakeReady(bb, hint) ==
  IF WriterRoom(bb) > 0 THEN bb ELSE WriterBump(bb, hint)

--------------------------------------------------------------------------
(* The read iterator. *)

ReaderLeft(bb) == Len(bb.segs[bb.head].data) - bb.off

ReaderNext(bb) ==
  IF bb.head = bb.tail THEN bb
  ELSE [bb EXCEPT !.off = 0,
          !.head = Min({j \in bb.head + 1 .. bb.tail :
                          bb.segs[j].data # <<>> \/ j = bb.tail})]

ReaderReady(bb) == IF ReaderLeft(bb) > 0 THEN bb ELSE ReaderNext(bb)

\* The bytes between the reader and the writer, in order.
Unread(bb) ==
  SubSeq(bb.segs[bb.head].data, bb.off + 1, Len(bb.segs[bb.head].data)) \o
  FlattenSeq([j \in 1 .. bb.tail - bb.head |-> bb.segs[bb.head + j].data])

--------------------------------------------------------------------------
(* Top-level routines. *)

RECURSIVE TakeLoop(_, _, _)
TakeLoop(bb, size, got) ==
  LET n == ReaderLeft(bb)
      piece(k) == SubSeq(bb.segs[bb.head].data, bb.off + 1, bb.off + k)
  IN  IF n = 0 THEN <<bb, got>>
      ELSE IF n < size
      THEN LET nxt == ReaderNext([bb EXCEPT !.off = @ + n])
           IN  IF nxt.head = bb.head THEN <<nxt, got \o piece(n)>>
               ELSE TakeLoop(nxt, size - n, got \o piece(n))
      ELSE <<[bb EXCEPT !.off = @ + size], got \o piece(size)>>

\* mm_buffer_read and mm_buffer_skip: the new buffer and the bytes passed over.
Take(bb, size) == TakeLoop(ReaderReady(bb), size, <<>>)

RECURSIVE WriteLoop(_, _)
WriteLoop(bb, bytes) ==
  LET n == WriterRoom(bb)
      s == bb.segs[bb.tail]
  IN  IF n >= Len(bytes) THEN [bb EXCEPT !.segs = Append2(@, bb.tail, bytes)]
      ELSE IF n > 0
      THEN WriteLoop([bb EXCEPT !.segs = Append2(@, bb.tail, SubSeq(bytes, 1, n)),
                                !.tail = @ + 1],
                     SubSeq(bytes, n + 1, Len(bytes)))
      ELSE WriteLoop(IF Terminal(s) /\ bb.tail = Len(bb.segs)
                       THEN WriterGrow(bb, Len(bytes))
                       ELSE [bb EXCEPT !.tail = @ + 1],
                     bytes)

Write(bb, bytes) == WriteLoop(bb, bytes)

\* mm_buffer_vprintf: in place when the text and its NUL fit.
Vprintf(bb, bytes) ==
  LET r == WriterMakeReady(bb, 0)
  IN  IF Len(bytes) < WriterRoom(r)
        THEN [r EXCEPT !.segs = Append2(@, r.tail, bytes)]
        ELSE Write(r, bytes)

RECURSIVE InsertBump(_, _)
InsertBump(bb, area) ==
  LET n == WriterBump(bb, area - H)
  IN  IF InternalRoom(n.segs[n.tail]) + H < area THEN InsertBump(n, area) ELSE n

\* mm_buffer_segment_insert: a segment of the given type at the write position;
\* what is left of the segment it is cut from becomes the spare write segment.
Insert(bb, seg) ==
  LET s    == bb.segs[bb.tail]
      used == IF s.data = <<>> THEN 0 ELSE RoundUp(Len(s.data) + H)
      fit  == s.area - used >= seg.area
      n    == IF fit THEN bb ELSE InsertBump(bb, seg.area)
      keep == IF fit /\ used > 0 THEN <<[s EXCEPT !.area = used]>> ELSE <<>>
      free == IF fit THEN s.area - used ELSE n.segs[n.tail].area
      rest == IF free > seg.area
                THEN <<[Stub EXCEPT !.type = "internal", !.area = free - seg.area]>>
                ELSE <<>>
      i    == n.tail
  IN  [n EXCEPT !.segs = SubSeq(@, 1, i - 1) \o keep \o <<seg>> \o rest
                           \o SubSeq(@, i + 1, Len(@)),
                !.tail = i + Len(keep) + 1]

\* mm_buffer_splice: short data is copied, and its release is over at once.
Splice(bb, bytes, id) ==
  IF Len(bytes) < SpliceThreshold THEN Write(bb, bytes)
  ELSE Insert(bb, [type |-> "external", area |-> RoundUp(XSize), data |-> bytes, id |-> id])

Embed(bb, size) ==
  Insert(bb, [type |-> "embedded", area |-> RoundUp(size + H), data |-> <<>>, id |-> 0])

--------------------------------------------------------------------------
(* Compaction. *)

SumArea(segs, from, to) == SumFunctionOnSet([j \in DOMAIN segs |-> segs[j].area], from .. to)

\* The external segments with a release routine among the given indexes, in order.
Releases(segs, from, to) ==
  SelectSeq([j \in 1 .. to - from + 1 |-> segs[from + j - 1].id], LAMBDA i : i # 0)

\* The scan of mm_buffer_compact steps over terminal segments: when the reader
\* stands on one it is never met, and the scan ends with a NULL segment.
CompactRunsOff(bb) == bb.head # 1 /\ Terminal(bb.segs[bb.head])

\* What has been read is dropped: whole chunks are freed, the segments of the
\* reader's chunk before the reader are merged into an empty one.
Compact(bb) ==
  LET first  == ChunkStart(bb.segs, bb.head)
      done   == ReaderLeft(bb) = 0
      last   == IF done THEN bb.head ELSE bb.head - 1
      seg    == bb.segs[bb.head]
      passed == {j \in 2 .. bb.head - 1 : ~Terminal(bb.segs[j])}
      before == SumFunctionOnSet([j \in DOMAIN bb.segs |-> bb.segs[j].area], passed)
                  - H * Cardinality({j \in 2 .. first - 1 : Terminal(bb.segs[j])})
      consumed == before + (IF done THEN seg.area - H
                            ELSE IF seg.type = "internal" THEN bb.off ELSE seg.area)
      merged == IF last < first THEN <<>>
                ELSE <<[Stub EXCEPT !.type = "internal",
                                    !.area = SumArea(bb.segs, first, last)]>>
      shift(i) == i - last + 1 + Len(merged)
  IN  IF bb.head = 1 THEN bb
      ELSE [segs  |-> <<Stub>> \o merged \o SubSeq(bb.segs, last + 1, Len(bb.segs)),
            head  |-> IF done THEN 2 ELSE shift(bb.head),
            off   |-> IF done THEN 0 ELSE bb.off,
            tail  |-> IF done /\ bb.tail = bb.head THEN 2 ELSE shift(bb.tail),
            chunk |-> IF bb.chunk < consumed
                        THEN (IF consumed > MaxChunk THEN MaxChunk ELSE consumed)
                        ELSE bb.chunk]

CompactReleasesHead(bb) ==
  IF bb.head = 1 THEN <<>> ELSE Releases(bb.segs, 2, bb.head)

CompactReleases(bb) ==
  IF bb.head = 1 THEN <<>>
  ELSE Releases(bb.segs, 2, IF ReaderLeft(bb) = 0 THEN bb.head ELSE bb.head - 1)

--------------------------------------------------------------------------
(* In-place parsing. *)

RECURSIVE SpanBump(_, _, _)
SpanBump(bb, room, size) ==
  IF room >= size THEN bb
  ELSE LET n == WriterBump(bb, size)
       IN  SpanBump(n, InternalRoom(n.segs[n.tail]), size)

\* Unread data is moved in front of the data of the write segment; the segments
\* it is taken from keep only what has been read of them.
SpanSlow(bb, cnt) ==
  LET left == Len(Unread(bb))
      room == Room(bb.segs[bb.tail]) - (IF bb.tail = bb.head THEN bb.off ELSE 0)
      n    == SpanBump(bb, room, IF left > cnt THEN left ELSE cnt)
      all  == Unread(n)
      cut(j) == IF j = n.head THEN SubSeq(n.segs[j].data, 1, n.off) ELSE <<>>
  IN  IF n.tail = n.head THEN n
      ELSE IF left = Len(n.segs[n.tail].data)
      THEN [n EXCEPT !.head = n.tail, !.off = 0]
      ELSE [n EXCEPT !.segs = [j \in DOMAIN @ |->
                                 IF j \in n.head .. n.tail - 1
                                   THEN [@[j] EXCEPT !.data = cut(j)]
                                 ELSE IF j = n.tail THEN [@[j] EXCEPT !.data = all]
                                 ELSE @[j]],
                     !.head = n.tail, !.off = 0]

SpanTooLarge(cnt) == cnt > MaxChunk
SpanGivesUp(bb, cnt) == ~SpanTooLarge(cnt) /\ Len(Unread(bb)) > MaxChunk

\* The span that is there already: up to the end of the data, or of the room
\* when the reader stands on the write segment.
SpanHere(bb) ==
  (IF bb.head # bb.tail THEN Len(bb.segs[bb.head].data) ELSE Room(bb.segs[bb.tail])) - bb.off

Span(bb, cnt) == IF SpanHere(bb) >= cnt \/ SpanTooLarge(cnt) THEN bb ELSE SpanSlow(bb, cnt)

\* mm_buffer_find for a byte that is `at' bytes ahead (or nowhere): data is moved
\* only when the byte is not in the reader's segment.
FindMoves(bb, at) == at >= ReaderLeft(bb) /\ at < Len(Unread(bb)) /\ ~SpanTooLarge(at + 1)

--------------------------------------------------------------------------
(* The socket side: netbuf.c. *)

\* The segments mm_netbuf_fill_iov offers to readv, with their room.
RECURSIVE FillIov(_, _, _, _)
FillIov(bb, size, room, iov) ==
  IF Len(iov) > 1 /\ ~(room < size /\ Len(iov) < MaxIov) THEN <<bb, iov>>
  ELSE LET n == WriterBump(bb, size - room)
           k == InternalRoom(n.segs[n.tail])
       IN  FillIov(n, size, room + k, Append(iov, <<n.tail, k>>))

\* Segments are marked as occupied along mm_buffer_writer_next.
RECURSIVE FillMark(_, _)
FillMark(bb, bytes) ==
  LET n == WriterRoom(bb)
  IN  IF n >= Len(bytes) THEN [bb EXCEPT !.segs = Append2(@, bb.tail, bytes)]
      ELSE FillMark(WriterNext([bb EXCEPT !.segs = Append2(@, bb.tail, SubSeq(bytes, 1, n))]),
                    SubSeq(bytes, n + 1, Len(bytes)))

IovSize(iov) == SumFunction([i \in DOMAIN iov |-> iov[i][2]])

\* The data segments mm_netbuf_flush_iov offers to writev.
RECURSIVE FlushIov(_, _)
FlushIov(bb, cnt) ==
  LET n == ReaderNext(bb)
  IN  ReaderLeft(bb) +
      (IF cnt = MaxIov \/ n.head = bb.head \/ ReaderLeft(n) = 0 THEN 0 ELSE FlushIov(n, cnt + 1))

FlushLimit(bb) ==
  IF bb.head = bb.tail THEN ReaderLeft(bb) ELSE FlushIov(bb, 1)

--------------------------------------------------------------------------
(* Steps.  An operation is not entered after the program ended. *)

Prepared == [segs |-> <<Stub>>, head |-> 1, off |-> 0, tail |-> 1,
             chunk |-> IF ChunkSize > MaxChunk THEN MaxChunk ELSE ChunkSize]

Init ==
  /\ role \in {"rx", "tx"}
  /\ b = Prepared /\ wrote = 0 /\ out = <<>> /\ saved = NoneSaved
  /\ released = <<>> /\ dead = FALSE /\ ops = 0

Step(r) == ~dead /\ role = r /\ ops < MaxOps /\ ops' = ops + 1 /\ UNCHANGED role

Bytes(n) == [i \in 1 .. n |-> wrote + i]

Put(bb, n) == b' = bb /\ wrote' = wrote + n

Get(pair) == b' = pair[1] /\ out' = out \o pair[2]

Fill(size) ==
  /\ Step("rx")
  /\ LET r   == WriterMakeReady(b, size)
         one == WriterRoom(r) >= size
         fi  == FillIov(r, size, WriterRoom(r), <<<<r.tail, WriterRoom(r)>>>>)
         g   == IF one THEN r ELSE [fi[1] EXCEPT !.tail = r.tail]
         lim == IF one THEN WriterRoom(r) ELSE IovSize(fi[2])
     IN  \E n \in 0 .. Min({lim, MaxBytes - wrote}) :
           Put(IF n = 0 THEN g ELSE ReaderReady(FillMark(g, Bytes(n))), n)
  /\ UNCHANGED <<out, saved, released, dead>>

Read(size) ==
  /\ Step("rx") /\ Get(Take(b, size))
  /\ UNCHANGED <<wrote, saved, released, dead>>

SpanStep(cnt) ==
  /\ Step("rx")
  /\ IF SpanHere(b) < cnt /\ SpanGivesUp(b, cnt) THEN dead' = TRUE /\ UNCHANGED b
     ELSE b' = Span(b, cnt) /\ UNCHANGED dead
  /\ UNCHANGED <<wrote, out, saved, released>>

FindStep(at) ==
  /\ Step("rx")
  /\ IF FindMoves(b, at) /\ SpanGivesUp(b, at + 1) THEN dead' = TRUE /\ UNCHANGED b
     ELSE /\ b' = IF FindMoves(b, at) THEN SpanSlow(b, at + 1) ELSE b
          /\ UNCHANGED dead
  /\ UNCHANGED <<wrote, out, saved, released>>

Save ==
  /\ Step("rx") /\ saved' = [seg |-> b.head, off |-> b.off, len |-> Len(out)]
  /\ UNCHANGED <<b, wrote, out, released, dead>>

\* Reading starts over at the safe point.
Restore ==
  /\ Step("rx") /\ saved # NoneSaved
  /\ b' = [b EXCEPT !.head = saved.seg, !.off = saved.off]
  /\ out' = SubSeq(out, 1, saved.len)
  /\ UNCHANGED <<wrote, saved, released, dead>>

EmbedStep(size) ==
  /\ Step("tx") /\ b' = Embed(b, size)
  /\ UNCHANGED <<wrote, out, saved, released, dead>>

WriteStep(size) ==
  /\ Step("tx") /\ wrote + size <= MaxBytes /\ Put(Write(b, Bytes(size)), size)
  /\ UNCHANGED <<out, saved, released, dead>>

\* A value is sent as a printed head and the spliced data of its entry, which is
\* named after its last byte (mc_command_transmit and its binary twin).
Transmit(size) ==
  /\ Step("tx") /\ wrote + 1 + size <= MaxBytes
  /\ Put(Splice(Vprintf(b, Bytes(1)), [i \in 1 .. size |-> wrote + 1 + i], wrote + 1 + size),
         1 + size)
  /\ UNCHANGED <<out, saved, released, dead>>

Flush ==
  /\ Step("tx")
  /\ LET r == ReaderReady(b)
     IN  IF ReaderLeft(r) = 0 THEN b' = r /\ UNCHANGED out
         ELSE \E n \in 0 .. FlushLimit(r) :
                IF n = 0 THEN b' = r /\ UNCHANGED out ELSE Get(TakeLoop(r, n, <<>>))
  /\ UNCHANGED <<wrote, saved, released, dead>>

CompactStep ==
  /\ Step(role)
  /\ IF CompactRunsOff(b) THEN dead' = TRUE /\ UNCHANGED <<b, released>>
     ELSE /\ b' = Compact(b) /\ released' = released \o CompactReleases(b)
          /\ UNCHANGED dead
  /\ saved' = NoneSaved
  /\ UNCHANGED <<wrote, out>>

Cleanup ==
  /\ ~dead /\ dead' = TRUE
  /\ released' = released \o Releases(b.segs, 2, Len(b.segs))
  /\ b' = Prepared /\ wrote' = 0 /\ out' = <<>> /\ saved' = NoneSaved
  /\ UNCHANGED <<role, ops>>

Next ==
  \/ \E n \in Sizes : \/ Fill(n) \/ Read(n) \/ SpanStep(n) \/ FindStep(n)
                      \/ EmbedStep(n) \/ WriteStep(n) \/ Transmit(n)
  \/ Save \/ Restore \/ Flush \/ CompactStep \/ Cleanup

Spec == Init /\ [][Next]_bvars

--------------------------------------------------------------------------
(* The stream. *)

External == {b.segs[j].id : j \in 1 .. Len(b.segs)} \ {0}

(* What went into a buffer comes out of it once and in order, whatever the   *)
(* mixture of writes, splices, embedded blocks, short transfers, rewinds,    *)
(* consolidations and compactions: the bytes taken out followed by the bytes *)
(* between reader and writer are all bytes put in.  The segments behind the  *)
(* writer hold nothing, as mm_buffer_write assumes of those it moves to.  An *)
(* external segment is released once and not while a byte of it is unread.   *)
StreamExact ==
  /\ out \o Unread(b) = [i \in 1 .. wrote |-> i]
  /\ \A j \in b.tail + 1 .. Len(b.segs) :
       b.segs[j].data = <<>> /\ b.segs[j].type \in {"internal", "terminal"}
  /\ IsInjective(released)
  /\ Range(released) \cap (External \cup Range(Unread(b))) = {}
  /\ \A i \in 1 .. Len(b.segs) : Len(b.segs[i].data) <= Room(b.segs[i])
=============================================================================
