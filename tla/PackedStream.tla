----------------------------- MODULE PackedStream -----------------------------
(***************************************************************************)
(* capnp-futures/src/serialize_packed.rs: the asynchronous packing writer  *)
(* and unpacking reader, under every pattern of partial writes, partial    *)
(* reads and Pending of the streams below them, together with the framing  *)
(* above them (AsyncFraming), and next to the synchronous readers and      *)
(* writers of the same format (Framing, Packing).                          *)
(*                                                                         *)
(* A behaviour reads one message.  Where it comes from is its source:      *)
(*   "async"  the asynchronous packer;                                     *)
(*   "sync"   the synchronous packer;                                      *)
(*   "peer"   an arbitrary packed stream;                                  *)
(*   "plain"  an arbitrary unpacked stream, read without PackedRead.       *)
(* The unpacking reader only sees how much each read gives it, so it       *)
(* starts when the stream is complete.                                     *)
(***************************************************************************)
EXTENDS AsyncFraming, Packing

CONSTANTS
    Sources,        \* the sources above that are looked at
    Contents,       \* the messages that are written, as lists of segments
    PeerByte,       \* the units of an arbitrary packed stream
    MaxPeer,        \* bound: its length
    DataByte,       \* the units of the segments of an arbitrary stream
    Limit           \* the traversal limit, in words

VARIABLES
    source, content,
    bufs,               \* what is left to give to write_all, the current one first
    w,                  \* PackedWrite: stage, buf, packed_buf and the run, in words
    packed,             \* the packed stream
    written,            \* it is complete
    taken,              \* how much of it has been read
    u,                  \* PackedRead: stage, buf, buf_size and the run, in units
    r,                  \* the try_read_message above it
    plain               \* the units it was given

writing == <<bufs, w>>
reading == <<taken, u, r, plain>>
stream_vars == <<source, content, packed, written, writing, reading>>

StreamInit ==
    /\ source \in Sources
    /\ content \in IF source \in {"async", "sync"} THEN Contents ELSE {<< >>}
    /\ bufs = IF source = "async"
              THEN SelectSeq(async_write_message(content), LAMBDA b : b # << >>)
              ELSE << >>
    /\ w = [stage |-> "Start", buf |-> << >>, packed_buf |-> << >>, run |-> 0]
    /\ packed = IF source = "sync" THEN packed_write_message(content) ELSE << >>
    /\ written = (source \in {"sync", "plain"})
    /\ taken = 0
    /\ u = [stage |-> "Start", buf |-> << >>, size |-> 4, run |-> 0]
    /\ r = read_segment_table_start
    /\ plain = << >>

-----------------------------------------------------------------------------
(* PackedWrite *)

\* The rest of the buffer write_all was called with; none is left when
\* FinishPendingWrites polls.
inbuf == IF bufs = << >> THEN << >> ELSE Head(bufs)
Rest(n) == <<SubSeq(inbuf, n + 1, Len(inbuf))>> \o Tail(bufs)

Writing == source = "async" /\ ~ written

\* PackedWriteStage::Start: bytes are collected until there is a word.
WriteStart ==
    /\ Writing /\ w.stage = "Start" /\ inbuf # << >>
    /\ LET n == Min({2 - Len(w.buf), Len(inbuf)})
           buf == w.buf \o SubSeq(inbuf, 1, n)
       IN /\ bufs' = Rest(n)
          /\ w' = IF Len(buf) < 2 THEN [w EXCEPT !.buf = buf]
                  ELSE [w EXCEPT !.buf = << >>, !.stage = "WriteWord",
                        !.packed_buf = <<Tag(buf)>> \o SelectSeq(buf, NonZero)]
    /\ UNCHANGED <<source, content, packed, written, reading>>

\* A poll that has packed all of its buffer returns, from Start or because the
\* stream below is Pending: write_all is done, and the next one polls with a
\* buffer of its own.
NextBuffer ==
    /\ Writing /\ bufs # << >> /\ inbuf = << >>
    /\ bufs' = Tail(bufs)
    /\ UNCHANGED <<source, content, w, packed, written, reading>>

\* The run that follows a word, as far as this poll's buffer goes.
RunAfter(tag) ==
    LET words == WordsOf(inbuf) IN
    CASE tag = 0 -> RunLength(words, 1, Len(words), IsZero)
      [] tag = FULL -> RunLength(words, 1, Len(words), FewZeros)

\* PackedWriteStage::WriteWord: n bytes of the tag and the word are accepted
\* by the stream below; w.buf holds those accepted so far.
WriteWord(n) ==
    /\ Writing /\ w.stage = "WriteWord"
    /\ n <= Len(w.packed_buf) - Len(w.buf)
    /\ LET buf == SubSeq(w.packed_buf, 1, Len(w.buf) + n)
           tag == w.packed_buf[1]
       IN /\ packed' = packed \o SubSeq(buf, Len(w.buf) + 1, Len(buf))
          /\ w' = IF buf # w.packed_buf THEN [w EXCEPT !.buf = buf]
                  ELSE IF tag \in {0, FULL}
                  THEN [w EXCEPT !.buf = buf, !.run = RunAfter(tag),
                        !.stage = "WriteRunWordCount"]
                  ELSE [w EXCEPT !.buf = << >>, !.stage = "Start"]
    /\ UNCHANGED <<source, content, bufs, written, reading>>

\* PackedWriteStage::WriteRunWordCount: the count is cut to a byte.
WriteRunWordCount ==
    /\ Writing /\ w.stage = "WriteRunWordCount"
    /\ packed' = Append(packed, w.run % (RUN_MAX + 1))
    /\ IF w.packed_buf[1] = 0
       THEN /\ bufs' = IF bufs = << >> THEN bufs ELSE Rest(2 * w.run)
            /\ w' = [w EXCEPT !.buf = << >>, !.stage = "Start"]
       ELSE /\ w' = [w EXCEPT !.stage = "WriteUncompressedRun", !.run = 2 * w.run]
            /\ UNCHANGED bufs
    /\ UNCHANGED <<source, content, written, reading>>

\* PackedWriteStage::WriteUncompressedRun: run is in bytes here.
WriteUncompressedRun(n) ==
    /\ Writing /\ w.stage = "WriteUncompressedRun" /\ n <= w.run
    /\ n = 0 => w.run = 0
    /\ packed' = packed \o SubSeq(inbuf, 1, n)
    /\ bufs' = IF bufs = << >> THEN bufs ELSE Rest(n)
    /\ w' = IF n < w.run THEN [w EXCEPT !.run = w.run - n]
            ELSE [w EXCEPT !.buf = << >>, !.stage = "Start"]
    /\ UNCHANGED <<source, content, written, reading>>

\* Mutant: the packer is dropped as soon as its last write_all returns.
FinishWritesEarly ==
    /\ Writing /\ bufs = << >>
    /\ written' = TRUE
    /\ UNCHANGED <<source, content, packed, writing, reading>>

\* write_message is over: FinishPendingWrites has nothing to finish.
FinishWrites ==
    /\ Writing /\ bufs = << >>
    /\ w.stage \notin {"WriteWord", "WriteRunWordCount"}
    /\ written' = TRUE
    /\ UNCHANGED <<source, content, packed, writing, reading>>

-----------------------------------------------------------------------------
(* Arbitrary streams *)

PeerWrites(byte) ==
    /\ source = "peer" /\ ~ written /\ Len(packed) < MaxPeer
    /\ packed' = Append(packed, byte)
    /\ UNCHANGED <<source, content, written, writing, reading>>

PeerCloses ==
    /\ source = "peer" /\ ~ written /\ written' = TRUE
    /\ UNCHANGED <<source, content, packed, writing, reading>>

Read(units) == r' = Fed(r, units, Limit) /\ plain' = plain \o units

\* A read of the plain stream gives n units.
ReadPlain(n) ==
    /\ source = "plain" /\ ~ Over(r) /\ n <= Wanted(r)
    /\ \E units \in [1 .. n -> IF r.phase = "body" THEN DataByte ELSE 0 .. U32 - 1] :
            Read(units)
    /\ UNCHANGED <<source, content, packed, written, writing, taken, u>>

PlainEnds ==
    /\ source = "plain" /\ ~ Over(r)
    /\ r' = AtEnd(r)
    /\ UNCHANGED <<source, content, packed, written, writing, taken, u, plain>>

-----------------------------------------------------------------------------
(* PackedRead *)

Unpacking == source # "plain" /\ written /\ ~ Over(r)
Ended == taken = Len(packed)

\* The read below gives n units, at most max.
Taken(n, max) ==
    /\ n <= max /\ taken + n <= Len(packed)
    /\ taken' = taken + n
NextUnits(n) == SubSeq(packed, taken + 1, taken + n)

\* Mutant: the count of a zero run includes its first word.
TaggedShort(buf) ==
    IF buf[1] = 0
    THEN [stage |-> "WritingZeroes", buf |-> buf, size |-> u.size,
          run |-> 2 * buf[2]]
    ELSE LET size == IF buf[1] = FULL THEN 4 ELSE 1 + Ones(buf[1])
         IN [stage |-> IF Len(buf) >= size THEN "DrainingBuffer" ELSE "BufferingWord",
             buf |-> buf, size |-> size, run |-> u.run]

\* What follows from a tag and the byte after it.
Tagged(buf) ==
    IF buf[1] = 0
    THEN [stage |-> "WritingZeroes", buf |-> buf, size |-> u.size,
          run |-> 2 * (buf[2] + 1)]
    ELSE LET size == IF buf[1] = FULL THEN 4 ELSE 1 + Ones(buf[1])
         IN [stage |-> IF Len(buf) >= size THEN "DrainingBuffer" ELSE "BufferingWord",
             buf |-> buf, size |-> size, run |-> u.run]

\* PackedReadStage::Start.
ReadStart(n) ==
    /\ Unpacking /\ u.stage = "Start"
    /\ Taken(n, 2 - Len(u.buf))
    /\ LET buf == u.buf \o NextUnits(n)
       IN u' = IF Len(buf) < 2 THEN [u EXCEPT !.buf = buf] ELSE Tagged(buf)
    /\ UNCHANGED <<source, content, packed, written, writing, r, plain>>

\* PackedReadStage::WritingZeroes.
WritingZeroes ==
    /\ Unpacking /\ u.stage = "WritingZeroes"
    /\ LET n == Min({Wanted(r), u.run})
       IN /\ Read([i \in 1 .. n |-> 0])
          /\ u' = IF n >= u.run
                  THEN [u EXCEPT !.buf = << >>, !.stage = "Start"]
                  ELSE [u EXCEPT !.run = u.run - n]
    /\ UNCHANGED <<source, content, packed, written, writing, taken>>

\* PackedReadStage::BufferingWord.
BufferingWord(n) ==
    /\ Unpacking /\ u.stage = "BufferingWord"
    /\ Taken(n, u.size - Len(u.buf))
    /\ LET buf == u.buf \o NextUnits(n)
       IN u' = [u EXCEPT !.buf = buf,
                !.stage = IF Len(buf) = u.size THEN "DrainingBuffer" ELSE @]
    /\ UNCHANGED <<source, content, packed, written, writing, r, plain>>

\* PackedReadStage::DrainingBuffer.  A word is drained at once: the reads of
\* try_read_message are whole words, and only a passthrough run is cut.
DrainingBuffer ==
    /\ Unpacking /\ u.stage = "DrainingBuffer" /\ Wanted(r) >= 2
    /\ LET tag == u.buf[1] IN
       /\ Read(Unpacked(tag, SubSeq(u.buf, 2, 1 + Ones(tag))))
       /\ u' = IF tag = FULL
               THEN [u EXCEPT !.stage = "WritingPassthrough", !.buf = << >>,
                     !.run = 2 * u.buf[4]]
               ELSE [u EXCEPT !.stage = "Start", !.buf = << >>]
    /\ UNCHANGED <<source, content, packed, written, writing, taken>>

\* PackedReadStage::WritingPassthrough.
WritingPassthrough(n) ==
    /\ Unpacking /\ u.stage = "WritingPassthrough"
    /\ Taken(n, Min({u.run, Wanted(r)}))
    /\ Read(NextUnits(n))
    /\ u' = [u EXCEPT !.run = u.run - n,
             !.stage = IF n >= u.run THEN "Start" ELSE @]
    /\ UNCHANGED <<source, content, packed, written, writing>>

PassthroughOver ==
    /\ Unpacking /\ u.stage = "WritingPassthrough" /\ u.run = 0
    /\ u' = [u EXCEPT !.stage = "Start"]
    /\ UNCHANGED <<source, content, packed, written, writing, taken, r, plain>>

\* The read below gives 0: an error in the middle of a word, the end to the
\* reader above it elsewhere, also after a tag without its next byte.
UnpackEnd ==
    /\ Unpacking /\ Ended
    /\ \/ u.stage = "BufferingWord" /\ r' = Failed(r)
       \/ u.stage = "Start" /\ r' = AtEnd(r)
       \/ u.stage = "WritingPassthrough" /\ u.run # 0 /\ r' = AtEnd(r)
    /\ UNCHANGED <<source, content, packed, written, writing, taken, u, plain>>

-----------------------------------------------------------------------------

StreamNext ==
    \/ WriteStart \/ NextBuffer \/ WriteRunWordCount \/ FinishWrites
    \/ \E n \in 1 .. 3 : WriteWord(n)
    \/ \E n \in 0 .. Len(inbuf) : WriteUncompressedRun(n)
    \/ \E byte \in PeerByte : PeerWrites(byte)
    \/ PeerCloses
    \/ \E n \in 1 .. SEGMENTS_COUNT_LIMIT : ReadPlain(n)
    \/ PlainEnds
    \/ \E n \in 1 .. 2 : ReadStart(n) \/ BufferingWord(n)
    \/ WritingZeroes \/ DrainingBuffer \/ PassthroughOver \/ UnpackEnd
    \/ \E n \in 1 .. Len(packed) : WritingPassthrough(n)

StreamSpec == StreamInit /\ [][StreamNext]_stream_vars

-----------------------------------------------------------------------------
(* Properties *)

\* What the asynchronous reader has come to.
Outcome == Result(r, taken)

\* A message that was packed, by whichever writer and however the streams
\* below cut it, is read back whole, nothing of its stream is left over, and
\* the synchronous reader finds it in what the synchronous writer wrote.
RoundTrip ==
    source \in {"async", "sync"} /\ Over(r) =>
        /\ Outcome = Ok(content, Len(packed))
        /\ source = "sync" => packed_try_read_message(packed, Limit) = Outcome

\* A stream and what write_message would write, apart from the padding.
SamePadded(stream, buffers) ==
    LET other == FlattenSeq(buffers)
        count == stream[1] + 1
    IN /\ Len(stream) = Len(other)
       /\ \A i \in DOMAIN stream :
            stream[i] = other[i] \/ (i = count + 2 /\ count % 2 = 0)

\* The stream ends after the first word of a segment table and before the end of it.
EndsInTable(stream) ==
    /\ Len(stream) >= 2
    /\ Len(stream) < 2 + Even((stream[1] + 1) % U32)

\* On any stream, in whatever pieces it comes, the asynchronous reader agrees
\* with the readers of capnp/src/serialize.rs, which agree with each other;
\* and what they accept is what the writers write, padding aside, to a stream
\* or into a flat buffer, and as long as compute_serialized_size says.
\* Two of the readers agree with the others but for what is written here.
\* BufferSegments, of a message whose segments are cut off, does not return
\* an error but panics.  try_read_message_no_alloc ignores what the reads of
\* the table give (line 370): it is compared where they give what they are
\* asked for, and where the stream ends inside the table, which all the others
\* refuse, nothing is said of it: it accepts some of these streams.
ReadersAgree ==
    source = "plain" /\ Over(r) =>
        LET result == Result(r, Len(plain))
            flat == IF result = None THEN Err ELSE result
            cut == flat = Err /\ read_segment_table(plain, Limit).k = "ok"
        IN /\ try_read_message(plain, Limit) = result
           /\ read_message(plain, Limit) = flat
           /\ read_message_from_flat_slice(plain, Limit) = flat
           /\ read_message_from_flat_slice_no_alloc(plain, Limit) = flat
           /\ BufferSegments(plain, Limit) = IF cut THEN [k |-> "panic"] ELSE flat
           /\ ~EndsInTable(plain) =>
                  try_read_message_no_alloc(plain, Limit, <<0, 0>>) = result
           /\ flat # Err => /\ try_read_message(Append(plain, 0), Limit) = flat
                            /\ SamePadded(plain, write_message(flat.segments))
                            /\ flatten_segments(flat.segments)
                                 = FlattenSeq(write_message(flat.segments))
                            /\ compute_serialized_size(flat.segments) = Len(plain)

\* On any packed stream the two unpackers agree on the messages: whatever the
\* synchronous one accepts, the asynchronous one accepts, and it accepts no
\* other message in its place.
UnpackersAgree ==
    source = "peer" /\ Over(r) =>
        LET sync == packed_try_read_message(packed, Limit) IN
        /\ sync.k = "ok" => Outcome = sync
        /\ Outcome.k = "ok" => sync \in {Outcome, Err}
        /\ sync = None => Outcome = None
=============================================================================
