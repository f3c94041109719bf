----------------------------- MODULE AsyncFraming -----------------------------
(***************************************************************************)
(* capnp-futures/src/serialize.rs: the asynchronous reader and writer of   *)
(* framed messages.                                                        *)
(*                                                                         *)
(* The future of try_read_message is a record: its phase, what the read    *)
(* that is under way has got so far (buf) and, once they are known, the    *)
(* lengths of the segments.  Wanted is the room it offers to poll_read,    *)
(* Fed what it does with what it gets, AtEnd with the end of the stream.   *)
(* It is over in the phases "message", "none" and "err".                   *)
(***************************************************************************)
EXTENDS Framing

read_segment_table_start == [phase |-> "first", buf |-> << >>, lengths |-> << >>]

Over(r) == r.phase \in {"message", "none", "err"}
Failed(r) == [r EXCEPT !.phase = "err", !.buf = << >>]

\* read_segments: one read_exact of all the segments, which asks for nothing
\* when there is nothing to read.
read_segments(lengths, buf) ==
    [phase |-> IF Len(buf) = 2 * Total(lengths) THEN "message" ELSE "body",
     buf |-> buf, lengths |-> lengths]

\* The lengths are known: the traversal limit comes before the allocation.
check_limit(r, lengths, limit) ==
    IF Total(lengths) > limit THEN Failed(r) ELSE read_segments(lengths, << >>)

\* parse_segment_table_first, and the rest of the table if there is one.  The
\* phase "table" keeps the first word in front of its buf.
parse_segment_table_first(r, buf, limit) ==
    LET count == (buf[1] + 1) % U32
    IN IF count >= SEGMENTS_COUNT_LIMIT \/ count = 0 THEN Failed(r)
       ELSE IF count = 1 THEN check_limit(r, <<buf[2]>>, limit)
       ELSE [r EXCEPT !.phase = "table", !.buf = buf]

\* Mutant: the padding of the table is not read.
WantedUnpadded(r) ==
    CASE r.phase \in {"first", "rest"} -> 2 - Len(r.buf)
      [] r.phase = "table" -> 2 + r.buf[1] - Len(r.buf)
      [] r.phase = "body" -> 2 * Total(r.lengths) - Len(r.buf)

\* What the read under way asks for.
Wanted(r) ==
    CASE r.phase \in {"first", "rest"} -> 2 - Len(r.buf)
      [] r.phase = "table" -> 2 + Even(r.buf[1] + 1) - Len(r.buf)
      [] r.phase = "body" -> 2 * Total(r.lengths) - Len(r.buf)

\* read_segment_table and read_segments go on with the units they were given.
Fed(r, units, limit) ==
    LET buf == r.buf \o units IN
    CASE r.phase \in {"first", "rest"} ->
            IF Len(buf) < 2 THEN [r EXCEPT !.phase = "rest", !.buf = buf]
            ELSE parse_segment_table_first(r, buf, limit)
      [] r.phase = "table" ->
            IF Len(units) < Wanted(r) THEN [r EXCEPT !.buf = buf]
            ELSE check_limit(r, SubSeq(buf, 2, buf[1] + 2), limit)
      [] r.phase = "body" -> read_segments(r.lengths, buf)

\* Mutant: an end of the stream inside the first word is a clean one.
AtEndQuiet(r) ==
    IF r.phase \in {"first", "rest"} THEN [r EXCEPT !.phase = "none"] ELSE Failed(r)

\* poll_read gives 0: the end is clean before the first byte of a message,
\* and fails every read_exact.
AtEnd(r) ==
    IF r.phase = "first" THEN [r EXCEPT !.phase = "none"] ELSE Failed(r)

\* The result of try_read_message.
Result(r, taken) ==
    CASE r.phase = "message" -> Ok(get_segment(r.buf, r.lengths), taken)
      [] r.phase = "none" -> None
      [] r.phase = "err" -> Err

\* write_segment_table and write_segments: the buffers given to write_all.
async_write_segment_table(segments) ==
    LET n == Len(segments) IN
    << <<n - 1, Words(segments[1])>> >> \o
    (IF n = 1 THEN << >>
     ELSE << [i \in 1 .. Even(n) |->
                  IF i < n THEN Words(segments[i + 1]) ELSE 0] >>)
async_write_message(segments) == async_write_segment_table(segments) \o segments
=============================================================================
