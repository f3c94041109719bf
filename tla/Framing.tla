------------------------------- MODULE Framing -------------------------------
(***************************************************************************)
(* capnp/src/serialize.rs and serialize/no_alloc_buffer_segments.rs: the   *)
(* framing of a message, and its four readers.                             *)
(*                                                                         *)
(* A stream is a sequence of units of four bytes, each a number below U32; *)
(* a word is two of them, a segment an even number of them.  usize is the  *)
(* 64-bit one: a sum of fewer than 512 u32 never overflows it.  A stream   *)
(* that ends inside a unit is refused like one that ends before it.        *)
(*                                                                         *)
(* A reader gives None at a clean end, Err, or the segments and how many   *)
(* units it took from the stream.                                          *)
(***************************************************************************)
EXTENDS Integers, Sequences, SequencesExt

CONSTANTS
    U32,                    \* the modulus of a unit (2^32 in the code)
    SEGMENTS_COUNT_LIMIT    \* 512 in the code

ASSUME FramingAssumption ==
    /\ U32 \in Nat /\ SEGMENTS_COUNT_LIMIT \in 2 .. U32

Words(segment) == Len(segment) \div 2
Even(n) == n - (n % 2)

None == [k |-> "none"]
Err == [k |-> "err"]
Ok(segments, taken) == [k |-> "ok", segments |-> segments, taken |-> taken]

\* The numbers before position i of a sequence of lengths, added up.
Before(lengths, i) == SumFunctionOnSet(lengths, 1 .. i - 1)
Total(lengths) == SumFunction(lengths)

-----------------------------------------------------------------------------
(* Writing: what each write_all call is given, in order *)

\* write_segment_table_internal.
write_segment_table_internal(segments) ==
    LET n == Len(segments) IN
    << <<n - 1, Words(segments[1])>> >> \o
    (IF n = 1 THEN << >>
     ELSE << [i \in 1 .. Even(n) |->
                  IF i < n THEN Words(segments[i + 1]) ELSE 0] >>)

\* write_segments.
write_segments(segments) == segments

\* write_message, write_message_segments.
write_message(segments) ==
    write_segment_table_internal(segments) \o write_segments(segments)

\* compute_serialized_size, in units.
compute_serialized_size(segments) ==
    2 * (Len(segments) \div 2 + 1)
        + Total([i \in DOMAIN segments |-> Len(segments[i])])

\* flatten_segments: the table is written into space reserved by its own
\* formula, which write_all must neither overrun nor leave unused; the
\* segments are appended.
flatten_segments(segments) ==
    LET table_size == Len(segments) \div 2 + 1
        table == FlattenSeq(write_segment_table_internal(segments))
    IN [i \in 1 .. 2 * table_size |-> IF i \in DOMAIN table THEN table[i] ELSE 0]
       \o FlattenSeq(segments)

-----------------------------------------------------------------------------
(* Reading with allocation *)

\* The segments that lengths cut out of the words of space: what
\* try_push_segment, to_segment_indices and OwnedSegments::get_segment do.
get_segment(space, lengths) ==
    [id \in DOMAIN lengths |->
        LET a == Before(lengths, id)
            b == a + lengths[id]
        IN SubSeq(space, 2 * a + 1, 2 * b)]

\* read_segment_table: None, Err, or the lengths and the units taken.
read_segment_table(stream, limit) ==
    IF stream = << >> THEN None
    ELSE IF Len(stream) < 2 THEN Err
    ELSE LET count == (stream[1] + 1) % U32
             table == IF count > 1 THEN 2 + Even(count) ELSE 2
             lengths == SubSeq(stream, 2, count + 1)
         IN IF \/ count >= SEGMENTS_COUNT_LIMIT \/ count = 0
               \/ Len(stream) < table
               \/ Total(lengths) > limit
            THEN Err ELSE Ok(lengths, table)

\* try_read_message: read_segments is one read_exact of all the segments.
try_read_message(stream, limit) ==
    LET table == read_segment_table(stream, limit) IN
    IF table.k # "ok" THEN table
    ELSE LET taken == table.taken + 2 * Total(table.segments)
         IN IF Len(stream) < taken THEN Err
            ELSE Ok(get_segment(SubSeq(stream, table.taken + 1, taken),
                                table.segments), taken)

\* read_message: an empty stream is an error.
read_message(stream, limit) ==
    LET message == try_read_message(stream, limit)
    IN IF message = None THEN Err ELSE message

\* read_message_from_flat_slice: the segments stay where they are.
read_message_from_flat_slice(slice, limit) ==
    LET table == read_segment_table(slice, limit) IN
    IF table.k # "ok" THEN Err
    ELSE LET num_words == Total(table.segments)
             body == SubSeq(slice, table.taken + 1, Len(slice))
         IN IF num_words > Words(body) THEN Err
            ELSE Ok(get_segment(body, table.segments),
                    table.taken + 2 * num_words)

\* BufferSegments::new and its get_segment: a buffer too short for the
\* message is not refused but panics, in new or when a segment is asked for.
BufferSegments(buffer, limit) ==
    LET table == read_segment_table(buffer, limit)
        words == Total(table.segments)
    IN IF table.k # "ok" THEN Err
       ELSE IF \/ 2 * words > Len(buffer)
               \/ table.taken + 2 * words > Len(buffer)
       THEN [k |-> "panic"]
       ELSE Ok(get_segment(SubSeq(buffer, table.taken + 1, Len(buffer)),
                           table.segments), table.taken + 2 * words)

-----------------------------------------------------------------------------
(* Reading without allocation *)

\* no_alloc_buffer_segments.rs calculate_data_offset, in units.
calculate_data_offset(segments_count) ==
    LET end == 1 + segments_count IN end + (end % 2)

\* NoAllocBufferSegments::get_segment and len: nothing but the buffer is
\* kept, the table is parsed again for each segment.
no_alloc_get_segment(buffer) ==
    LET count == buffer[1] + 1
        Offset(idx) == calculate_data_offset(count)
            + 2 * Before(SubSeq(buffer, 2, count + 1), idx)
    IN [idx \in 1 .. count |->
            SubSeq(buffer, Offset(idx) + 1, Offset(idx) + 2 * buffer[idx + 1])]

\* no_alloc_buffer_segments.rs read_segment_table: the count does not wrap,
\* the padding is read after the limit is checked.
no_alloc_read_segment_table(slice, limit) ==
    IF slice = << >> THEN Err
    ELSE LET count == slice[1] + 1
             lengths == SubSeq(slice, 2, count + 1)
             offset == calculate_data_offset(count)
         IN IF \/ count >= SEGMENTS_COUNT_LIMIT
               \/ Len(slice) < 1 + count
               \/ Total(lengths) > limit
               \/ count % 2 = 0 /\ Len(slice) < 2 + count
               \/ Len(slice) - offset < 2 * Total(lengths)
            THEN Err ELSE Ok(lengths, offset)

\* read_message_from_flat_slice_no_alloc, NoAllocBufferSegments::from_slice.
read_message_from_flat_slice_no_alloc(slice, limit) ==
    LET table == no_alloc_read_segment_table(slice, limit) IN
    IF table = Err THEN Err
    ELSE LET taken == table.taken + 2 * Total(table.segments)
         IN Ok(no_alloc_get_segment(SubSeq(slice, 1, taken)), taken)

\* try_read_message_no_alloc with a buffer that is large enough and holds
\* zeros.  The table is read two units at a time, with read and not
\* read_exact: what a read gives is short[i] units less than asked for,
\* nothing at the end of the stream, and what is not read stays zero.
try_read_message_no_alloc(stream, limit, short) ==
    IF stream = << >> THEN None
    ELSE IF Len(stream) < 2 THEN Err
    ELSE LET count == (stream[1] + 1) % U32
             reads == count \div 2
             \* the units taken before the i-th of these reads
             At[i \in 1 .. reads + 1] ==
                IF i = 1 THEN 2
                ELSE LET left == Len(stream) - At[i - 1]
                     IN At[i - 1] + (IF left < 2 THEN left ELSE 2 - short[i - 1])
             Unit(i, j) == LET at == At[i] + j
                           IN IF at <= At[i + 1] THEN stream[at] ELSE 0
             table == <<stream[1], stream[2]>> \o
                FlattenSeq([i \in 1 .. reads |-> <<Unit(i, 1), Unit(i, 2)>>])
             words == Total(SubSeq(table, 2, count + 1))
             taken == At[reads + 1] + 2 * words
         IN IF \/ count >= SEGMENTS_COUNT_LIMIT \/ count = 0
               \/ words > limit \/ Len(stream) < taken
            THEN Err
            ELSE Ok(no_alloc_get_segment(
                        table \o SubSeq(stream, At[reads + 1] + 1, taken)), taken)
=============================================================================
