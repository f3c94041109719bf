------------------------------- MODULE Packing -------------------------------
(***************************************************************************)
(* capnp/src/serialize_packed.rs: packing and unpacking a stream.          *)
(*                                                                         *)
(* Packing treats the bytes of a word alike, so a word has two bytes here  *)
(* (the two units of Framing) in place of eight, and a tag two bits: the   *)
(* tag 0xff of the code is FULL.  A run counts at most RUN_MAX words.      *)
(***************************************************************************)
EXTENDS Framing, FiniteSets

CONSTANT RUN_MAX    \* 255 in the code: a count is one byte

ASSUME PackingAssumption == RUN_MAX \in Nat

FULL == 3

Tag(word) == (IF word[1] # 0 THEN 1 ELSE 0) + (IF word[2] # 0 THEN 2 ELSE 0)
NonZero(byte) == byte # 0
Zeros(word) == Len(SelectSeq(word, LAMBDA byte : byte = 0))
HasBit(tag, i) == (tag \div 2 ^ (i - 1)) % 2 = 1
Ones(tag) == Cardinality({i \in 1 .. 2 : HasBit(tag, i)})

\* The word a tag stands for, given its bytes that are not zero.
Unpacked(tag, bytes) ==
    <<IF HasBit(tag, 1) THEN bytes[1] ELSE 0,
      IF HasBit(tag, 2) THEN bytes[Ones(tag)] ELSE 0>>

WordsOf(buf) == [i \in 1 .. Words(buf) |-> <<buf[2 * i - 1], buf[2 * i]>>]
ZeroWords(n) == [i \in 1 .. 2 * n |-> 0]

\* How many words from the i-th on are all in a run, max at most.
RunLength(words, i, max, InRun(_)) ==
    Max({n \in 0 .. Min({max, Len(words) - i + 1}) :
            \A j \in 1 .. n : InRun(words[i + j - 1])})
IsZero(word) == Tag(word) = 0
FewZeros(word) == Zeros(word) < 2

\* PackedWrite::write_all of one buffer.
packed_write_all(in_buf) ==
    LET words == WordsOf(in_buf)
        From[i \in 1 .. Len(words) + 1] ==
            IF i > Len(words) THEN << >>
            ELSE LET tag == Tag(words[i])
                     head == <<tag>> \o SelectSeq(words[i], NonZero)
                     run == CASE tag = 0 -> RunLength(words, i + 1, RUN_MAX, IsZero)
                              [] tag = FULL -> RunLength(words, i + 1, RUN_MAX, FewZeros)
                              [] OTHER -> 0
                     verbatim == SubSeq(in_buf, 2 * i + 1, 2 * (i + run))
                 IN CASE tag = 0 -> head \o <<run>> \o From[i + 1 + run]
                      [] tag = FULL -> head \o <<run>> \o verbatim \o From[i + 1 + run]
                      [] OTHER -> head \o From[i + 1]
    IN From[1]

\* serialize_packed::write_message.
packed_write_message(segments) ==
    LET bufs == write_message(segments)
    IN FlattenSeq([i \in DOMAIN bufs |-> packed_write_all(bufs[i])])

\* PackedRead::read and read_exact of len words, from position at of the
\* stream on: the units and the new position.  A run that does not end
\* within what is read is an error, and so is the end of the stream.
packed_read(stream, at, len) ==
    LET From[a \in at .. Len(stream), n \in 0 .. len] ==
            IF n = 0 THEN Ok(<< >>, a)
            ELSE IF a = Len(stream) THEN Err
            ELSE LET tag == stream[a + 1]
                     head == a + 1 + Ones(tag)
                     counted == tag \in {0, FULL}
                     run == stream[head + 1]
                     next == head + (IF counted THEN 1 ELSE 0)
                                  + (IF tag = FULL THEN 2 * run ELSE 0)
                 IN IF head + (IF counted THEN 1 ELSE 0) > Len(stream) THEN Err
                    ELSE IF (counted /\ run > n - 1) \/ next > Len(stream) THEN Err
                    ELSE LET rest == From[next, IF counted THEN n - 1 - run ELSE n - 1]
                             word == Unpacked(tag, SubSeq(stream, a + 2, head))
                             more == CASE tag = 0 -> ZeroWords(run)
                                       [] tag = FULL -> SubSeq(stream, head + 2, next)
                                       [] OTHER -> << >>
                         IN IF rest = Err THEN Err
                            ELSE Ok(word \o more \o rest.segments, rest.taken)
    IN From[at, len]

\* serialize_packed::try_read_message: the reads of Framing's
\* read_segment_table and read_segments, made of a PackedRead.
packed_try_read_message(stream, limit) ==
    LET first == packed_read(stream, 0, 1) IN
    IF stream = << >> THEN None
    ELSE IF first = Err THEN Err
    ELSE LET count == (first.segments[1] + 1) % U32
             more == packed_read(stream, first.taken, IF count > 1 THEN count \div 2 ELSE 0)
             lengths == SubSeq(first.segments \o more.segments, 2, count + 1)
             body == packed_read(stream, more.taken, Total(lengths))
         IN IF \/ count >= SEGMENTS_COUNT_LIMIT \/ count = 0
               \/ more = Err
            THEN Err
            ELSE IF Total(lengths) > limit \/ body = Err THEN Err
            ELSE Ok(get_segment(body.segments, lengths), body.taken)
=============================================================================
