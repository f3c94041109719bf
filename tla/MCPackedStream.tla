---------------------------- MODULE MCPackedStream ----------------------------
(***************************************************************************)
(* PackedStream with the messages of one segment of at most four words,    *)
(* or of two segments of at most two, made of one word of each tag; with   *)
(* packed streams of at most seven units, and all plain ones.              *)
(***************************************************************************)
EXTENDS PackedStream

Word == {<<0, 0>>, <<1, 0>>, <<0, 2>>, <<1, 2>>}
Segment(n) == {FlattenSeq(s) : s \in [1 .. n -> Word]}
MCContents ==
    {<<s>> : s \in UNION {Segment(n) : n \in 0 .. 4}}
    \cup UNION {{<<s, t>> : s \in Segment(n), t \in Segment(2 - n)} : n \in 0 .. 2}
    \cup {<<s, t>> : s, t \in Segment(0) \cup Segment(1)}

\* A message that is a longer run than a count can hold.
LongRun == {<<ZeroWords(4)>>}
=============================================================================
