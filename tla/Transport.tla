------------------------------ MODULE Transport ------------------------------
(***************************************************************************)
(* One direction of a two-party connection: the write queue of one vat     *)
(* (WriteQueue), the framing of its messages (AsyncFraming), the in-memory *)
(* byte stream of async-byte-channel/src/lib.rs, and the loop of the other *)
(* vat that receives messages (twoparty.rs receive_incoming_message).      *)
(*                                                                         *)
(* The task and the receiver run in two vats, perhaps on two threads; each *)
(* poll of the channel holds its lock and is one step.  A side that parks  *)
(* has left its waker in the channel and is not polled before it is woken. *)
(* The channel never fails of itself; StreamFails stands for one that may. *)
(***************************************************************************)
EXTENDS WriteQueue, AsyncFraming

CONSTANTS
    Content,    \* the segments of each message
    Capacity,   \* the length of the channel's buffer, in units
    Limits      \* the traversal limits the receiver may have, in words

ASSUME TransportAssumption == Capacity \in Nat \ {0} /\ Limits \subseteq Nat

VARIABLES
    out,                \* what is left of the buffers given to write_all
    buffer, write_cursor, read_cursor,
    write_end_closed, read_end_closed,
    read_parked,        \* read_waker is set
    write_parked,       \* write_waker is set
    input,              \* the receiving vat: "reading", "ended", "failed", "gone"
    r,                  \* its try_read_message
    limit,              \* its traversal limit
    delivered           \* the messages it has received

channel == <<buffer, write_cursor, read_cursor, write_end_closed,
             read_end_closed, read_parked, write_parked>>
receiving == <<input, r, limit, delivered>>
transport_vars == <<vars, out, channel, receiving>>

TransportInit ==
    /\ Init
    /\ out = << >>
    /\ buffer = [i \in 1 .. Capacity |-> 0]
    /\ write_cursor = 0 /\ read_cursor = 0
    /\ write_end_closed = FALSE /\ read_end_closed = FALSE
    /\ read_parked = FALSE /\ write_parked = FALSE
    /\ input = "reading" /\ r = read_segment_table_start
    /\ limit \in Limits
    /\ delivered = << >>

Smaller(a, b) == IF a <= b THEN a ELSE b

-----------------------------------------------------------------------------
(* The sending vat *)

HandleStep ==
    /\ \E s \in Senders : Count(s) \/ Push(s) \/ Terminate(s) \/ DropHandle(s)
    /\ UNCHANGED <<out, channel, receiving>>

\* write_all does not poll for an empty buffer.
NonEmpty(buf) == buf # << >>

\* The task starts to write a message.
StartWrite ==
    /\ TakeMessage
    /\ out' = SelectSeq(async_write_message(Content[Head(queue).n]), NonEmpty)
    /\ UNCHANGED <<channel, receiving>>

\* Mutant: the reader is not woken.
poll_write_silent ==
    /\ task = "writing" /\ out # << >>
    /\ ~ write_parked /\ ~ read_end_closed
    /\ \/ write_cursor < Capacity
       \/ read_cursor = Capacity
    /\ LET w == IF write_cursor = Capacity THEN 0 ELSE write_cursor
           inbuf == Head(out)
           copy_len == Smaller(Len(inbuf), Capacity - w)
           left == SubSeq(inbuf, copy_len + 1, Len(inbuf))
       IN /\ buffer' = [i \in 1 .. Capacity |->
                IF i \in w + 1 .. w + copy_len THEN inbuf[i - w] ELSE buffer[i]]
          /\ write_cursor' = w + copy_len
          /\ read_cursor' = IF write_cursor = Capacity THEN 0 ELSE read_cursor
          /\ out' = IF left = << >> THEN Tail(out) ELSE <<left>> \o Tail(out)
    /\ UNCHANGED <<vars, write_end_closed, read_end_closed, read_parked,
                   write_parked, receiving>>

\* Sender::poll_write with room in the buffer: a buffer that is full and has
\* been read to its end is started over.
poll_write ==
    /\ task = "writing" /\ out # << >>
    /\ ~ write_parked /\ ~ read_end_closed
    /\ \/ write_cursor < Capacity
       \/ read_cursor = Capacity
    /\ LET w == IF write_cursor = Capacity THEN 0 ELSE write_cursor
           inbuf == Head(out)
           copy_len == Smaller(Len(inbuf), Capacity - w)
           left == SubSeq(inbuf, copy_len + 1, Len(inbuf))
       IN /\ buffer' = [i \in 1 .. Capacity |->
                IF i \in w + 1 .. w + copy_len THEN inbuf[i - w] ELSE buffer[i]]
          /\ write_cursor' = w + copy_len
          /\ read_cursor' = IF write_cursor = Capacity THEN 0 ELSE read_cursor
          /\ out' = IF left = << >> THEN Tail(out) ELSE <<left>> \o Tail(out)
    /\ read_parked' = FALSE
    /\ UNCHANGED <<vars, write_end_closed, read_end_closed, write_parked, receiving>>

\* Sender::poll_write with a full buffer.
poll_write_pending ==
    /\ task = "writing" /\ out # << >>
    /\ ~ write_parked /\ ~ read_end_closed
    /\ write_cursor = Capacity /\ read_cursor # Capacity
    /\ write_parked' = TRUE
    /\ UNCHANGED <<vars, out, buffer, write_cursor, read_cursor,
                   write_end_closed, read_end_closed, read_parked, receiving>>

\* Sender::drop: the task owns the sender, and drops it when it ends.
drop_sender ==
    /\ write_end_closed' = TRUE
    /\ read_parked' = FALSE
    /\ out' = << >>
    /\ UNCHANGED <<buffer, write_cursor, read_cursor, read_end_closed,
                   write_parked, receiving>>

\* Sender::poll_write once the read end is closed.
poll_write_error ==
    /\ out # << >> /\ ~ write_parked /\ read_end_closed
    /\ WriteFails /\ drop_sender

FinishWrite == out = << >> /\ Wrote /\ UNCHANGED <<out, channel, receiving>>

poll_flush == Flushed /\ UNCHANGED <<out, channel, receiving>>

EndTask == (TakeDone \/ ChannelClosed) /\ drop_sender

AbandonTask == DropTask /\ drop_sender

\* A stream that fails of itself, as a socket may: the error is the task's.
StreamFails == (WriteFails \/ FlushFails) /\ drop_sender

SenderStep ==
    \/ StartWrite \/ poll_write \/ poll_write_pending \/ poll_write_error
    \/ FinishWrite \/ poll_flush \/ EndTask

-----------------------------------------------------------------------------
(* The receiving vat *)

\* Receiver::drop.
drop_receiver ==
    /\ read_end_closed' = TRUE
    /\ write_parked' = FALSE

\* What the outcome of a poll of try_read_message means: a message is given
\* to the message loop, which asks for the next one; an error drops the
\* stream with the future; the end gives it back.
receive_incoming_message(next) ==
    /\ r' = IF Over(next) THEN read_segment_table_start ELSE next
    /\ delivered' = IF next.phase = "message"
                    THEN Append(delivered, get_segment(next.buf, next.lengths))
                    ELSE delivered
    /\ input' = CASE next.phase = "none" -> "ended"
                  [] next.phase = "err" -> "failed"
                  [] OTHER -> "reading"
    /\ IF next.phase = "err"
       THEN drop_receiver
       ELSE UNCHANGED read_end_closed

\* Receiver::poll_read with something to read: the writer is woken.
poll_read ==
    /\ input = "reading" /\ ~ read_parked /\ read_cursor # write_cursor
    /\ LET copy_len == Smaller(Wanted(r), write_cursor - read_cursor)
           units == SubSeq(buffer, read_cursor + 1, read_cursor + copy_len)
       IN /\ read_cursor' = read_cursor + copy_len
          /\ write_parked' = FALSE
          /\ receive_incoming_message(Fed(r, units, limit))
    /\ UNCHANGED <<vars, out, buffer, write_cursor, write_end_closed,
                   read_parked, limit>>

\* Mutant: a reader that finds nothing parks, whoever has gone.
poll_read_parks ==
    /\ input = "reading" /\ ~ read_parked /\ read_cursor = write_cursor
    /\ read_parked' = TRUE
    /\ UNCHANGED <<vars, out, receiving, read_end_closed, write_parked,
                   buffer, write_cursor, read_cursor, write_end_closed>>

\* Receiver::poll_read with nothing to read: the end, or a wait.
poll_read_empty ==
    /\ input = "reading" /\ ~ read_parked /\ read_cursor = write_cursor
    /\ IF write_end_closed
       THEN /\ receive_incoming_message(AtEnd(r))
            /\ (AtEnd(r).phase # "err" => UNCHANGED write_parked)
            /\ UNCHANGED <<read_parked, limit>>
       ELSE /\ read_parked' = TRUE
            /\ UNCHANGED <<receiving, read_end_closed, write_parked>>
    /\ UNCHANGED <<vars, out, buffer, write_cursor, read_cursor, write_end_closed>>

\* The receiving vat drops its connection, in the middle of a message or not.
DropReceiver ==
    /\ input \in {"reading", "ended"} /\ input' = "gone"
    /\ drop_receiver
    /\ UNCHANGED <<vars, out, buffer, write_cursor, read_cursor,
                   write_end_closed, read_parked, r, limit, delivered>>

ReceiverStep == poll_read \/ poll_read_empty

TransportNext ==
    \/ HandleStep
    \/ SenderStep
    \/ AbandonTask
    \/ StreamFails
    \/ ReceiverStep
    \/ DropReceiver

\* Each vat's executor polls what has been woken; send() does not stop
\* half-way.  Nobody has to drop anything.
TransportSpec ==
    /\ TransportInit /\ [][TransportNext]_transport_vars
    /\ WF_transport_vars(SenderStep)
    /\ WF_transport_vars(ReceiverStep)
    /\ \A s \in Senders :
        WF_transport_vars(Push(s) /\ UNCHANGED <<out, channel, receiving>>)

-----------------------------------------------------------------------------
(* Properties *)

\* Type correctness, with the assertions poll_read and poll_write make on
\* the cursors.
TransportTypeOK ==
    /\ TypeOK
    /\ out \in Seq(Seq(0 .. U32 - 1)) /\ << >> \notin ToSet(out)
    /\ buffer \in [1 .. Capacity -> 0 .. U32 - 1]
    /\ write_cursor \in 0 .. Capacity /\ read_cursor \in 0 .. write_cursor
    /\ {write_end_closed, read_end_closed, read_parked, write_parked} \subseteq BOOLEAN
    /\ input \in {"reading", "ended", "failed", "gone"}
    /\ ~ Over(r) /\ limit \in Limits

\* A parked side has nothing to do, whichever poll, close or drop of the
\* other side came between: the reader waits for an empty open channel, the
\* writer for a full one somebody reads.
ParkedMeansIdle ==
    /\ read_parked /\ input = "reading" =>
            read_cursor = write_cursor /\ ~ write_end_closed
    /\ write_parked /\ Running =>
            /\ task = "writing" /\ write_cursor = Capacity
            /\ read_cursor # Capacity /\ ~ read_end_closed

\* What was sent and written arrives, unless the receiver gives up first:
\* the receiver always catches up, and learns of the end of the sender.
EverythingArrives ==
    /\ []<>(Len(delivered) >= Len(wire) \/ input # "reading")
    /\ ~ Running ~> input # "reading"

Size(m) == Total([i \in DOMAIN Content[m] |-> Words(Content[m][i])])

\* The whole path keeps the promise of MessagePipe.
Pipe == INSTANCE MessagePipe WITH
    Message <- {Content[m] : m \in Messages},
    refused <- {Content[m] : m \in {n \in Messages : Size(n) > limit}},
    sent <- [i \in DOMAIN Accepted |-> Content[Accepted[i]]],
    written <- Len(wire),
    received <- delivered,
    sender <- IF Running THEN "open" ELSE "closed",
    receiver <- IF input = "reading" THEN "open" ELSE input

\* Messages are received whole, unchanged, in the order send() accepted
\* them, and a clean end comes only after every confirmed one.
KeepsPipe == Pipe!PipeSpec
=============================================================================
