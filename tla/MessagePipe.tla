----------------------------- MODULE MessagePipe -----------------------------
(***************************************************************************)
(* What a stream of messages promises to the two vats at its ends,         *)
(* whatever it is made of: messages arrive whole, in the order they were   *)
(* sent, none twice, and the receiver is told of the end only after every  *)
(* message its sender knows to be written.                                 *)
(***************************************************************************)
EXTENDS Integers, Sequences

CONSTANT Message    \* what may be sent

VARIABLES
    refused,    \* the messages too large for the receiver
    sent,       \* the messages accepted, in order
    written,    \* how many of them the sender knows to be written
    received,   \* the messages given to the receiver
    sender,     \* "open" or "closed"
    receiver    \* "open", "ended", "failed" or "gone"

pipe_vars == <<refused, sent, written, received, sender, receiver>>

PipeInit ==
    /\ refused \subseteq Message
    /\ sent = << >> /\ written = 0 /\ received = << >>
    /\ sender = "open" /\ receiver = "open"

Send(m) ==
    /\ sender = "open"
    /\ sent' = Append(sent, m)
    /\ UNCHANGED <<refused, written, received, sender, receiver>>

\* The sender is told that one more message is written.
Written ==
    /\ sender = "open" /\ written < Len(sent)
    /\ written' = written + 1
    /\ UNCHANGED <<refused, sent, received, sender, receiver>>

CloseSender ==
    /\ sender = "open" /\ sender' = "closed"
    /\ UNCHANGED <<refused, sent, written, received, receiver>>

\* The next message arrives, and is not too large.
Receive ==
    /\ receiver = "open" /\ Len(received) < Len(sent)
    /\ sent[Len(received) + 1] \notin refused
    /\ received' = Append(received, sent[Len(received) + 1])
    /\ UNCHANGED <<refused, sent, written, sender, receiver>>

\* A clean end.
ReceiveEnd ==
    /\ receiver = "open" /\ sender = "closed" /\ Len(received) >= written
    /\ receiver' = "ended"
    /\ UNCHANGED <<refused, sent, written, received, sender>>

\* The next message is refused, or was cut off by the end of its sender.
ReceiveError ==
    /\ receiver = "open" /\ Len(received) < Len(sent)
    /\ \/ sent[Len(received) + 1] \in refused
       \/ sender = "closed" /\ Len(received) >= written
    /\ receiver' = "failed"
    /\ UNCHANGED <<refused, sent, written, received, sender>>

DropReceiver ==
    /\ receiver \in {"open", "ended"} /\ receiver' = "gone"
    /\ UNCHANGED <<refused, sent, written, received, sender>>

PipeNext ==
    \/ \E m \in Message : Send(m)
    \/ Written \/ CloseSender
    \/ Receive \/ ReceiveEnd \/ ReceiveError \/ DropReceiver

PipeSpec == PipeInit /\ [][PipeNext]_pipe_vars
=============================================================================
