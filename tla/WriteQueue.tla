------------------------------ MODULE WriteQueue ------------------------------
(***************************************************************************)
(* capnp-futures/src/write_queue.rs: the queue every outgoing message of a *)
(* connection goes through (twoparty.rs sends and shuts down by it).       *)
(*                                                                         *)
(* Sender handles may be cloned and used from several threads; the task    *)
(* write_queue returns owns the writer and the receiving end of an         *)
(* unbounded mpsc channel.  A promise (the oneshot of send or terminate)   *)
(* is pending until its sending half is used (ok) or dropped (err).        *)
(***************************************************************************)
EXTENDS Integers, Sequences, FiniteSets, SequencesExt

CONSTANTS
    Senders,        \* the clones of the Sender handle
    MaxSends,       \* bound: how many messages are sent
    MaxTerminates   \* bound: how often terminate is called

ASSUME BoundsAssumption == MaxSends \in Nat /\ MaxTerminates \in Nat

Messages == 1 .. MaxSends
Dones == 1 .. MaxTerminates
Item == [k : {"message"}, n : Messages] \cup [k : {"done"}, n : Dones]
PromiseState == {"none", "pending", "ok", "err"}

VARIABLES
    handles,    \* the Sender handles not dropped yet
    counted,    \* the message a handle has counted and not pushed, or 0
    sends,      \* how many messages have been counted
    dones,      \* how often terminate has been called
    queue,      \* the channel
    task,       \* what the task waits for
    current,    \* the message it is writing or flushing, or 0
    in_flight,  \* the counter behind len()
    wire,       \* the messages written and flushed
    promise,    \* what the caller of send sees
    finished,   \* what the caller of terminate sees
    log         \* every item the channel has accepted, in order

vars == <<handles, counted, sends, dones, queue, task, current, in_flight,
          wire, promise, finished, log>>

Init ==
    /\ handles = Senders
    /\ counted = [s \in Senders |-> 0]
    /\ sends = 0 /\ dones = 0
    /\ queue = << >> /\ log = << >> /\ wire = << >>
    /\ task = "receiving" /\ current = 0
    /\ in_flight = 0
    /\ promise = [m \in Messages |-> "none"]
    /\ finished = [d \in Dones |-> "none"]

Running == task # "ended"

-----------------------------------------------------------------------------
(* The handles *)

\* Sender::send, first half: fetch_add.
Count(s) ==
    /\ s \in handles /\ counted[s] = 0 /\ sends < MaxSends
    /\ sends' = sends + 1
    /\ counted' = [counted EXCEPT ![s] = sends + 1]
    /\ in_flight' = in_flight + 1
    /\ UNCHANGED <<handles, dones, queue, task, current, wire, promise,
                   finished, log>>

\* Sender::send, second half: unbounded_send.  Once the receiver is gone
\* the item is dropped, and its oneshot with it.
Push(s) ==
    /\ counted[s] # 0
    /\ counted' = [counted EXCEPT ![s] = 0]
    /\ LET m == counted[s]
           item == [k |-> "message", n |-> m]
       IN IF Running
          THEN /\ queue' = Append(queue, item) /\ log' = Append(log, item)
               /\ promise' = [promise EXCEPT ![m] = "pending"]
          ELSE /\ promise' = [promise EXCEPT ![m] = "err"]
               /\ UNCHANGED <<queue, log>>
    /\ UNCHANGED <<handles, sends, dones, task, current, in_flight, wire,
                   finished>>

\* Sender::terminate.
Terminate(s) ==
    /\ s \in handles /\ counted[s] = 0 /\ dones < MaxTerminates
    /\ dones' = dones + 1
    /\ LET item == [k |-> "done", n |-> dones + 1]
       IN IF Running
          THEN /\ queue' = Append(queue, item) /\ log' = Append(log, item)
               /\ finished' = [finished EXCEPT ![dones + 1] = "pending"]
          ELSE /\ finished' = [finished EXCEPT ![dones + 1] = "err"]
               /\ UNCHANGED <<queue, log>>
    /\ UNCHANGED <<handles, counted, sends, task, current, in_flight, wire,
                   promise>>

DropHandle(s) ==
    /\ s \in handles /\ counted[s] = 0
    /\ handles' = handles \ {s}
    /\ UNCHANGED <<counted, sends, dones, queue, task, current, in_flight,
                   wire, promise, finished, log>>

-----------------------------------------------------------------------------
(* The task *)

\* The task ends and drops the channel, the message it is handling and
\* every item left in the channel: their oneshots are canceled.
End(done) ==
    LET left == ToSet(queue) IN
    /\ task' = "ended" /\ current' = 0 /\ queue' = << >>
    /\ promise' = [m \in Messages |->
            IF m = current \/ [k |-> "message", n |-> m] \in left
            THEN "err" ELSE promise[m]]
    /\ finished' = [d \in Dones |->
            IF d = done THEN "ok"
            ELSE IF [k |-> "done", n |-> d] \in left THEN "err"
            ELSE finished[d]]

\* Mutant: the message sent last is written first.
TakeMessageLast ==
    /\ task = "receiving" /\ queue # << >> /\ Head(queue).k = "message"
    /\ Last(queue).k = "message"
    /\ task' = "writing" /\ current' = Last(queue).n
    /\ queue' = Front(queue)
    /\ UNCHANGED <<handles, counted, sends, dones, in_flight, wire, promise,
                   finished, log>>

\* rx.next() gives a message.
TakeMessage ==
    /\ task = "receiving" /\ queue # << >> /\ Head(queue).k = "message"
    /\ task' = "writing" /\ current' = Head(queue).n
    /\ queue' = Tail(queue)
    /\ UNCHANGED <<handles, counted, sends, dones, in_flight, wire, promise,
                   finished, log>>

\* Mutant: a Done is obeyed as soon as it is anywhere in the channel.
TakeDoneEarly ==
    /\ task = "receiving"
    /\ \E i \in DOMAIN queue : queue[i].k = "done" /\ End(queue[i].n)
    /\ UNCHANGED <<handles, counted, sends, dones, in_flight, wire, log>>

\* rx.next() gives a Done: the finisher is told, and the task is over.
TakeDone ==
    /\ task = "receiving" /\ queue # << >> /\ Head(queue).k = "done"
    /\ End(Head(queue).n)
    /\ UNCHANGED <<handles, counted, sends, dones, in_flight, wire, log>>

\* rx.next() gives None: every handle is gone and the channel is empty.
ChannelClosed ==
    /\ task = "receiving" /\ queue = << >> /\ handles = {}
    /\ End(0)
    /\ UNCHANGED <<handles, counted, sends, dones, in_flight, wire, log>>

\* write_message is done.
Wrote ==
    /\ task = "writing"
    /\ task' = "flushing"
    /\ in_flight' = in_flight - 1
    /\ UNCHANGED <<handles, counted, sends, dones, queue, current, wire,
                   promise, finished, log>>

\* Mutant: the task stops, but does not own what is left in the channel.
WriteHangs ==
    /\ task = "writing"
    /\ in_flight' = in_flight - 1
    /\ task' = "ended" /\ current' = 0 /\ queue' = << >>
    /\ UNCHANGED <<handles, counted, sends, dones, wire, promise, finished, log>>

\* write_message fails: it is counted out first, then the error is returned.
WriteFails ==
    /\ task = "writing"
    /\ in_flight' = in_flight - 1
    /\ End(0)
    /\ UNCHANGED <<handles, counted, sends, dones, wire, log>>

\* flush is done: the message is on the wire and the sender is told.
Flushed ==
    /\ task = "flushing"
    /\ task' = "receiving" /\ current' = 0
    /\ wire' = Append(wire, current)
    /\ promise' = [promise EXCEPT ![current] = "ok"]
    /\ UNCHANGED <<handles, counted, sends, dones, queue, in_flight, finished,
                   log>>

FlushFails ==
    /\ task = "flushing"
    /\ End(0)
    /\ UNCHANGED <<handles, counted, sends, dones, in_flight, wire, log>>

\* The task is dropped unfinished, with the RpcSystem that drives it.
DropTask ==
    /\ Running
    /\ End(0)
    /\ UNCHANGED <<handles, counted, sends, dones, in_flight, wire, log>>

TaskStep ==
    \/ TakeMessage \/ TakeDone \/ ChannelClosed
    \/ Wrote \/ WriteFails \/ Flushed \/ FlushFails

Next ==
    \/ \E s \in Senders : Count(s) \/ Push(s) \/ Terminate(s) \/ DropHandle(s)
    \/ TaskStep
    \/ DropTask

Spec == Init /\ [][Next]_vars

-----------------------------------------------------------------------------
(* Properties *)

\* Type correctness.  That in_flight is natural is the assertion in len().
TypeOK ==
    /\ handles \subseteq Senders
    /\ counted \in [Senders -> 0 .. MaxSends]
    /\ sends \in 0 .. MaxSends /\ dones \in 0 .. MaxTerminates
    /\ queue \in Seq(Item) /\ log \in Seq(Item) /\ wire \in Seq(Messages)
    /\ task \in {"receiving", "writing", "flushing", "ended"}
    /\ current \in 0 .. MaxSends
    /\ in_flight \in Nat
    /\ promise \in [Messages -> PromiseState]
    /\ finished \in [Dones -> PromiseState]

\* The messages the channel has accepted, in order.
Accepted ==
    LET Msg(item) == item.k = "message"
        accepted == SelectSeq(log, Msg)
    IN [i \in DOMAIN accepted |-> accepted[i].n]

\* The peer sees the messages in the order they were sent, each once and
\* without a gap, and none from behind a Done; and whoever is told of a
\* completed send is right: after an error nothing more is written.
WireIsPrefix ==
    /\ \A i \in DOMAIN wire :
        i \in DOMAIN log /\ log[i] = [k |-> "message", n |-> wire[i]]
    /\ \A m \in Messages : promise[m] = "ok" <=> m \in ToSet(wire)

\* terminate stops the queue "once it is empty": when its promise is
\* fulfilled, everything sent before it has been written.
TerminateDrains ==
    \A i \in DOMAIN log :
        log[i].k = "done" /\ finished[log[i].n] = "ok" =>
            \A j \in 1 .. i - 1 :
                log[j].k = "message" => promise[log[j].n] = "ok"

\* Every send and every terminate is answered: by the write, or by an error
\* when the queue ends in any way.
PromisesSettle ==
    /\ \A m \in Messages : promise[m] = "pending" ~> promise[m] # "pending"
    /\ \A d \in Dones : finished[d] = "pending" ~> finished[d] # "pending"
=============================================================================
