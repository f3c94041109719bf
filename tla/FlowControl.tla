----------------------------- MODULE FlowControl -----------------------------
(***************************************************************************)
(* capnp-rpc/src/flow_control.rs: the fixed-window flow controller of a    *)
(* stream of calls, composed with the TaskSet that runs its ack tasks.     *)
(*                                                                         *)
(* A task of the set is a message sent, waiting for its ack; a waiter is a *)
(* caller of wait_all_acked.  Sizes count bytes in some unit.              *)
(***************************************************************************)
EXTENDS TaskSet, FiniteSetsExt

CONSTANTS
    Size,       \* the size of each message
    Window,     \* window_size
    NoWaiter    \* empty_fulfiller is None

ASSUME SizeAssumption == Size \in [Tasks -> Nat \ {0}]
ASSUME WindowAssumption == Window \in Nat

VARIABLES
    in_flight,
    max_message_size,
    failed,             \* state is Failed(_)
    blocked,            \* the blocked_sends of state Running
    sent,               \* what send has returned for each message
    empty_fulfiller,    \* the waiter it belongs to
    acks,               \* the acks that will succeed
    patient             \* the caller has waited for each send so far

flowvars == <<in_flight, max_message_size, failed, blocked, sent,
              empty_fulfiller, acks, patient>>
vars == <<taskvars, flowvars>>

Init ==
    /\ TaskInit
    /\ in_flight = 0 /\ max_message_size = 0
    /\ failed = FALSE /\ blocked = {}
    /\ sent = [m \in Tasks |-> "none"]
    /\ empty_fulfiller = NoWaiter
    /\ acks = {} /\ patient = TRUE

\* Mutant: the window is extended twice.
IsReadyLoose(flying, largest) == flying < Window + 2 * largest

\* FixedWindowFlowControllerInner::is_ready.
IsReady(flying, largest) == flying < Window + largest

\* FixedWindowFlowController::send.
Send(m) ==
    /\ sent[m] = "none"
    /\ patient' = (patient /\ blocked = {})
    /\ Push(Task(m))
    /\ LET flying == in_flight + Size[m]
           largest == Max({Size[m], max_message_size})
       IN /\ in_flight' = flying
          /\ max_message_size' = largest
          /\ IF failed
             THEN sent' = [sent EXCEPT ![m] = "err"] /\ UNCHANGED blocked
             ELSE IF IsReady(flying, largest)
             THEN sent' = [sent EXCEPT ![m] = "ok"] /\ UNCHANGED blocked
             ELSE /\ blocked' = blocked \cup {m}
                  /\ sent' = [sent EXCEPT ![m] = "blocked"]
    /\ UNCHANGED <<failed, empty_fulfiller, acks>>

\* The peer answers message m, or the call fails.
Answered(m, ok) ==
    /\ BecomeReady(m)
    /\ acks' = IF ok THEN acks \cup {m} ELSE acks
    /\ UNCHANGED <<in_flight, max_message_size, failed, blocked, sent,
                   empty_fulfiller, patient>>

\* Mutant: the ack is not counted.
AfterAckForgotten(m) == in_flight

\* in_flight once the ack of m has been counted.
AfterAck(m) == in_flight - Size[m]

\* The sends an ack lets go on.
Unblocked(m) ==
    IF ~failed /\ IsReady(AfterAck(m), max_message_size)
    THEN blocked ELSE {}

\* The task of message m after its ack has succeeded.
Acked(m) ==
    LET told == IF ~failed /\ AfterAck(m) = 0 /\ empty_fulfiller # NoWaiter
                THEN <<OnEmpty(empty_fulfiller)>> ELSE << >>
    IN /\ m \in acks
       /\ Complete(m, told)
       /\ in_flight' = AfterAck(m)
       /\ blocked' = blocked \ Unblocked(m)
       /\ sent' = [s \in Tasks |-> IF s \in Unblocked(m) THEN "ok" ELSE sent[s]]
       /\ empty_fulfiller' = IF told = << >> THEN empty_fulfiller ELSE NoWaiter
       /\ UNCHANGED <<max_message_size, failed, acks, patient>>

\* Mutant: the state is Failed, the blocked sends are forgotten.
AckFailsQuietly(m) ==
    /\ m \notin acks
    /\ Complete(m, << >>)
    /\ failed' = TRUE /\ blocked' = {}
    /\ UNCHANGED <<in_flight, max_message_size, sent, empty_fulfiller, acks,
                   patient>>

\* The task of message m after its ack has failed: Reaper::task_failed.
AckFails(m) ==
    /\ m \notin acks
    /\ Complete(m, << >>)
    /\ failed' = TRUE /\ blocked' = {}
    /\ sent' = [s \in Tasks |-> IF s \in blocked THEN "err" ELSE sent[s]]
    /\ UNCHANGED <<in_flight, max_message_size, empty_fulfiller, acks, patient>>

\* FixedWindowFlowController::wait_all_acked, with blocked sends: the
\* fulfiller is kept, and one that was there is dropped.
WaitBlocked(w) ==
    /\ ~polling /\ Unused(OnEmpty(w)) /\ empty_fulfiller # w
    /\ ~failed /\ blocked # {}
    /\ empty_fulfiller' = w
    /\ canceled' = IF empty_fulfiller = NoWaiter THEN canceled
                   ELSE canceled \cup {empty_fulfiller}
    /\ UNCHANGED <<enqueued, in_progress, stopping, waiting, fired, ready, done,
                   polling, ended, log, in_flight, max_message_size, failed,
                   blocked, sent, acks, patient>>

\* Without blocked sends: on_empty of the task set.
WaitEmpty(w) ==
    /\ Unused(OnEmpty(w)) /\ empty_fulfiller # w
    /\ failed \/ blocked = {}
    /\ Push(OnEmpty(w))
    /\ UNCHANGED flowvars

Next ==
    \/ \E m \in Tasks : Send(m)
    \/ \E m \in Tasks, ok \in BOOLEAN : Answered(m, ok)
    \/ \E m \in Tasks : Acked(m) \/ AckFails(m)
    \/ \E w \in Waiters : WaitBlocked(w) \/ WaitEmpty(w)
    \/ StartPoll /\ UNCHANGED flowvars
    \/ EndPoll /\ UNCHANGED flowvars
    \/ DropTaskSet /\ UNCHANGED flowvars

Spec == Init /\ [][Next]_vars

-----------------------------------------------------------------------------
(* Properties *)

\* Type correctness.
TypeOK ==
    /\ TaskTypeOK
    /\ in_flight \in Nat /\ max_message_size \in Nat
    /\ failed \in BOOLEAN /\ blocked \subseteq Tasks
    /\ sent \in [Tasks -> {"none", "ok", "blocked", "err"}]
    /\ empty_fulfiller \in Waiters \cup {NoWaiter}
    /\ acks \subseteq ready /\ patient \in BOOLEAN

\* The messages sent whose ack has not been counted, and the units of a set
\* of messages.
Unacked == {m \in Tasks : sent[m] # "none" /\ m \notin done}
Units(S) == UNION {{m} \X (1 .. Size[m]) : m \in S}

\* Until a call fails, in_flight is the size of the messages that wait for
\* their ack: the subtraction of an ack task never wraps around.
InFlightExact == ~failed => in_flight = Cardinality(Units(Unacked))

\* With a caller that has waited for each send, no more is in flight than the
\* window and two of the largest messages.
WindowRespected ==
    patient /\ ~failed /\ max_message_size > 0 =>
        in_flight < Window + 2 * max_message_size

\* Every blocked send goes on or fails once the acks come in, or fail, as
\* long as the task set is driven.
BlockedSendsSettle ==
    \A m \in Tasks : sent[m] = "blocked" ~> (sent[m] # "blocked" \/ ended)
=============================================================================
