------------------------------- MODULE TaskSet -------------------------------
(***************************************************************************)
(* capnp-rpc/src/task_set.rs: the set of futures that RpcSystem, each      *)
(* ConnectionState and each flow controller drive.  A TaskSetHandle pushes *)
(* tasks, Terminate and OnEmpty requests into an unbounded channel; poll   *)
(* empties the channel once, and then lets tasks finish until none is      *)
(* ready.  Tasks run inside poll, and may themselves push.                 *)
(*                                                                         *)
(* Handles, set and tasks live in one thread: between two polls other code *)
(* may push, during a poll only the task that finishes.                    *)
(***************************************************************************)
EXTENDS Integers, Sequences, SequencesExt

CONSTANTS
    Tasks,      \* the futures given to add
    Waiters     \* the callers of on_empty

VARIABLES
    enqueued,       \* the channel
    in_progress,    \* tasks in the FuturesUnordered
    stopping,       \* a Terminate is among them
    waiting,        \* on_empty_fulfillers
    fired,          \* waiters that have been told
    canceled,       \* waiters whose oneshot has been dropped
    ready,          \* tasks that will finish when polled
    done,           \* tasks that have finished
    polling,        \* poll is in its second loop
    ended,          \* the set has returned Ready, or has been dropped
    log             \* everything ever pushed to the live set, in order

taskvars == <<enqueued, in_progress, stopping, waiting, fired, canceled, ready,
              done, polling, ended, log>>

Task(t) == [k |-> "task", x |-> t]
OnEmpty(w) == [k |-> "onempty", x |-> w]
TerminateItem == [k |-> "terminate", x |-> 0]
Item == {Task(t) : t \in Tasks} \cup {OnEmpty(w) : w \in Waiters}
        \cup {TerminateItem}

TaskInit ==
    /\ enqueued = << >> /\ log = << >>
    /\ in_progress = {} /\ stopping = FALSE /\ waiting = {}
    /\ fired = {} /\ canceled = {} /\ ready = {} /\ done = {}
    /\ polling = FALSE /\ ended = FALSE

TasksIn(items) == {t \in Tasks : Task(t) \in ToSet(items)}
WaitersIn(items) == {w \in Waiters : OnEmpty(w) \in ToSet(items)}
Unused(item) == item \notin ToSet(log) /\ item.x \notin canceled

\* unbounded_send: a set that is gone drops the item.
Accept(items) ==
    IF ended
    THEN /\ canceled' = canceled \cup WaitersIn(items)
         /\ UNCHANGED <<enqueued, log>>
    ELSE /\ enqueued' = enqueued \o items
         /\ log' = log \o items
         /\ UNCHANGED canceled

\* TaskSetHandle::add, terminate and on_empty, called between two polls.
Push(item) ==
    /\ ~polling
    /\ Accept(<<item>>)
    /\ UNCHANGED <<in_progress, stopping, waiting, fired, ready, done, polling,
                   ended>>

\* The event a task waits for has happened.
BecomeReady(t) ==
    /\ Task(t) \in ToSet(log) /\ t \notin ready /\ ~ended
    /\ ready' = ready \cup {t}
    /\ UNCHANGED <<enqueued, in_progress, stopping, waiting, fired, canceled,
                   done, polling, ended, log>>

\* The set is polled when the channel or a task wakes it.
Woken == enqueued # << >> \/ stopping \/ in_progress \cap ready # {}

\* TaskSet::poll, first loop: the channel is emptied.
StartPoll ==
    /\ ~polling /\ ~ended /\ Woken
    /\ polling' = TRUE
    /\ in_progress' = in_progress \cup TasksIn(enqueued)
    /\ waiting' = waiting \cup WaitersIn(enqueued)
    /\ stopping' = (stopping \/ TerminateItem \in ToSet(enqueued))
    /\ enqueued' = << >>
    /\ UNCHANGED <<fired, canceled, ready, done, ended, log>>

\* Mutant: whoever waits is told at every finished task.
FulfilledAlways(rest) == waiting

\* Mutant: the future that never finishes is not allowed for.
FulfilledNever(rest) == {}

\* update_on_empty_fulfillers, called when a task has finished and rest is
\* in progress: a Terminate counts as a task.
Fulfilled(rest) == IF rest = {} /\ ~stopping THEN waiting ELSE {}

\* TaskSet::poll, second loop: task t finishes, pushing the items more as
\* it does; then the fulfillers are brought up to date.
Complete(t, more) ==
    /\ polling /\ t \in in_progress \cap ready
    /\ in_progress' = in_progress \ {t}
    /\ done' = done \cup {t}
    /\ fired' = fired \cup Fulfilled(in_progress \ {t})
    /\ waiting' = waiting \ Fulfilled(in_progress \ {t})
    /\ Accept(more)
    /\ UNCHANGED <<stopping, ready, polling, ended>>

\* The set is gone, with everything in it and in its channel.
Gone ==
    /\ ended' = TRUE /\ polling' = FALSE
    /\ in_progress' = {} /\ stopping' = FALSE /\ enqueued' = << >>
    /\ waiting' = {}
    /\ canceled' = canceled \cup waiting \cup WaitersIn(enqueued)
    /\ UNCHANGED <<fired, ready, done, log>>

\* TaskSet::poll meets a Terminate and returns; its owner drops it.
FinishTerminate == polling /\ stopping /\ Gone

\* The owner drops a set that has not returned.
DropTaskSet == ~polling /\ ~ended /\ Gone

\* poll returns Pending: nothing is ready, or FuturesUnordered yields.
EndPoll ==
    /\ polling
    /\ polling' = FALSE
    /\ UNCHANGED <<enqueued, in_progress, stopping, waiting, fired, canceled,
                   ready, done, ended, log>>

\* What a task may push while it runs: nothing, another task, a Terminate
\* (RpcSystem, when the network has shut down) or an OnEmpty (the flow
\* controller).
Pushes == {<< >>} \cup {<<item>> : item \in {i \in Item : Unused(i)}}

TaskSetNext ==
    \/ \E item \in Item : Unused(item) /\ Push(item)
    \/ \E t \in Tasks : BecomeReady(t)
    \/ StartPoll
    \/ \E t \in Tasks, more \in Pushes : Complete(t, more)
    \/ FinishTerminate
    \/ EndPoll
    \/ DropTaskSet

TaskSetSpec == TaskInit /\ [][TaskSetNext]_taskvars

\* The executor polls a set that has been woken; FuturesUnordered serves
\* its futures in turn, so a poll that yields early does not pass over the
\* same one for ever; every task becomes ready some day.
TaskSetFairness ==
    /\ WF_taskvars(StartPoll)
    /\ WF_taskvars(EndPoll)
    /\ SF_taskvars(FinishTerminate)
    /\ \A t \in Tasks : /\ WF_taskvars(BecomeReady(t))
                         /\ SF_taskvars(\E more \in Pushes : Complete(t, more))
TaskSetFairSpec == TaskSetSpec /\ TaskSetFairness

-----------------------------------------------------------------------------
(* Properties *)

\* Type correctness.
TaskTypeOK ==
    /\ enqueued \in Seq(Item) /\ log \in Seq(Item)
    /\ in_progress \subseteq Tasks \ done
    /\ ready \subseteq Tasks /\ done \subseteq ready
    /\ waiting \subseteq Waiters \ (fired \cup canceled)
    /\ fired \subseteq Waiters /\ canceled \subseteq Waiters \ fired
    /\ stopping \in BOOLEAN /\ polling \in BOOLEAN /\ ended \in BOOLEAN

\* on_empty never tells its caller too early: every task added before the
\* call has finished when the caller is told.
EmptyMeansDone ==
    \A i \in DOMAIN log : \A w \in fired :
        log[i] = OnEmpty(w) => TasksIn(SubSeq(log, 1, i)) \subseteq done

\* A caller of on_empty who waits while tasks are in progress is answered.
BusyWaitersAnswered ==
    \A w \in Waiters :
        (w \in waiting /\ in_progress # {}) ~> (w \in fired \cup canceled)

=============================================================================
