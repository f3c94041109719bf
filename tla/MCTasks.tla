------------------------------- MODULE MCTasks -------------------------------
(***************************************************************************)
(* A TaskSet and its owner for TLC.  The owner is a flow controller, which *)
(* adds a task for each message, or any other part of the system, which    *)
(* adds, terminates and waits as it likes.                                 *)
(* Two of the three messages are larger than the window of 1.              *)
(***************************************************************************)
EXTENDS FlowControl

VARIABLE owner

Sizes == <<1, 2, 2>>

MCInit == Init /\ owner \in {"flow controller", "other"}

\* Any other owner adds two tasks at most.
OtherNext == TaskSetNext /\ Task(3) \notin ToSet(log')

\* In a flow controller waiter 2 calls wait_all_acked only where the call
\* takes the place of waiter 1's.
SecondReplacesFirst ==
    /\ empty_fulfiller' = 2 => empty_fulfiller \in {1, 2}
    /\ OnEmpty(2) \in ToSet(log') => \/ OnEmpty(2) \in ToSet(log)
                                     \/ empty_fulfiller = 2

MCNext ==
    /\ \/ owner = "flow controller" /\ Next /\ SecondReplacesFirst
       \/ owner = "other" /\ OtherNext /\ UNCHANGED flowvars
    /\ UNCHANGED owner

\* The acks of a flow controller are its tasks: fairness of the set is all
\* the fairness that it needs.
MCFairSpec == MCInit /\ [][MCNext]_<<vars, owner>> /\ TaskSetFairness
=============================================================================
