------------------------------ MODULE Reconnect ------------------------------
(***************************************************************************)
(* capnp-rpc/src/reconnect.rs: a client that calls connect again when a    *)
(* call fails with Disconnected.  Any number of calls are in flight; each  *)
(* remembers the generation of the client at the time its promise was      *)
(* wrapped, and only the first failure of a generation reconnects.         *)
(*                                                                         *)
(* Every result of connect, and every client given to set_target, is a     *)
(* fresh target.  A target is alive, dead (calls fail with Disconnected)   *)
(* or broken (calls fail with another error: connect returned one).        *)
(***************************************************************************)
EXTENDS Integers

CONSTANTS
    Calls,          \* the calls made through the client
    MaxTargets,     \* bound: how many targets there ever are
    MaxSets,        \* bound: how often set_target is called
    None            \* no current target

ASSUME BoundsAssumption == MaxTargets \in Nat \ {0} /\ MaxSets \in Nat

Targets == 1 .. MaxTargets
ASSUME NoneAssumption == None \notin Targets

VARIABLES
    current, generation,
    made,       \* how many targets there are
    health,     \* of each target
    call,       \* state, target and generation of each call, and the epoch
                \* in which its request was built
    sets        \* how often set_target has been called

vars == <<current, generation, made, health, call, sets>>

\* What tells apart the times between two changes of the target.
Epoch == <<generation, sets>>

\* Client::new: lazy_auto_reconnect starts without a target, auto_reconnect
\* has called connect once (and has made no client if that failed).
Init ==
    /\ generation = 0 /\ sets = 0
    /\ \/ current = None /\ made = 0 /\ health = [t \in Targets |-> "unused"]
       \/ /\ current = 1 /\ made = 1
          /\ \E h \in {"alive", "dead"} :
                health = [t \in Targets |-> IF t = 1 THEN h ELSE "unused"]
    /\ call = [c \in Calls |-> [st |-> "idle", target |-> None, gen |-> 0,
                                epoch |-> <<0, 0>>]]

\* A fresh target becomes the current one, in the state h.
NewTarget(h) ==
    /\ made < MaxTargets
    /\ made' = made + 1
    /\ health' = [health EXCEPT ![made + 1] = h]
    /\ current' = made + 1

\* (self.connect)(): a client that works or not, or an error.
Connect == \E h \in {"alive", "dead", "broken"} : NewTarget(h)

\* ClientInner::get_current: only a lazy client has none before its first
\* use.
GetCurrent ==
    IF current = None THEN Connect ELSE UNCHANGED <<current, made, health>>

\* Client::new_call: the request is for the current target.
NewCall(c) ==
    /\ call[c].st = "idle"
    /\ GetCurrent
    /\ call' = [call EXCEPT ![c] = [st |-> "built", target |-> current',
                                    gen |-> 0, epoch |-> Epoch]]
    /\ UNCHANGED <<generation, sets>>

\* Request::send: wrap looks at the generation now.
Send(c) ==
    /\ call[c].st = "built"
    /\ call' = [call EXCEPT ![c].st = "sent", ![c].gen = generation]
    /\ UNCHANGED <<current, generation, made, health, sets>>

\* Client::call, or a request sent as soon as it is built.
Call(c) ==
    /\ call[c].st = "idle"
    /\ GetCurrent
    /\ call' = [call EXCEPT ![c] = [st |-> "sent", target |-> current',
                                    gen |-> generation, epoch |-> Epoch]]
    /\ UNCHANGED <<generation, sets>>

\* Mutant: every Disconnected reconnects.
MustReconnectAlways(c) == TRUE
\* Mutant: the generation is compared with the next one.
MustReconnectNever(c) == call[c].gen = generation + 1

\* The condition in wrap.
MustReconnect(c) == call[c].gen = generation

\* wrap: the call fails with Disconnected, and the first of its generation
\* connects again.
FailDisconnected(c) ==
    /\ call[c].st = "sent" /\ health[call[c].target] = "dead"
    /\ call' = [call EXCEPT ![c].st = "disconnected"]
    /\ IF MustReconnect(c)
       THEN /\ generation' = generation + 1
            /\ Connect
       ELSE UNCHANGED <<generation, current, made, health>>
    /\ UNCHANGED sets

\* The call returns, fails with another error, or is dropped by its caller.
Finish(c) ==
    /\ call[c].st = "sent"
    /\ call' = [call EXCEPT ![c].st = "finished"]
    /\ UNCHANGED <<current, generation, made, health, sets>>

\* SetTarget::set_target: the generation stays.
SetTarget ==
    /\ sets < MaxSets
    /\ sets' = sets + 1
    /\ NewTarget("alive")
    /\ UNCHANGED <<generation, call>>

\* The connection behind a target is lost.
Die(t) ==
    /\ health[t] = "alive"
    /\ health' = [health EXCEPT ![t] = "dead"]
    /\ UNCHANGED <<current, generation, made, call, sets>>

Next ==
    \/ \E c \in Calls : NewCall(c) \/ Send(c) \/ Call(c)
                        \/ FailDisconnected(c) \/ Finish(c)
    \/ SetTarget
    \/ \E t \in Targets : Die(t)

Spec == Init /\ [][Next]_vars

-----------------------------------------------------------------------------
(* Properties *)

\* Type correctness; every call made goes to a target there is.
TypeOK ==
    /\ current \in 1 .. made \cup {None} /\ made \in 0 .. MaxTargets
    /\ generation \in 0 .. MaxTargets
    /\ health \in [Targets -> {"unused", "alive", "dead", "broken"}]
    /\ call \in [Calls -> [st : {"idle", "built", "sent", "disconnected",
                                 "finished"},
                           target : Targets \cup {None}, gen : Nat,
                           epoch : Nat \X Nat]]
    /\ \A c \in Calls : call[c].st # "idle" => call[c].target \in 1 .. made
    /\ sets \in 0 .. MaxSets

\* auto_reconnect "deals with the calls that come after": once a call has
\* failed with Disconnected, the client no longer uses the target it failed
\* on, whatever other calls, reconnections and set_target did meanwhile.
FailedTargetAbandoned ==
    \A c \in Calls : call[c].st = "disconnected" => current # call[c].target

\* A late failure leaves a target that works alone: a call that was built
\* and sent in one generation, with no set_target since, never makes the
\* client give up a healthy target, whatever other calls did meanwhile.
HealthyTargetKept ==
    [][\A c \in Calls :
        FailDisconnected(c) /\ call[c].epoch = <<call[c].gen, sets>> =>
            current' = current \/ health[current] # "alive"]_vars
=============================================================================
