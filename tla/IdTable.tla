------------------------------- MODULE IdTable -------------------------------
(***************************************************************************)
(* What capnp-rpc promises of the tables it numbers itself (questions,     *)
(* exports, embargoes): a finite map from ids to entries in which a new    *)
(* entry gets the least id not in use, an id in use is never handed out,   *)
(* and no operation touches another entry.  The wire format sends ids as   *)
(* plain integers, so both vats rely on exactly this.                      *)
(***************************************************************************)
EXTENDS Integers

CONSTANTS
    Values,     \* entries
    MaxSlots    \* bound on the number of ids ever in use at once

VARIABLE table  \* a function whose domain is the set of ids in use

Init == table = [i \in {} |-> 0]

\* The entry v gets the least unused id; every other entry is as before.
Push(v) ==
    \E id \in 0 .. MaxSlots - 1 :
        /\ id \notin DOMAIN table
        /\ \A j \in 0 .. id - 1 : j \in DOMAIN table
        /\ table' = [i \in DOMAIN table \cup {id} |->
                        IF i = id THEN v ELSE table[i]]

\* An id in use becomes free; every other entry is as before.
Erase(id) ==
    /\ id \in DOMAIN table
    /\ table' = [i \in DOMAIN table \ {id} |-> table[i]]

\* Disconnecting replaces the table by an empty one.
Reset == table' = [i \in {} |-> 0]

Next ==
    \/ \E v \in Values : Push(v)
    \/ \E id \in DOMAIN table : Erase(id)
    \/ Reset

Spec == Init /\ [][Next]_table
=============================================================================
