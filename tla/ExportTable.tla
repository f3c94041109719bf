----------------------------- MODULE ExportTable -----------------------------
(***************************************************************************)
(* struct ExportTable<T> of capnp-rpc/src/rpc.rs: a vector of optional     *)
(* entries together with a min-heap of the ids whose entry has been        *)
(* erased.  It numbers the questions, the exports and the embargoes of a   *)
(* connection.                                                             *)
(*                                                                         *)
(* slots[i + 1] is the Rust slots[i].  free_ids is the heap; every call    *)
(* site erases an id whose slot is occupied (it has just found the entry), *)
(* so the heap never holds an id twice and a set represents it.            *)
(***************************************************************************)
EXTENDS Integers, Sequences

CONSTANTS
    Values,     \* what the table stores
    None,       \* the empty slot, Option::None
    MaxSlots    \* bound: the vector never grows past MaxSlots entries

ASSUME NoneAssumption == None \notin Values
ASSUME MaxSlotsAssumption == MaxSlots \in Nat

VARIABLES slots, free_ids

vars == <<slots, free_ids>>

Slot == Values \cup {None}

Init ==
    /\ slots = << >>
    /\ free_ids = {}

\* Mutant: a max-heap, the ids not being wrapped in Reverse.
PushReuseGreatest(v) ==
    \E id \in free_ids :
        /\ \A j \in free_ids : id >= j
        /\ slots' = [slots EXCEPT ![id + 1] = v]
        /\ free_ids' = free_ids \ {id}

\* ExportTable::push, a slot being free: the heap pops its least id.
PushReuse(v) ==
    \E id \in free_ids :
        /\ \A j \in free_ids : id <= j
        /\ slots' = [slots EXCEPT ![id + 1] = v]
        /\ free_ids' = free_ids \ {id}

\* ExportTable::push, no slot being free: the vector grows by one.
PushAppend(v) ==
    /\ free_ids = {}
    /\ Len(slots) < MaxSlots
    /\ slots' = Append(slots, v)
    /\ UNCHANGED free_ids

Push(v) == PushReuse(v) \/ PushAppend(v)

\* Mutant: the id of an erased entry is lost.
EraseLeaks(id) ==
    /\ slots[id + 1] # None
    /\ slots' = [slots EXCEPT ![id + 1] = None]
    /\ UNCHANGED free_ids

\* ExportTable::erase.  QuestionRef::drop, the Return handler,
\* release_export and the Disembargo handler have found the entry first.
Erase(id) ==
    /\ slots[id + 1] # None
    /\ slots' = [slots EXCEPT ![id + 1] = None]
    /\ free_ids' = free_ids \cup {id}

\* ConnectionState::disconnect assigns ExportTable::new().
Reset ==
    /\ slots' = << >>
    /\ free_ids' = {}

Next ==
    \/ \E v \in Values : Push(v)
    \/ \E id \in 0 .. Len(slots) - 1 : Erase(id)
    \/ Reset

Spec == Init /\ [][Next]_vars

-----------------------------------------------------------------------------
\* The ids in use, and ExportTable::find / iter: what a lookup sees.
Live == {id \in 0 .. Len(slots) - 1 : slots[id + 1] # None}
Find == [id \in Live |-> slots[id + 1]]

\* Type correctness of the vector and the heap.
TypeOK ==
    /\ slots \in Seq(Slot)
    /\ Len(slots) <= MaxSlots
    /\ free_ids \subseteq 0 .. Len(slots) - 1

\* The heap holds exactly the ids whose slot is empty: an id missing from
\* it would leak, one too many would be handed out while in use.
FreeIdsExact ==
    free_ids = {id \in 0 .. Len(slots) - 1 : slots[id + 1] = None}

\* The vector and the heap together implement the table of IdTable: push
\* gives the least id not in use and disturbs no other entry.
Abstract == INSTANCE IdTable WITH table <- Find
ImplementsIdTable == Abstract!Spec
=============================================================================
