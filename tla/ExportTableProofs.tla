-------------------------- MODULE ExportTableProofs --------------------------
(***************************************************************************)
(* ExportTable, for any entries and any size: the heap is exactly the set  *)
(* of empty slots, and the table implements IdTable.                       *)
(***************************************************************************)
EXTENDS ExportTable, TLAPS

Inv == TypeOK /\ FreeIdsExact

\* The empty table satisfies the invariant.
LEMMA InitInv == Init => Inv
  BY MaxSlotsAssumption DEF Init, Inv, TypeOK, FreeIdsExact, Slot

\* Every operation of the table preserves the invariant: push takes from
\* the heap the id whose slot it fills, erase adds the id it empties.
LEMMA NextInv == Inv /\ [Next]_vars => Inv'
<1> SUFFICES ASSUME Inv, [Next]_vars PROVE Inv'
  OBVIOUS
<1> USE NoneAssumption, MaxSlotsAssumption DEF Inv, TypeOK, FreeIdsExact, Slot
<1>1. ASSUME NEW v \in Values, PushReuse(v) PROVE Inv'
  <2>1. PICK id \in free_ids : /\ slots' = [slots EXCEPT ![id + 1] = v]
                               /\ free_ids' = free_ids \ {id}
    BY <1>1 DEF PushReuse
  <2>2. id \in 0 .. Len(slots) - 1 /\ id + 1 \in 1 .. Len(slots)
    OBVIOUS
  <2>3. slots' \in Seq(Slot) /\ Len(slots') = Len(slots)
    BY <2>1, <2>2
  <2>4. \A i \in 0 .. Len(slots) - 1 :
            slots'[i + 1] = IF i = id THEN v ELSE slots[i + 1]
    BY <2>1, <2>2
  <2> QED
    BY <2>1, <2>2, <2>3, <2>4
<1>2. ASSUME NEW v \in Values, PushAppend(v) PROVE Inv'
  <2>1. /\ slots' \in Seq(Slot)
        /\ Len(slots') = Len(slots) + 1
        /\ \A i \in 0 .. Len(slots) : slots'[i + 1] =
                IF i = Len(slots) THEN v ELSE slots[i + 1]
    BY <1>2 DEF PushAppend
  <2> QED
    BY <1>2, <2>1 DEF PushAppend
<1>3. ASSUME NEW id \in 0 .. Len(slots) - 1, Erase(id) PROVE Inv'
  <2>1. slots' \in Seq(Slot) /\ Len(slots') = Len(slots)
    BY <1>3 DEF Erase
  <2>2. \A i \in 0 .. Len(slots) - 1 :
            slots'[i + 1] = IF i = id THEN None ELSE slots[i + 1]
    BY <1>3 DEF Erase
  <2> QED
    BY <1>3, <2>1, <2>2 DEF Erase
<1>4. CASE Reset
  BY <1>4 DEF Reset
<1>5. CASE UNCHANGED vars
  BY <1>5 DEF vars
<1> QED
  BY <1>1, <1>2, <1>3, <1>4, <1>5 DEF Next, Push

\* The vector stays within its bound and the heap within the vector.
THEOREM TypeCorrect == Spec => []TypeOK
<1>1. Inv => TypeOK
  BY DEF Inv
<1> QED
  BY <1>1, InitInv, NextInv, PTL DEF Spec

\* ExportTable::push can neither hand out an id in use nor lose a free one:
\* free_ids is at every moment the set of empty slots.
THEOREM FreeIdsAreEmptySlots == Spec => []FreeIdsExact
<1>1. Inv => FreeIdsExact
  BY DEF Inv
<1> QED
  BY <1>1, InitInv, NextInv, PTL DEF Spec

-----------------------------------------------------------------------------
\* Every step of the vector and heap is a step of IdTable, or none.
LEMMA StepRefines ==
    ASSUME Inv, [Next]_vars
    PROVE  [Abstract!Next]_Find
<1> USE NoneAssumption, MaxSlotsAssumption DEF Inv, TypeOK, FreeIdsExact, Slot
<1>1. DOMAIN Find = Live
  BY DEF Find
<1>2. ASSUME NEW v \in Values, PushReuse(v) PROVE Abstract!Push(v)
  <2>1. PICK id \in free_ids : /\ \A j \in free_ids : id <= j
                               /\ slots' = [slots EXCEPT ![id + 1] = v]
    BY <1>2 DEF PushReuse
  <2>2. id \in 0 .. MaxSlots - 1 /\ id \notin Live
    BY DEF Live
  <2>3. \A j \in 0 .. id - 1 : j \in Live
    BY <2>1 DEF Live
  <2>4. Len(slots') = Len(slots)
    BY <2>1
  <2>5. \A i \in 0 .. Len(slots) - 1 :
            slots'[i + 1] = IF i = id THEN v ELSE slots[i + 1]
    BY <2>1
  <2>6. Live' = Live \cup {id}
    BY <2>4, <2>5 DEF Live
  <2>7. Find' = [i \in Live \cup {id} |-> IF i = id THEN v ELSE Find[i]]
    BY <2>5, <2>6 DEF Find, Live
  <2> QED
    BY <1>1, <2>2, <2>3, <2>7 DEF Abstract!Push
<1>3. ASSUME NEW v \in Values, PushAppend(v) PROVE Abstract!Push(v)
  <2> DEFINE id == Len(slots)
  <2>1. id \in 0 .. MaxSlots - 1 /\ id \notin Live
    BY <1>3 DEF PushAppend, Live
  <2>2. \A j \in 0 .. id - 1 : j \in Live
    BY <1>3 DEF PushAppend, Live
  <2>3. /\ Len(slots') = id + 1
        /\ \A i \in 0 .. id : slots'[i + 1] =
                IF i = id THEN v ELSE slots[i + 1]
    BY <1>3 DEF PushAppend
  <2>4. Live' = Live \cup {id}
    BY <2>3 DEF Live
  <2>5. Find' = [i \in Live \cup {id} |-> IF i = id THEN v ELSE Find[i]]
    BY <2>3, <2>4 DEF Find, Live
  <2> QED
    BY <1>1, <2>1, <2>2, <2>5 DEF Abstract!Push
<1>4. ASSUME NEW id \in 0 .. Len(slots) - 1, Erase(id)
      PROVE  id \in DOMAIN Find /\ Abstract!Erase(id)
  <2>1. id \in Live
    BY <1>4 DEF Erase, Live
  <2>2. /\ Len(slots') = Len(slots)
        /\ \A i \in 0 .. Len(slots) - 1 :
              slots'[i + 1] = IF i = id THEN None ELSE slots[i + 1]
    BY <1>4 DEF Erase
  <2>3. Live' = Live \ {id}
    BY <2>2 DEF Live
  <2>4. Find' = [i \in Live \ {id} |-> Find[i]]
    BY <2>2, <2>3 DEF Find, Live
  <2> QED
    BY <1>1, <2>1, <2>4 DEF Abstract!Erase
<1>5. ASSUME Reset PROVE Abstract!Reset
  <2>1. Live' = {}
    BY <1>5 DEF Reset, Live
  <2> QED
    BY <2>1 DEF Find, Abstract!Reset
<1>6. ASSUME UNCHANGED vars PROVE Find' = Find
  BY <1>6 DEF vars, Find, Live
<1> QED
  BY <1>2, <1>3, <1>4, <1>5, <1>6 DEF Next, Push, Abstract!Next

\* For every bound and every kind of entry, the vector and the heap
\* implement IdTable: push gives the least unused id, and neither push nor
\* erase disturbs another question, export or embargo.
THEOREM Refinement == Spec => ImplementsIdTable
<1>1. Init => Abstract!Init
  <2> SUFFICES ASSUME Init PROVE Abstract!Init
    OBVIOUS
  <2>1. Live = {}
    BY DEF Init, Live
  <2> QED
    BY <2>1 DEF Find, Abstract!Init
<1>2. Inv /\ [Next]_vars => [Abstract!Next]_Find
  BY StepRefines
<1> QED
  BY <1>1, <1>2, InitInv, NextInv, PTL DEF Spec, ImplementsIdTable, Abstract!Spec
=============================================================================
