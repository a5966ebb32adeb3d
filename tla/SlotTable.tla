------------------------------ MODULE SlotTable ------------------------------
(***************************************************************************)
(* The growable table that lcd4linux uses for its timers, its timer groups *)
(* and the widgets of those groups.  A table is a sequence of records with *)
(* a field "active"; an entry that is dropped is only marked inactive, and *)
(* the next entry that is added takes the first inactive slot before the   *)
(* table is reallocated one slot longer.  Slots are numbered from 1 here   *)
(* and from 0 in the C code.                                               *)
(***************************************************************************)
EXTENDS Integers, Sequences

\* The slots that are in use.
ActiveSlots(T) == {i \in DOMAIN T : T[i].active}

\* The slots that may be re-used.
FreeSlots(T) == {i \in DOMAIN T : ~T[i].active}

\* The first slot of a non-empty set of slots, the one a loop finds first.
FirstSlot(S) == CHOOSE i \in S : \A j \in S : i <= j

\* Where an entry is added: in the first free slot, or in a new one at the end.
PlaceAt(T) == IF FreeSlots(T) = {} THEN Len(T) + 1 ELSE FirstSlot(FreeSlots(T))

\* An entry can be added if a slot is free or realloc still finds memory.
HasRoom(T, max) == PlaceAt(T) <= max

\* The table once entry e is added.
PlaceSlot(T, e) ==
    IF FreeSlots(T) = {} THEN Append(T, e) ELSE [T EXCEPT ![PlaceAt(T)] = e]

\* Mark slot i as inactive; everything else it holds stays readable.
RetireSlot(T, i) == [T EXCEPT ![i].active = FALSE]

\* Mark every slot of the set S as inactive.
RetireSlots(T, S) ==
    [i \in DOMAIN T |-> IF i \in S THEN [T[i] EXCEPT !.active = FALSE] ELSE T[i]]
=============================================================================
