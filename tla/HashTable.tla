----------------------------- MODULE HashTable -----------------------------
(***************************************************************************)
(* The hash of the data sources (hash.c): in fact an array, sorted when    *)
(* somebody looks for a key, each item of which keeps its last values in a *)
(* ring of slots, for rates.                                               *)
(*                                                                         *)
(* A key is <<rank, spelling>>: strcasecmp compares ranks, strcmp both.    *)
(* A slot is <<time, value>>, the time being 0 as long as it is empty.     *)
(***************************************************************************)
EXTENDS Integers, Sequences, SequencesExt, FiniteSets

\* hash_create
EmptyHash == [sorted |-> FALSE, timestamp |-> 0, Items |-> <<>>]

\* The qsort of hash_lookup; glibc merges, so that equals keep their order.
Inserted(items, item) ==
    InsertAt(items, 1 + Max({0} \cup {i \in DOMAIN items : items[i].key[1] <= item.key[1]}), item)
SortedHash(Hash) ==
    LET ordered[n \in 0..Len(Hash.Items)] ==
            IF n = 0 THEN <<>> ELSE Inserted(ordered[n - 1], Hash.Items[n])
    IN  [Hash EXCEPT !.sorted = TRUE, !.Items = ordered[Len(Hash.Items)]]

\* bsearch among Items[l + 1..u], until one of this rank is found: its place, or 0
Halved(s, Items, rank) ==
    LET idx == (s.l + s.u) \div 2
    IN  IF s.l >= s.u \/ s.found # 0 THEN s
        ELSE IF rank < Items[idx + 1].key[1] THEN [s EXCEPT !.u = idx]
        ELSE IF rank > Items[idx + 1].key[1] THEN [s EXCEPT !.l = idx + 1]
        ELSE [s EXCEPT !.found = idx + 1]
Bsearch(Items, rank) ==
    LET halved[n \in 0..Len(Items)] ==
            IF n = 0 THEN [l |-> 0, u |-> Len(Items), found |-> 0] ELSE Halved(halved[n - 1], Items, rank)
    IN  halved[Len(Items)].found

\* hash_lookup: what is not found, or not sorted, is looked for one by one.
Lookup(Hash, key) ==
    LET found == IF Hash.sorted THEN Bsearch(Hash.Items, key[1]) ELSE 0
    IN  IF found # 0 THEN found ELSE SelectInSeq(Hash.Items, LAMBDA item : item.key = key)

\* hash_age: of an item, or of the table where no key is asked for; -1 if there is none
Current(item) == item.Slot[item.index]
HashAge(Hash, key, now) ==
    LET i == Lookup(Hash, key)
    IN  IF key = <<>> THEN now - Hash.timestamp
        ELSE IF i = 0 THEN -1 ELSE now - Current(Hash.Items[i])[1]

\* Variant for mutation: the ring is filled the other way round.
NextSlotUp(item, nSlot) == (item.index + 1) % nSlot

\* The next slot: the ring is filled downwards.
NextSlot(item, nSlot) == IF item.index = 0 THEN nSlot - 1 ELSE item.index - 1

\* hash_set for hash_put (one slot) and hash_put_delta; nobody puts one key in both ways.
HashSet(Hash, key, value, nSlot, now) ==
    LET i == Lookup(Hash, key)
        new == [key |-> key, index |-> 0, Slot |-> [s \in 0..nSlot - 1 |-> <<0, 0>>]]
        Set(item) == LET index == NextSlot(item, nSlot)
                     IN  [item EXCEPT !.index = index, !.Slot[index] = <<now, value>>]
    IN  IF i = 0
        THEN [sorted |-> FALSE, timestamp |-> now, Items |-> Append(Hash.Items, Set(new))]
        ELSE [Hash EXCEPT !.timestamp = now, !.Items[i] = Set(@)]

\* hash_get_delta: by how much the value has grown, in which time; <<0, 1>> also where it
\* cannot be said, and the value itself where there is no delay.  The slots are looked
\* through from the last value back, up to the first that is old enough or empty; an empty
\* one gives way to the one before.
HashGetDelta(Hash, key, delay) ==
    LET item == Hash.Items[Lookup(Hash, key)]
        nSlot == Cardinality(DOMAIN item.Slot)
        At(i) == item.Slot[(item.index + i) % nSlot]
        slot1 == At(0)
        ends == {i \in 1..nSlot - 1 : At(i)[1] = 0 \/ At(i)[1] < slot1[1] - delay}
        first == IF ends = {} THEN nSlot - 1 ELSE CHOOSE i \in ends : \A j \in ends : i <= j
        slot2 == At(IF At(first)[1] = 0 THEN first - 1 ELSE first)
        dv == slot1[2] - slot2[2]
        dt == slot1[1] - slot2[1]
    IN  IF Lookup(Hash, key) = 0 THEN <<0, 1>>
        ELSE IF delay = 0 THEN <<slot1[2], 1>>
        ELSE IF dt > 0 /\ dv >= 0 THEN <<dv, dt>> ELSE <<0, 1>>
=============================================================================
