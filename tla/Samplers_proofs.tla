--------------------------- MODULE Samplers_proofs ---------------------------
(***************************************************************************)
(* That widgets are told the rates of what was read, and nothing for long  *)
(* that was read long ago, for any keys, sources and number of slots:      *)
(* through the sorted array, binary search and the rings of the hash.      *)
(***************************************************************************)
EXTENDS Samplers, Recursion_proofs, SequenceTheorems, FiniteSetTheorems

-----------------------------------------------------------------------------
(* The invariant. *)

Log == Seq(Int \X Int)
Ring(n) == [0..n - 1 -> Int \X Int]
Item(n) == [key : Int \X Int, index : 0..n - 1, Slot : Ring(n)]

\* Items are never in the hash twice, and where it says so they are in their order.
InRanks(items) == \A i, j \in DOMAIN items : i < j => items[i].key[1] <= items[j].key[1]
Distinct(items) == \A i, j \in DOMAIN items : items[i].key = items[j].key => i = j
HashOf(n, table) ==
    /\ table \in [sorted : BOOLEAN, timestamp : Int, Items : Seq(Item(n))]
    /\ \A i \in DOMAIN table.Items : table.Items[i].key \in Names
    /\ Distinct(table.Items)
    /\ table.sorted => InRanks(table.Items)

\* From its index on, the ring of an item holds the last that was put, and then nothing.
Holds(item, n, log) ==
    \A j \in 0..n - 1 :
        item.Slot[(item.index + j) % n] = IF j < Len(log) THEN log[Len(log) - j] ELSE <<0, 0>>
Logged(items, n, k, log) ==
    \/ log = <<>> /\ \A i \in DOMAIN items : items[i].key # k
    \/ log # <<>> /\ \E i \in DOMAIN items : items[i].key = k /\ Holds(items[i], n, log)
RingsHold ==
    /\ HashOf(plugin.slots, hash)
    /\ \A k \in Names : Lonely(k) => Logged(hash.Items, plugin.slots, k, puts[k])

SamplerTypes ==
    /\ plugin \in Sources
    /\ time \in [passed : Nat, back : {0, plugin.interval + 2, 5000}]
    /\ names \subseteq Names
    /\ counter \in Int
    /\ puts \in [Names -> Log]
    /\ readAt \in [Names -> Int]
    /\ firstAsk \in [Names -> Int]
    /\ told.key \in Names \cup {<<>>}

\* What was put was put after the epoch, as its time tells a full slot from an empty one.
PutLater == \A k \in Names : \A i \in DOMAIN puts[k] : puts[k][i][1] > 0

\* A source that reads everything reads what it has read before.
LastPut(k) == puts[k][Len(puts[k])][1]
ReadTogether ==
    \A k \in Names : puts[k] # <<>> =>
        k \in names /\ (~plugin.byKey => hash.timestamp = LastPut(k))

\* A value carries the time of the clock as it is, or the one from before the clock was set
\* back; then it seemed young to whoever was told first.
SinceSet(k) ==
    /\ firstAsk[k] = NotYet \/ firstAsk[k] \in 0..time.passed
    /\ \/ puts[k] = <<>> /\ readAt[k] = -LongAgo
       \/ /\ puts[k] # <<>> /\ readAt[k] \in 0..time.passed
          /\ \/ LastPut(k) = 10000 + readAt[k] - time.back
             \/ /\ LastPut(k) = 10000 + readAt[k]
                /\ firstAsk[k] = NotYet \/ 10000 + firstAsk[k] - time.back >= LastPut(k) + plugin.low
TimesKnown == \A k \in Names : Lonely(k) => SinceSet(k)

SamplerInv == SamplerTypes /\ RingsHold /\ PutLater /\ ReadTogether /\ TimesKnown /\ StaleOnceOnly

-----------------------------------------------------------------------------
(* Looking for a key. *)

\* The bounds of the search close in on the items of the rank, if there are any.
SearchRecord(L) == [l : 0..L, u : 0..L, found : 0..L]
Searched(s, L, items, rank, rounds) ==
    /\ s.found # 0 => items[s.found].key[1] = rank
    /\ s.found = 0 => /\ s.l <= s.u
                      /\ s.u - s.l <= L - rounds \/ s.l = s.u
                      /\ \A i \in 1..L : items[i].key[1] = rank => s.l < i /\ i <= s.u

LEMMA ItemFields ==
    ASSUME NEW n \in Nat \ {0}, NEW items \in Seq(Item(n)), NEW i \in 1..Len(items)
    PROVE  items[i] \in Item(n) /\ items[i].key[1] \in Int
<1>1. items[i] \in Item(n)
  OBVIOUS
<1>2. items[i].key \in Int \X Int
  BY <1>1 DEF Item
<1> QED BY <1>1, <1>2

LEMMA HalvedIsSearch ==
    ASSUME NEW L \in Nat, NEW s \in SearchRecord(L), NEW items, NEW rank
    PROVE  Halved(s, items, rank) \in SearchRecord(L)
<1> DEFINE idx == (s.l + s.u) \div 2
<1>1. s.l \in 0..L /\ s.u \in 0..L /\ s.found \in 0..L
  BY DEF SearchRecord
<1>2. s = [l |-> s.l, u |-> s.u, found |-> s.found]
  BY DEF SearchRecord
<1>3. CASE s.l >= s.u \/ s.found # 0
  BY <1>3 DEF Halved
<1>4. CASE ~(s.l >= s.u \/ s.found # 0)
  <2>1. idx \in 0..L /\ idx + 1 \in 0..L
    BY <1>1, <1>4
  <2> HIDE DEF idx
  <2>2. \/ Halved(s, items, rank) = [s EXCEPT !.u = idx]
        \/ Halved(s, items, rank) = [s EXCEPT !.l = idx + 1]
        \/ Halved(s, items, rank) = [s EXCEPT !.found = idx + 1]
    BY <1>4 DEF Halved, idx
  <2>3. \/ Halved(s, items, rank) = [l |-> s.l, u |-> idx, found |-> s.found]
        \/ Halved(s, items, rank) = [l |-> idx + 1, u |-> s.u, found |-> s.found]
        \/ Halved(s, items, rank) = [l |-> s.l, u |-> s.u, found |-> idx + 1]
    BY <1>2, <2>2
  <2> QED BY <1>1, <2>1, <2>3 DEF SearchRecord
<1> QED BY <1>3, <1>4

LEMMA HalvedSearches ==
    ASSUME NEW n \in Nat \ {0}, NEW items \in Seq(Item(n)), InRanks(items), NEW rank \in Int,
           NEW L, L = Len(items), NEW s \in SearchRecord(L), NEW k \in 1..L, Searched(s, L, items, rank, k - 1)
    PROVE  Searched(Halved(s, items, rank), L, items, rank, k)
<1> DEFINE idx == (s.l + s.u) \div 2
           R(i) == items[i].key[1]
<1>1. s.l \in 0..L /\ s.u \in 0..L /\ s.found \in 0..L /\ L \in Nat /\ k \in Nat /\ DOMAIN items = 1..L
  BY DEF SearchRecord
<1>2. \A i \in 1..L : R(i) \in Int
  BY ItemFields
<1>3. \A i, j \in 1..L : i < j => R(i) <= R(j)
  BY <1>1 DEF InRanks
<1>4. CASE s.found # 0
  BY <1>4 DEF Halved, Searched
<1>5. CASE s.found = 0 /\ s.l >= s.u
  <2>1. Halved(s, items, rank) = s
    BY <1>5 DEF Halved
  <2>2. s.l = s.u
    BY <1>1, <1>5 DEF Searched
  <2> QED BY <1>5, <2>1, <2>2 DEF Searched
<1>6. CASE s.found = 0 /\ ~(s.l >= s.u)
  <2>1. idx \in Int /\ s.l <= idx /\ idx < s.u /\ idx + 1 \in 1..L /\ idx + 1 # 0
    BY <1>1, <1>6
  <2> HIDE DEF idx
  <2>2. s.u - s.l <= L - (k - 1) /\ \A i \in 1..L : R(i) = rank => s.l < i /\ i <= s.u
    <3>1. s.l <= s.u /\ s.l # s.u
      BY <1>1, <1>6
    <3> QED BY <1>6, <3>1 DEF Searched
  <2> DEFINE mid == R(idx + 1)
  <2>3. mid \in Int
    BY <1>2, <2>1
  <2>4. CASE rank < mid
    <3>1. Halved(s, items, rank) = [s EXCEPT !.u = idx]
      BY <1>6, <2>4 DEF Halved, idx
    <3>2. \A i \in 1..L : R(i) = rank => i <= idx
      <4> SUFFICES ASSUME NEW i \in 1..L, R(i) = rank, ~(i <= idx) PROVE FALSE
        OBVIOUS
      <4>1. i = idx + 1 \/ idx + 1 < i
        BY <2>1
      <4>2. mid <= R(i)
        BY <1>2, <1>3, <2>1, <4>1
      <4> QED BY <2>3, <2>4, <4>2
    <3>3. idx - s.l <= L - k
      BY <1>1, <2>1, <2>2
    <3>4. Halved(s, items, rank).u = idx /\ Halved(s, items, rank).l = s.l /\ Halved(s, items, rank).found = 0
      BY <1>6, <3>1 DEF SearchRecord
    <3> QED BY <2>1, <2>2, <3>2, <3>3, <3>4 DEF Searched
  <2>5. CASE rank > mid
    <3>1. Halved(s, items, rank) = [s EXCEPT !.l = idx + 1]
      BY <1>6, <2>3, <2>5 DEF Halved, idx
    <3>2. \A i \in 1..L : R(i) = rank => idx + 1 < i
      <4> SUFFICES ASSUME NEW i \in 1..L, R(i) = rank, ~(idx + 1 < i) PROVE FALSE
        OBVIOUS
      <4>1. i = idx + 1 \/ i < idx + 1
        BY <2>1
      <4>2. R(i) <= mid
        BY <1>2, <1>3, <2>1, <4>1
      <4> QED BY <2>3, <2>5, <4>2
    <3>3. s.u - (idx + 1) <= L - k /\ idx + 1 <= s.u
      BY <1>1, <2>1, <2>2
    <3>4. Halved(s, items, rank).u = s.u /\ Halved(s, items, rank).l = idx + 1 /\ Halved(s, items, rank).found = 0
      BY <1>6, <3>1 DEF SearchRecord
    <3> QED BY <2>1, <2>2, <3>2, <3>3, <3>4 DEF Searched
  <2>6. CASE rank = mid
    <3>1. Halved(s, items, rank) = [s EXCEPT !.found = idx + 1]
      BY <1>6, <2>3, <2>6 DEF Halved, idx
    <3>2. Halved(s, items, rank).found = idx + 1
      BY <3>1 DEF SearchRecord
    <3> QED BY <2>1, <2>6, <3>2 DEF Searched
  <2> QED BY <2>3, <2>4, <2>5, <2>6
<1> QED BY <1>1, <1>4, <1>5, <1>6

\* bsearch finds an item of the rank if there is one.
LEMMA BsearchFinds ==
    ASSUME NEW n \in Nat \ {0}, NEW items \in Seq(Item(n)), InRanks(items), NEW rank \in Int
    PROVE  /\ Bsearch(items, rank) \in 0..Len(items)
           /\ Bsearch(items, rank) # 0 => items[Bsearch(items, rank)].key[1] = rank
           /\ Bsearch(items, rank) = 0 => \A i \in 1..Len(items) : items[i].key[1] # rank
<1> DEFINE L == Len(items)
           S == SearchRecord(L)
           first == [l |-> 0, u |-> L, found |-> 0]
           halved == CHOOSE f : f = [k \in 0..L |-> IF k = 0 THEN first ELSE Halved(f[k - 1], items, rank)]
           next == [k \in 1..L |-> [s \in S |-> Halved(s, items, rank)]]
           T == {k \in 0..L : halved[k] \in S /\ Searched(halved[k], L, items, rank, k)}
<1>1. L \in Nat
  OBVIOUS
<1>2. first \in S
  BY <1>1 DEF SearchRecord
<1>3. \A s \in S : Halved(s, items, rank) \in S
  BY <1>1, HalvedIsSearch
<1>4. Bsearch(items, rank) = halved[L].found
  BY DEF Bsearch
<1>5. Searched(first, L, items, rank, 0)
  BY <1>1 DEF Searched
<1> HIDE DEF S, first
<1>6. next \in Steps(L, S)
  BY <1>3 DEF Steps
<1>7. PICK g : Iterates(g, L, S, first, next)
  <2> HIDE DEF next, L
  <2> QED BY <1>1, <1>2, <1>6, Iteration
<1>8. g \in [0..L -> S] /\ g[0] = first /\ \A k \in 1..L : g[k] = next[k][g[k - 1]]
  BY <1>7 DEF Iterates
<1> HIDE DEF L
<1>10. \A k \in 1..L : g[k] = Halved(g[k - 1], items, rank)
  <2> SUFFICES ASSUME NEW k \in 1..L PROVE g[k] = Halved(g[k - 1], items, rank)
    OBVIOUS
  <2>1. k - 1 \in 0..L
    BY <1>1
  <2>2. g[k - 1] \in S
    BY <1>8, <2>1
  <2> QED BY <1>8, <2>2
<1>11. halved = [k \in 0..L |-> IF k = 0 THEN first ELSE Halved(halved[k - 1], items, rank)]
  <2>1. \A k \in 0..L : k = 0 \/ k \in 1..L
    BY <1>1
  <2>2. \A k \in 0..L : g[k] = IF k = 0 THEN first ELSE Halved(g[k - 1], items, rank)
    BY <1>8, <1>10, <2>1
  <2>3. g = [k \in 0..L |-> IF k = 0 THEN first ELSE Halved(g[k - 1], items, rank)]
    BY <1>8, <2>2
  <2> QED BY <2>3
<1> HIDE DEF halved
<1>12. halved[0] = first /\ \A k \in 1..L : halved[k] = Halved(halved[k - 1], items, rank)
  <2>1. 0 \in 0..L /\ \A k \in 1..L : k \in 0..L /\ k # 0
    BY <1>1
  <2> QED BY <1>11, <2>1
<1>13. 0 \in T
  BY <1>1, <1>2, <1>5, <1>12
<1>14. ASSUME NEW k \in 1..L, k - 1 \in T PROVE k \in T
  <2>1. k \in 0..L
    BY <1>1
  <2>2. halved[k - 1] \in S /\ Searched(halved[k - 1], L, items, rank, k - 1)
    BY <1>14
  <2>3. Searched(Halved(halved[k - 1], items, rank), L, items, rank, k)
    BY <2>2, HalvedSearches DEF L, S
  <2> QED BY <1>3, <1>12, <2>1, <2>2, <2>3
<1>15. L \in T
  <2>1. \A k \in 1..L : k - 1 \in T => k \in T
    BY <1>14
  <2> HIDE DEF T
  <2>2. \A k \in 0..L : k \in T
    BY <1>1, <1>13, <2>1, InductionUpto
  <2> QED BY <1>1, <2>2
<1>16. PICK s \in SearchRecord(L) : s.found = Bsearch(items, rank) /\ Searched(s, L, items, rank, L)
  BY <1>4, <1>15 DEF S
<1>17. s.l \in 0..L /\ s.u \in 0..L /\ s.found \in 0..L
  BY <1>16 DEF SearchRecord
<1>18. s.found = 0 => s.l = s.u
  BY <1>1, <1>16, <1>17 DEF Searched
<1>19. s.found = 0 => \A i \in 1..L : items[i].key[1] # rank
  BY <1>1, <1>16, <1>17, <1>18 DEF Searched
<1>20. s.found # 0 => items[s.found].key[1] = rank
  BY <1>16 DEF Searched
<1> QED BY <1>16, <1>17, <1>19, <1>20 DEF L

\* Among the items, or among those of its rank, a key is found if it is there.
LEMMA LookupFinds ==
    ASSUME NEW n \in Nat \ {0}, NEW table, HashOf(n, table), NEW key \in Int \X Int
    PROVE  /\ Lookup(table, key) \in 0..Len(table.Items)
           /\ Lookup(table, key) # 0 => table.Items[Lookup(table, key)].key[1] = key[1]
           /\ Lookup(table, key) = 0 => \A i \in 1..Len(table.Items) : table.Items[i].key # key
<1> DEFINE items == table.Items
           I == {i \in 1..Len(items) : items[i].key = key}
           found == IF table.sorted THEN Bsearch(items, key[1]) ELSE 0
<1>1. items \in Seq(Item(n)) /\ Len(items) \in Nat /\ key[1] \in Int /\ DOMAIN items = 1..Len(items)
  BY DEF HashOf
<1>2. Lookup(table, key) = IF found # 0 THEN found ELSE IF I # {} THEN Min(I) ELSE 0
  BY DEF Lookup, SelectInSeq
<1>3. found \in 0..Len(items) /\ (found # 0 => items[found].key[1] = key[1])
  <2>1. CASE table.sorted
    <3>1. InRanks(items)
      BY <2>1 DEF HashOf
    <3> QED BY <1>1, <2>1, <3>1, BsearchFinds
  <2>2. CASE ~table.sorted
    BY <1>1, <2>2
  <2> QED BY <2>1, <2>2
<1>4. I # {} => Min(I) \in I
  <2>1. I \in SUBSET Nat
    OBVIOUS
  <2> HIDE DEF I
  <2> QED BY <2>1, Least
<1>5. I # {} => Min(I) \in 1..Len(items) /\ Min(I) # 0 /\ items[Min(I)].key = key
  <2>1. \A i \in I : i \in 1..Len(items) /\ i # 0 /\ items[i].key = key
    OBVIOUS
  <2> HIDE DEF I
  <2> QED BY <1>4, <2>1
<1>6. I = {} => \A i \in 1..Len(items) : items[i].key # key
  OBVIOUS
<1> HIDE DEF I, found, items
<1>7. CASE found # 0
  <2>1. Lookup(table, key) = found
    BY <1>2, <1>7
  <2> QED BY <1>1, <1>3, <1>7, <2>1 DEF items
<1>8. CASE found = 0 /\ I # {}
  <2>1. Lookup(table, key) = Min(I)
    BY <1>2, <1>8
  <2> QED BY <1>1, <1>5, <1>8, <2>1 DEF items
<1>9. CASE found = 0 /\ I = {}
  <2>1. Lookup(table, key) = 0
    BY <1>2, <1>9
  <2> QED BY <1>1, <1>6, <1>9, <2>1 DEF items
<1> QED BY <1>7, <1>8, <1>9

\* Where no other key has its rank it is found.
LEMMA LonelyFound ==
    ASSUME NEW n \in Nat \ {0}, NEW table, HashOf(n, table), NEW k \in Names, Lonely(k), NEW i \in DOMAIN table.Items
    PROVE  Lookup(table, k) = i <=> table.Items[i].key = k
<1> DEFINE p == Lookup(table, k)
<1>1. k \in Int \X Int
  BY NamesAssumption
<1>2. DOMAIN table.Items = 1..Len(table.Items) /\ Len(table.Items) \in Nat
  BY DEF HashOf
<1>3. p \in 0..Len(table.Items) /\ (p # 0 => table.Items[p].key[1] = k[1])
      /\ (p = 0 => \A j \in 1..Len(table.Items) : table.Items[j].key # k)
  BY <1>1, LookupFinds
<1>4. p # 0 => p \in DOMAIN table.Items /\ table.Items[p].key = k
  <2> SUFFICES ASSUME p # 0 PROVE p \in DOMAIN table.Items /\ table.Items[p].key = k
    OBVIOUS
  <2>1. p \in DOMAIN table.Items
    BY <1>2, <1>3
  <2>2. table.Items[p].key \in Names
    BY <2>1 DEF HashOf
  <2> QED BY <1>3, <2>1, <2>2 DEF Lonely
<1> HIDE DEF p
<1>5. p = i => table.Items[i].key = k
  <2>1. i # 0
    BY <1>2
  <2> QED BY <1>4, <2>1
<1>6. table.Items[i].key = k => p = i
  <2> SUFFICES ASSUME table.Items[i].key = k PROVE p = i
    OBVIOUS
  <2>1. p # 0
    BY <1>2, <1>3
  <2> QED BY <1>4, <2>1 DEF HashOf, Distinct
<1> QED BY <1>5, <1>6 DEF p

-----------------------------------------------------------------------------
(* Sorting. *)

LEMMA InsertAtInserts ==
    ASSUME NEW E, NEW items \in Seq(E), NEW e \in E, NEW i \in 1..Len(items) + 1
    PROVE  /\ InsertAt(items, i, e) \in Seq(E)
           /\ Len(InsertAt(items, i, e)) = Len(items) + 1
           /\ \A j \in 1..Len(items) + 1 :
                 InsertAt(items, i, e)[j] = IF j < i THEN items[j] ELSE IF j = i THEN e ELSE items[j - 1]
<1> DEFINE L == Len(items)
           A == SubSeq(items, 1, i - 1)
           B == SubSeq(items, i, L)
<1>1. L \in Nat /\ i \in Int /\ i - 1 \in Int /\ 1 <= i /\ i <= L + 1 /\ \A j \in 1..L : items[j] \in E
  OBVIOUS
<1>2. A \in Seq(E) /\ Len(A) = i - 1 /\ \A j \in 1..i - 1 : A[j] = items[j]
  <2>1. \A j \in 1..i - 1 : items[j] \in E
    BY <1>1
  <2>2. /\ A \in Seq(E) /\ Len(A) = (IF 1 <= i - 1 THEN (i - 1) - 1 + 1 ELSE 0)
        /\ \A j \in 1..(i - 1) - 1 + 1 : A[j] = items[1 + j - 1]
    BY <1>1, <2>1, SubSeqProperties
  <2>3. \A j \in 1..i - 1 : j \in 1..(i - 1) - 1 + 1 /\ 1 + j - 1 = j
    BY <1>1
  <2> HIDE DEF A
  <2> QED BY <1>1, <2>2, <2>3
<1>3. B \in Seq(E) /\ Len(B) = L + 1 - i /\ \A j \in 1..L + 1 - i : B[j] = items[i + j - 1]
  <2>1. \A j \in i..L : items[j] \in E
    BY <1>1
  <2>2. /\ B \in Seq(E) /\ Len(B) = (IF i <= L THEN L - i + 1 ELSE 0)
        /\ \A j \in 1..L - i + 1 : B[j] = items[i + j - 1]
    BY <1>1, <2>1, SubSeqProperties
  <2>3. L - i + 1 = L + 1 - i /\ (~(i <= L) => L + 1 - i = 0)
    BY <1>1
  <2> HIDE DEF B, L
  <2> QED BY <2>2, <2>3
<1>4. <<e>> \in Seq(E) /\ Len(<<e>>) = 1 /\ <<e>>[1] = e
  OBVIOUS
<1> HIDE DEF A, B
<1> DEFINE C == A \o <<e>>
<1>6. C \in Seq(E) /\ Len(C) = i /\ \A j \in 1..i : C[j] = IF j <= i - 1 THEN items[j] ELSE e
  <2>1. PICK s \in Seq(E) : s = <<e>> /\ Len(s) = 1 /\ s[1] = e
    BY <1>4
  <2>2. /\ A \o s \in Seq(E) /\ Len(A \o s) = Len(A) + Len(s)
        /\ \A j \in 1..Len(A) + Len(s) : (A \o s)[j] = IF j <= Len(A) THEN A[j] ELSE s[j - Len(A)]
    BY <1>2, ConcatProperties
  <2>3. C = A \o s /\ Len(A) + Len(s) = i /\ \A j \in 1..i : ~(j <= i - 1) => j - (i - 1) = 1
    BY <1>1, <1>2, <2>1
  <2>4. \A j \in 1..i : j <= i - 1 => j \in 1..i - 1
    BY <1>1
  <2> HIDE DEF C
  <2> QED BY <1>2, <2>1, <2>2, <2>3, <2>4
<1> HIDE DEF C
<1>7. C \o B \in Seq(E) /\ Len(C \o B) = i + (L + 1 - i) /\ \A j \in 1..i + (L + 1 - i) : (C \o B)[j] = IF j <= i THEN C[j] ELSE B[j - i]
  BY <1>3, <1>6, ConcatProperties
<1>8. InsertAt(items, i, e) = C \o B
  BY DEF InsertAt, A, B, C, L
<1>9. i + (L + 1 - i) = L + 1
  BY <1>1
<1>10. ASSUME NEW j \in 1..L + 1
       PROVE  (C \o B)[j] = IF j < i THEN items[j] ELSE IF j = i THEN e ELSE items[j - 1]
  <2>1. j \in Int /\ (C \o B)[j] = IF j <= i THEN C[j] ELSE B[j - i]
    BY <1>7, <1>9
  <2>2. CASE j < i
    <3>1. j <= i /\ j \in 1..i /\ j <= i - 1
      BY <1>1, <2>1, <2>2
    <3> QED BY <1>6, <2>1, <2>2, <3>1
  <2>3. CASE j = i
    <3>1. j <= i /\ j \in 1..i /\ ~(j <= i - 1) /\ ~(j < i)
      BY <1>1, <2>1, <2>3
    <3> QED BY <1>6, <2>1, <2>3, <3>1
  <2>4. CASE j > i
    <3>1. ~(j <= i) /\ ~(j < i) /\ j # i /\ j - i \in 1..L + 1 - i /\ i + (j - i) - 1 = j - 1
      BY <1>1, <2>1, <2>4
    <3>2. B[j - i] = items[j - 1]
      BY <1>3, <3>1
    <3> QED BY <2>1, <3>1, <3>2
  <2> QED BY <1>1, <2>1, <2>2, <2>3, <2>4
<1> QED BY <1>7, <1>8, <1>9, <1>10 DEF L

\* An item is inserted behind those that are not above it.
PlaceFor(items, item) == 1 + Max({0} \cup {i \in DOMAIN items : items[i].key[1] <= item.key[1]})
LEMMA PlaceIsBehind ==
    ASSUME NEW n \in Nat \ {0}, NEW items \in Seq(Item(n)), NEW item \in Item(n)
    PROVE  /\ PlaceFor(items, item) \in 1..Len(items) + 1
           /\ \A i \in 1..Len(items) : items[i].key[1] <= item.key[1] => i < PlaceFor(items, item)
           /\ PlaceFor(items, item) # 1 =>
                 /\ PlaceFor(items, item) - 1 \in 1..Len(items)
                 /\ items[PlaceFor(items, item) - 1].key[1] <= item.key[1]
<1> DEFINE L == Len(items)
           S == {0} \cup {i \in DOMAIN items : items[i].key[1] <= item.key[1]}
<1>1. L \in Nat /\ DOMAIN items = 1..L
  OBVIOUS
<1>2. S \in SUBSET (0..L) /\ S # {} /\ \A i \in S : i # 0 => i \in 1..L /\ items[i].key[1] <= item.key[1]
  BY <1>1
<1>3. \A i \in 1..L : items[i].key[1] <= item.key[1] => i \in S
  BY <1>1
<1> HIDE DEF S
<1>4. Max(S) \in S /\ \A i \in S : i <= Max(S)
  BY <1>1, <1>2, Greatest
<1>5. PICK m \in 0..L : m = Max(S)
  BY <1>2, <1>4
<1>6. PlaceFor(items, item) = 1 + m
  BY <1>5 DEF PlaceFor, S
<1>7. (1 + m) - 1 = m /\ 1 + m \in 1..L + 1 /\ \A i \in 1..L : i <= m => i < 1 + m
  BY <1>1
<1>8. 1 + m # 1 => m # 0
  OBVIOUS
<1> QED BY <1>2, <1>3, <1>4, <1>5, <1>6, <1>7, <1>8

LEMMA InsertedIs ==
    ASSUME NEW n \in Nat \ {0}, NEW items \in Seq(Item(n)), NEW item \in Item(n)
    PROVE  /\ Inserted(items, item) \in Seq(Item(n)) /\ Len(Inserted(items, item)) = Len(items) + 1
           /\ \A j \in 1..Len(items) + 1 :
                 Inserted(items, item)[j] = IF j < PlaceFor(items, item) THEN items[j]
                                            ELSE IF j = PlaceFor(items, item) THEN item ELSE items[j - 1]
<1>1. Inserted(items, item) = InsertAt(items, PlaceFor(items, item), item)
  BY DEF Inserted, PlaceFor
<1>2. PICK p \in 1..Len(items) + 1 : p = PlaceFor(items, item)
  BY PlaceIsBehind
<1> QED BY <1>1, <1>2, InsertAtInserts

LEMMA InsertedInRanks ==
    ASSUME NEW n \in Nat \ {0}, NEW items \in Seq(Item(n)), NEW item \in Item(n), InRanks(items)
    PROVE  InRanks(Inserted(items, item))
<1> DEFINE L == Len(items)
           out == Inserted(items, item)
           R(i) == items[i].key[1]
           r == item.key[1]
<1>1. PICK p \in 1..L + 1 : p = PlaceFor(items, item)
  BY PlaceIsBehind
<1>2. /\ \A i \in 1..L : R(i) <= r => i < p
      /\ p # 1 => p - 1 \in 1..L /\ R(p - 1) <= r
  BY <1>1, PlaceIsBehind
<1>3. /\ out \in Seq(Item(n)) /\ Len(out) = L + 1
      /\ \A j \in 1..L + 1 : out[j] = IF j < p THEN items[j] ELSE IF j = p THEN item ELSE items[j - 1]
  BY <1>1, InsertedIs
<1>4. L \in Nat /\ p \in Int /\ DOMAIN items = 1..L /\ DOMAIN out = 1..L + 1
  BY <1>3
<1>5. r \in Int /\ \A i \in 1..L : R(i) \in Int
  <2>1. item.key \in Int \X Int
    BY DEF Item
  <2> QED BY <2>1, ItemFields
<1>6. \A i, j \in 1..L : i <= j => R(i) <= R(j)
  BY <1>4, <1>5 DEF InRanks
<1>7. \A i \in 1..L : i < p => R(i) <= r
  <2> SUFFICES ASSUME NEW i \in 1..L, i < p PROVE R(i) <= r
    OBVIOUS
  <2>1. p # 1 /\ i <= p - 1
    BY <1>4
  <2>2. p - 1 \in 1..L /\ R(i) <= R(p - 1) /\ R(p - 1) <= r
    BY <1>2, <1>6, <2>1
  <2> QED BY <1>5, <2>2
<1>8. \A i \in 1..L : ~(i < p) => r <= R(i)
  BY <1>2, <1>5
<1> HIDE DEF out
<1>9. ASSUME NEW i \in 1..L + 1, NEW j \in 1..L + 1, i < j
      PROVE  out[i].key[1] <= out[j].key[1]
  <2>1. CASE j < p
    <3>1. i < p /\ i \in 1..L /\ j \in 1..L
      BY <1>4, <1>9, <2>1
    <3>2. out[i] = items[i] /\ out[j] = items[j]
      BY <1>3, <2>1, <3>1
    <3> QED BY <1>6, <1>9, <3>1, <3>2
  <2>2. CASE j = p
    <3>1. i < p /\ i \in 1..L
      BY <1>4, <1>9, <2>2
    <3>2. out[i] = items[i] /\ out[j] = item
      BY <1>3, <2>2, <3>1
    <3> QED BY <1>7, <3>1, <3>2
  <2>3. CASE j > p
    <3>1. j - 1 \in 1..L /\ ~(j < p) /\ j # p /\ ~(j - 1 < p) /\ j \in Int /\ i \in Int
      BY <1>4, <1>9, <2>3
    <3>2. out[j] = items[j - 1]
      BY <1>3, <3>1
    <3>3. CASE i < p
      <4>1. i \in 1..L
        BY <1>4, <3>3
      <4>2. out[i] = items[i] /\ R(i) <= r /\ r <= R(j - 1)
        BY <1>3, <1>7, <1>8, <3>1, <3>3, <4>1
      <4> QED BY <1>5, <3>1, <3>2, <4>1, <4>2
    <3>4. CASE i = p
      <4>1. out[i] = item
        BY <1>3, <3>4
      <4> QED BY <1>8, <3>1, <3>2, <4>1
    <3>5. CASE i > p
      <4>1. i - 1 \in 1..L /\ ~(i < p) /\ i # p /\ i - 1 <= j - 1
        BY <1>4, <1>9, <3>5
      <4>2. out[i] = items[i - 1]
        BY <1>3, <4>1
      <4> QED BY <1>6, <3>1, <3>2, <4>1, <4>2
    <3> QED BY <1>4, <3>1, <3>3, <3>4, <3>5
  <2> QED BY <1>4, <2>1, <2>2, <2>3
<1> QED BY <1>4, <1>9 DEF InRanks, out

\* Nothing gets lost or comes twice.
LEMMA InsertedHas ==
    ASSUME NEW n \in Nat \ {0}, NEW items \in Seq(Item(n)), NEW item \in Item(n)
    PROVE  /\ \A j \in 1..Len(items) + 1 : Inserted(items, item)[j] = item \/ \E a \in 1..Len(items) : Inserted(items, item)[j] = items[a]
           /\ \E j \in 1..Len(items) + 1 : Inserted(items, item)[j] = item
           /\ \A a \in 1..Len(items) : \E j \in 1..Len(items) + 1 : Inserted(items, item)[j] = items[a]
           /\ Distinct(items) /\ (\A a \in 1..Len(items) : items[a].key # item.key) => Distinct(Inserted(items, item))
<1> DEFINE L == Len(items)
           out == Inserted(items, item)
<1>1. PICK p \in 1..L + 1 : p = PlaceFor(items, item)
  BY PlaceIsBehind
<1>2. /\ out \in Seq(Item(n)) /\ Len(out) = L + 1
      /\ \A j \in 1..L + 1 : out[j] = IF j < p THEN items[j] ELSE IF j = p THEN item ELSE items[j - 1]
  BY <1>1, InsertedIs
<1>3. L \in Nat /\ p \in Int /\ DOMAIN items = 1..L /\ DOMAIN out = 1..L + 1
  BY <1>2
<1> HIDE DEF out
<1>4. \A j \in 1..L + 1 : \/ j < p /\ j \in 1..L /\ out[j] = items[j]
                          \/ j = p /\ out[j] = item
                          \/ p < j /\ j - 1 \in 1..L /\ out[j] = items[j - 1]
  <2> SUFFICES ASSUME NEW j \in 1..L + 1
               PROVE  \/ j < p /\ j \in 1..L /\ out[j] = items[j]
                      \/ j = p /\ out[j] = item
                      \/ p < j /\ j - 1 \in 1..L /\ out[j] = items[j - 1]
    OBVIOUS
  <2>1. \/ j < p /\ j \in 1..L
        \/ j = p /\ ~(j < p)
        \/ p < j /\ ~(j < p) /\ j # p /\ j - 1 \in 1..L
    BY <1>3
  <2> QED BY <1>2, <2>1
<1>5. \A j \in 1..L + 1 : out[j] = item \/ \E a \in 1..L : out[j] = items[a]
  BY <1>4
<1>6. out[p] = item
  BY <1>2, <1>3
<1>7. ASSUME NEW a \in 1..L PROVE \E j \in 1..L + 1 : out[j] = items[a]
  <2>1. CASE a < p
    <3>1. a \in 1..L + 1
      BY <1>3
    <3> QED BY <1>2, <2>1, <3>1
  <2>2. CASE ~(a < p)
    <3>1. a + 1 \in 1..L + 1 /\ ~(a + 1 < p) /\ a + 1 # p /\ (a + 1) - 1 = a
      BY <1>3, <2>2
    <3>2. out[a + 1] = items[a]
      BY <1>2, <3>1
    <3> QED BY <3>1, <3>2
  <2> QED BY <2>1, <2>2
<1>8. ASSUME Distinct(items), \A a \in 1..L : items[a].key # item.key,
             NEW i \in 1..L + 1, NEW j \in 1..L + 1, out[i].key = out[j].key
      PROVE  i = j
  <2>1. \A a, b \in 1..L : items[a].key = items[b].key => a = b
    BY <1>3, <1>8 DEF Distinct
  <2>2. PICK x \in 0..L : \/ x = 0 /\ i = p /\ out[i] = item
                          \/ x # 0 /\ x = i /\ i < p /\ out[i] = items[x]
                          \/ x # 0 /\ x = i - 1 /\ p < i /\ out[i] = items[x]
    <3>1. 0 \in 0..L /\ \A a \in 1..L : a \in 0..L /\ a # 0
      BY <1>3
    <3> QED BY <1>4, <3>1
  <2>3. PICK y \in 0..L : \/ y = 0 /\ j = p /\ out[j] = item
                          \/ y # 0 /\ y = j /\ j < p /\ out[j] = items[y]
                          \/ y # 0 /\ y = j - 1 /\ p < j /\ out[j] = items[y]
    <3>1. 0 \in 0..L /\ \A a \in 1..L : a \in 0..L /\ a # 0
      BY <1>3
    <3> QED BY <1>4, <3>1
  <2>4. x = y
    <3>1. x # 0 => x \in 1..L
      BY <1>3
    <3>2. y # 0 => y \in 1..L
      BY <1>3
    <3> QED BY <1>8, <2>1, <2>2, <2>3, <3>1, <3>2
  <2> QED BY <1>3, <2>2, <2>3, <2>4
<1>9. Distinct(items) /\ (\A a \in 1..L : items[a].key # item.key) => Distinct(out)
  BY <1>3, <1>8 DEF Distinct
<1> QED BY <1>1, <1>5, <1>6, <1>7, <1>9 DEF out

\* What is sorted after some rounds.
Sorts(out, items, m) ==
    /\ Len(out) = m
    /\ InRanks(out) /\ Distinct(out)
    /\ \A j \in 1..m : \E a \in 1..m : out[j] = items[a]
    /\ \A a \in 1..m : \E j \in 1..m : out[j] = items[a]

LEMMA InsertedSorts ==
    ASSUME NEW n \in Nat \ {0}, NEW items \in Seq(Item(n)), Distinct(items), NEW m \in 1..Len(items),
           NEW out \in Seq(Item(n)), Sorts(out, items, m - 1)
    PROVE  Sorts(Inserted(out, items[m]), items, m)
<1>1. m \in Nat /\ m - 1 \in Nat /\ (m - 1) + 1 = m /\ items[m] \in Item(n) /\ Len(items) \in Nat /\ DOMAIN items = 1..Len(items)
  OBVIOUS
<1>2. PICK item \in Item(n) : item = items[m]
  BY <1>1
<1>3. /\ Len(out) = m - 1 /\ InRanks(out) /\ Distinct(out)
      /\ \A j \in 1..m - 1 : \E a \in 1..m - 1 : out[j] = items[a]
      /\ \A a \in 1..m - 1 : \E j \in 1..m - 1 : out[j] = items[a]
  BY DEF Sorts
<1> DEFINE new == Inserted(out, item)
<1>4. Len(new) = m /\ InRanks(new)
  BY <1>1, <1>3, InsertedIs, InsertedInRanks
<1>5. /\ \A j \in 1..m : new[j] = item \/ \E a \in 1..m - 1 : new[j] = out[a]
      /\ \E j \in 1..m : new[j] = item
      /\ \A a \in 1..m - 1 : \E j \in 1..m : new[j] = out[a]
      /\ (\A a \in 1..m - 1 : out[a].key # item.key) => Distinct(new)
  <2>1. /\ \A j \in 1..Len(out) + 1 : new[j] = item \/ \E a \in 1..Len(out) : new[j] = out[a]
        /\ \E j \in 1..Len(out) + 1 : new[j] = item
        /\ \A a \in 1..Len(out) : \E j \in 1..Len(out) + 1 : new[j] = out[a]
        /\ Distinct(out) /\ (\A a \in 1..Len(out) : out[a].key # item.key) => Distinct(new)
    BY InsertedHas
  <2>2. 1..Len(out) + 1 = 1..m /\ 1..Len(out) = 1..m - 1
    BY <1>1, <1>3
  <2> HIDE DEF new
  <2> QED BY <1>3, <2>1, <2>2
<1> HIDE DEF new
<1>6. \A a \in 1..m - 1 : a \in 1..m /\ a # m /\ a \in DOMAIN items /\ m \in DOMAIN items
  BY <1>1
<1>7. \A a \in 1..m - 1 : out[a].key # item.key
  <2> SUFFICES ASSUME NEW a \in 1..m - 1, out[a].key = item.key PROVE FALSE
    OBVIOUS
  <2>1. PICK b \in 1..m - 1 : out[a] = items[b]
    BY <1>3
  <2>2. items[b].key = items[m].key
    BY <1>2, <2>1
  <2> QED BY <1>6, <2>2 DEF Distinct
<1>8. \A j \in 1..m : \E a \in 1..m : new[j] = items[a]
  <2> SUFFICES ASSUME NEW j \in 1..m PROVE \E a \in 1..m : new[j] = items[a]
    OBVIOUS
  <2>1. m \in 1..m
    BY <1>1
  <2> QED BY <1>2, <1>3, <1>5, <1>6, <2>1
<1>9. \A a \in 1..m : \E j \in 1..m : new[j] = items[a]
  <2> SUFFICES ASSUME NEW a \in 1..m PROVE \E j \in 1..m : new[j] = items[a]
    OBVIOUS
  <2>1. a = m \/ a \in 1..m - 1
    BY <1>1
  <2>2. CASE a = m
    BY <1>2, <1>5, <2>2
  <2>3. CASE a \in 1..m - 1
    <3>1. PICK j \in 1..m - 1 : out[j] = items[a]
      BY <1>3, <2>3
    <3>2. PICK i \in 1..m : new[i] = out[j]
      BY <1>5
    <3> QED BY <3>1, <3>2
  <2> QED BY <2>1, <2>2, <2>3
<1>10. Sorts(new, items, m)
  BY <1>4, <1>5, <1>7, <1>8, <1>9 DEF Sorts
<1> QED BY <1>2, <1>10 DEF new

\* The table is sorted, and its items stay.
LEMMA SortedHashSorts ==
    ASSUME NEW n \in Nat \ {0}, NEW table, HashOf(n, table)
    PROVE  /\ HashOf(n, SortedHash(table)) /\ SortedHash(table).timestamp = table.timestamp
           /\ \A j \in DOMAIN SortedHash(table).Items : \E a \in DOMAIN table.Items : SortedHash(table).Items[j] = table.Items[a]
           /\ \A a \in DOMAIN table.Items : \E j \in DOMAIN SortedHash(table).Items : SortedHash(table).Items[j] = table.Items[a]
<1> DEFINE items == table.Items
           L == Len(items)
           S == Seq(Item(n))
           ordered == CHOOSE f : f = [k \in 0..L |-> IF k = 0 THEN <<>> ELSE Inserted(f[k - 1], items[k])]
           next == [k \in 1..L |-> [s \in S |-> Inserted(s, items[k])]]
           T == {k \in 0..L : ordered[k] \in S /\ Sorts(ordered[k], items, k)}
<1>1. items \in S /\ L \in Nat /\ DOMAIN items = 1..L /\ Distinct(items) /\ \A k \in 1..L : items[k] \in Item(n)
  BY DEF HashOf
<1>2. \A k \in 1..L, s \in S : Inserted(s, items[k]) \in S
  BY <1>1, InsertedIs
<1>3. SortedHash(table) = [table EXCEPT !.sorted = TRUE, !.Items = ordered[L]]
  BY DEF SortedHash
<1>4. <<>> \in S /\ Sorts(<<>>, items, 0)
  BY DEF Sorts, InRanks, Distinct
<1> HIDE DEF S, items, L
<1>6. next \in Steps(L, S)
  BY <1>2 DEF Steps
<1>7. PICK g : Iterates(g, L, S, <<>>, next)
  <2> HIDE DEF next
  <2> QED BY <1>1, <1>4, <1>6, Iteration
<1>8. g \in [0..L -> S] /\ g[0] = <<>> /\ \A k \in 1..L : g[k] = next[k][g[k - 1]]
  BY <1>7 DEF Iterates
<1>10. \A k \in 1..L : g[k] = Inserted(g[k - 1], items[k])
  <2> SUFFICES ASSUME NEW k \in 1..L PROVE g[k] = Inserted(g[k - 1], items[k])
    OBVIOUS
  <2>1. k - 1 \in 0..L
    BY <1>1
  <2>2. g[k - 1] \in S
    BY <1>8, <2>1
  <2> QED BY <1>8, <2>2
<1>11. ordered = [k \in 0..L |-> IF k = 0 THEN <<>> ELSE Inserted(ordered[k - 1], items[k])]
  <2>1. \A k \in 0..L : k = 0 \/ k \in 1..L
    BY <1>1
  <2>2. \A k \in 0..L : g[k] = IF k = 0 THEN <<>> ELSE Inserted(g[k - 1], items[k])
    BY <1>8, <1>10, <2>1
  <2>3. g = [k \in 0..L |-> IF k = 0 THEN <<>> ELSE Inserted(g[k - 1], items[k])]
    BY <1>8, <2>2
  <2> QED BY <2>3
<1> HIDE DEF ordered
<1>12. ordered[0] = <<>> /\ \A k \in 1..L : ordered[k] = Inserted(ordered[k - 1], items[k])
  <2>1. 0 \in 0..L /\ \A k \in 1..L : k \in 0..L /\ k # 0
    BY <1>1
  <2> QED BY <1>11, <2>1
<1>13. 0 \in T
  BY <1>1, <1>4, <1>12
<1>14. ASSUME NEW k \in 1..L, k - 1 \in T PROVE k \in T
  <2>1. k \in 0..L
    BY <1>1
  <2>2. ordered[k - 1] \in S /\ Sorts(ordered[k - 1], items, k - 1)
    BY <1>14
  <2>3. Sorts(Inserted(ordered[k - 1], items[k]), items, k)
    BY <1>1, <2>2, InsertedSorts DEF L, S
  <2>4. Inserted(ordered[k - 1], items[k]) \in S
    BY <1>2, <2>2
  <2> QED BY <1>12, <2>1, <2>3, <2>4
<1>15. L \in T
  <2>1. \A k \in 1..L : k - 1 \in T => k \in T
    BY <1>14
  <2> HIDE DEF T
  <2>2. \A k \in 0..L : k \in T
    BY <1>1, <1>13, <2>1, InductionUpto
  <2> QED BY <1>1, <2>2
<1>16. PICK out \in Seq(Item(n)) : out = ordered[L] /\ Sorts(out, items, L)
  BY <1>15 DEF S
<1>17. /\ SortedHash(table).sorted = TRUE /\ SortedHash(table).Items = out
       /\ SortedHash(table).timestamp = table.timestamp
       /\ SortedHash(table) \in [sorted : BOOLEAN, timestamp : Int, Items : Seq(Item(n))]
  BY <1>3, <1>16 DEF HashOf
<1>18. /\ DOMAIN out = 1..L /\ InRanks(out) /\ Distinct(out)
       /\ \A j \in 1..L : \E a \in 1..L : out[j] = items[a]
       /\ \A a \in 1..L : \E j \in 1..L : out[j] = items[a]
  BY <1>16 DEF Sorts
<1>19. \A j \in DOMAIN out : out[j].key \in Names
  <2>1. \A a \in 1..L : items[a].key \in Names
    BY <1>1 DEF HashOf, items
  <2> QED BY <1>18, <2>1
<1>20. HashOf(n, SortedHash(table))
  BY <1>17, <1>18, <1>19 DEF HashOf
<1> QED BY <1>1, <1>17, <1>18, <1>20 DEF items

LEMMA SortedHashLogs ==
    ASSUME NEW n \in Nat \ {0}, NEW table, HashOf(n, table), NEW k, NEW log, Logged(table.Items, n, k, log)
    PROVE  Logged(SortedHash(table).Items, n, k, log)
<1> DEFINE items == table.Items
           out == SortedHash(table).Items
<1>1. /\ \A j \in DOMAIN out : \E a \in DOMAIN items : out[j] = items[a]
      /\ \A a \in DOMAIN items : \E j \in DOMAIN out : out[j] = items[a]
  BY SortedHashSorts
<1>2. \/ log = <<>> /\ \A i \in DOMAIN items : items[i].key # k
      \/ log # <<>> /\ \E i \in DOMAIN items : items[i].key = k /\ Holds(items[i], n, log)
  BY DEF Logged
<1> HIDE DEF items, out
<1>3. \/ log = <<>> /\ \A i \in DOMAIN out : out[i].key # k
      \/ log # <<>> /\ \E i \in DOMAIN out : out[i].key = k /\ Holds(out[i], n, log)
  <2>1. CASE log = <<>>
    BY <1>1, <1>2, <2>1
  <2>2. CASE log # <<>>
    <3>1. PICK i \in DOMAIN items : items[i].key = k /\ Holds(items[i], n, log)
      BY <1>2, <2>2
    <3>2. PICK j \in DOMAIN out : out[j] = items[i]
      BY <1>1
    <3> QED BY <2>2, <3>1, <3>2
  <2> QED BY <2>1, <2>2
<1> QED BY <1>3 DEF Logged, out

-----------------------------------------------------------------------------
(* The rings. *)

LEMMA AroundRing ==
    ASSUME NEW n \in Nat \ {0}, NEW i \in 0..n - 1, NEW j \in 0..n - 1
    PROVE  /\ (i + j) % n \in 0..n - 1
           /\ (i + j) % n = IF i + j < n THEN i + j ELSE i + j - n
<1>1. CASE i + j < n
  <2>1. i + j \in 0..n - 1
    BY <1>1
  <2>2. PICK a \in 0..n - 1 : a = i + j
    BY <2>1
  <2>3. a % n = a
    OBVIOUS
  <2> QED BY <1>1, <2>2, <2>3
<1>2. CASE ~(i + j < n)
  <2>1. PICK a \in Nat : a = i + j
    OBVIOUS
  <2>2. a >= n /\ a < 2 * n
    BY <1>2, <2>1
  <2>3. a % n = a - n
    BY <2>2
  <2>4. a - n \in 0..n - 1
    BY <2>2
  <2> QED BY <1>2, <2>1, <2>3, <2>4
<1> QED BY <1>1, <1>2

\* What hash_set does to an item, old or new.
SetItem(item, n, now, value) ==
    [item EXCEPT !.index = NextSlot(item, n), !.Slot[NextSlot(item, n)] = <<now, value>>]
NewItem(key, n) == [key |-> key, index |-> 0, Slot |-> [s \in 0..n - 1 |-> <<0, 0>>]]

LEMMA NewItemHolds ==
    ASSUME NEW n \in Nat \ {0}, NEW key \in Int \X Int
    PROVE  NewItem(key, n) \in Item(n) /\ NewItem(key, n).key = key /\ Holds(NewItem(key, n), n, <<>>)
<1> DEFINE item == NewItem(key, n)
<1>1. item \in Item(n) /\ item.key = key /\ item.index = 0
  BY DEF NewItem, Item, Ring
<1>2. \A s \in 0..n - 1 : item.Slot[s] = <<0, 0>>
  BY DEF NewItem
<1> HIDE DEF item
<1>3. \A j \in 0..n - 1 : (item.index + j) % n \in 0..n - 1
  <2>1. item.index \in 0..n - 1
    BY <1>1
  <2> QED BY <2>1, AroundRing
<1>4. \A j \in 0..n - 1 : ~(j < Len(<<>>))
  <2>1. Len(<<>>) = 0
    OBVIOUS
  <2> QED BY <2>1
<1>5. Holds(item, n, <<>>)
  BY <1>2, <1>3, <1>4 DEF Holds
<1> QED BY <1>1, <1>5 DEF item

\* What is put comes first in the ring, and the rest follows.
LEMMA SetItemHolds ==
    ASSUME NEW n \in Nat \ {0}, NEW item \in Item(n), NEW log \in Log, Holds(item, n, log),
           NEW now \in Int, NEW value \in Int
    PROVE  Holds(SetItem(item, n, now, value), n, Append(log, <<now, value>>))
<1> DEFINE entry == <<now, value>>
           x == NextSlot(item, n)
           new == SetItem(item, n, now, value)
           i == item.index
<1>1. i \in 0..n - 1 /\ item.Slot \in [0..n - 1 -> Int \X Int]
  BY DEF Item, Ring
<1>2. x = (IF i = 0 THEN n - 1 ELSE i - 1) /\ x \in 0..n - 1
  BY <1>1 DEF NextSlot
<1> HIDE DEF x
<1>3. new.index = x /\ new.Slot = [item.Slot EXCEPT ![x] = entry]
  BY DEF SetItem, x, Item
<1>4. new.Slot[x] = entry /\ \A y \in 0..n - 1 : y # x => new.Slot[y] = item.Slot[y]
  BY <1>1, <1>2, <1>3
<1> HIDE DEF new, entry
<1>5. Len(log) \in Nat /\ Len(Append(log, entry)) = Len(log) + 1
      /\ Append(log, entry)[Len(log) + 1] = entry
      /\ \A a \in 1..Len(log) : Append(log, entry)[a] = log[a]
  <2>1. entry \in Int \X Int
    BY DEF entry
  <2> QED BY <2>1, AppendProperties DEF Log
<1> SUFFICES ASSUME NEW j \in 0..n - 1
             PROVE  new.Slot[(x + j) % n] = IF j < Len(log) + 1 THEN Append(log, entry)[(Len(log) + 1) - j] ELSE <<0, 0>>
  BY <1>3, <1>5 DEF Holds, new, entry
<1>6. CASE j = 0
  <2>1. (x + j) % n = x
    <3>1. PICK y \in 0..n - 1 : y = (x + j) % n
      BY <1>2, AroundRing
    <3>2. y = IF x + j < n THEN x + j ELSE x + j - n
      BY <1>2, <3>1, AroundRing
    <3>3. x \in Int /\ x < n /\ x + j = x
      BY <1>2, <1>6
    <3> QED BY <3>1, <3>2, <3>3
  <2>2. j < Len(log) + 1 /\ (Len(log) + 1) - j = Len(log) + 1
    BY <1>5, <1>6
  <2> QED BY <1>4, <1>5, <2>1, <2>2
<1>7. CASE j # 0
  <2>1. j - 1 \in 0..n - 1
    BY <1>7
  <2>2. PICK y \in 0..n - 1 : y = (x + j) % n
    BY <1>2, AroundRing
  <2>3. y = IF x + j < n THEN x + j ELSE x + j - n
    BY <1>2, <2>2, AroundRing
  <2>4. y # x
    BY <1>2, <1>7, <2>3
  <2>5. PICK z \in 0..n - 1 : z = (i + (j - 1)) % n
    BY <1>1, <2>1, AroundRing
  <2>6. z = IF i + (j - 1) < n THEN i + (j - 1) ELSE i + (j - 1) - n
    BY <1>1, <2>1, <2>5, AroundRing
  <2>7. y = z
    <3>1. CASE i = 0
      <4>1. x = n - 1 /\ ~(x + j < n) /\ y = j - 1 /\ z = j - 1
        BY <1>2, <1>7, <2>3, <2>6, <3>1
      <4> QED BY <4>1
    <3>2. CASE i # 0
      <4>1. x = i - 1 /\ i \in Int /\ j \in Int
        BY <1>1, <1>2, <3>2
      <4>2. x + j = i + (j - 1)
        BY <4>1
      <4>3. x + j - n = i + (j - 1) - n
        BY <4>1
      <4> QED BY <2>3, <2>6, <4>2, <4>3
    <3> QED BY <3>1, <3>2
  <2>8. new.Slot[y] = IF j - 1 < Len(log) THEN log[Len(log) - (j - 1)] ELSE <<0, 0>>
    BY <1>4, <2>1, <2>4, <2>5, <2>7 DEF Holds
  <2>9. CASE j < Len(log) + 1
    <3>1. j - 1 < Len(log) /\ (Len(log) + 1) - j \in 1..Len(log) /\ Len(log) - (j - 1) = (Len(log) + 1) - j
      BY <1>5, <1>7, <2>9
    <3> QED BY <1>5, <2>2, <2>8, <2>9, <3>1
  <2>10. CASE ~(j < Len(log) + 1)
    <3>1. ~(j - 1 < Len(log))
      BY <1>5, <2>10
    <3> QED BY <2>2, <2>8, <2>10, <3>1
  <2> QED BY <2>9, <2>10
<1> QED BY <1>6, <1>7

LEMMA SetItemIs ==
    ASSUME NEW n \in Nat \ {0}, NEW item \in Item(n), NEW now \in Int, NEW value \in Int
    PROVE  /\ SetItem(item, n, now, value) \in Item(n)
           /\ SetItem(item, n, now, value).key = item.key
<1> DEFINE x == NextSlot(item, n)
<1>1. x \in 0..n - 1 /\ <<now, value>> \in Int \X Int
  BY DEF NextSlot, Item
<1> HIDE DEF x
<1>2. SetItem(item, n, now, value) = [item EXCEPT !.index = x, !.Slot = [item.Slot EXCEPT ![x] = <<now, value>>]]
  BY DEF SetItem, x, Item
<1>3. [item.Slot EXCEPT ![x] = <<now, value>>] \in Ring(n)
  BY <1>1 DEF Item, Ring
<1> QED BY <1>1, <1>2, <1>3 DEF Item

-----------------------------------------------------------------------------
(* Putting a value. *)

LEMMA HashSetIs ==
    ASSUME NEW table, NEW key, NEW value, NEW n, NEW now
    PROVE  HashSet(table, key, value, n, now) =
               IF Lookup(table, key) = 0
               THEN [sorted |-> FALSE, timestamp |-> now,
                     Items |-> Append(table.Items, SetItem(NewItem(key, n), n, now, value))]
               ELSE [table EXCEPT !.timestamp = now,
                                  !.Items[Lookup(table, key)] = SetItem(@, n, now, value)]
BY DEF HashSet, SetItem, NewItem

\* A new item comes last, or one of the same rank is set.
HashSets(table, after, n, key, now, value) ==
    /\ after = [sorted |-> after.sorted, timestamp |-> now, Items |-> after.Items]
    /\ \/ /\ after.sorted = FALSE
          /\ \A i \in DOMAIN table.Items : table.Items[i].key # key
          /\ after.Items = Append(table.Items, SetItem(NewItem(key, n), n, now, value))
       \/ /\ after.sorted = table.sorted
          /\ \E p \in DOMAIN table.Items :
                /\ table.Items[p].key[1] = key[1]
                /\ after.Items = [table.Items EXCEPT ![p] = SetItem(table.Items[p], n, now, value)]

LEMMA HashSetSets ==
    ASSUME NEW n \in Nat \ {0}, NEW table, HashOf(n, table), NEW key \in Names, NEW now \in Int, NEW value \in Int
    PROVE  HashSets(table, HashSet(table, key, value, n, now), n, key, now, value)
<1> DEFINE items == table.Items
           p == Lookup(table, key)
           after == HashSet(table, key, value, n, now)
<1>1. items \in Seq(Item(n)) /\ DOMAIN items = 1..Len(items) /\ table = [sorted |-> table.sorted, timestamp |-> table.timestamp, Items |-> items]
  BY DEF HashOf
<1>2. key \in Int \X Int
  BY NamesAssumption
<1>3. /\ p \in 0..Len(items)
      /\ p # 0 => items[p].key[1] = key[1]
      /\ p = 0 => \A i \in 1..Len(items) : items[i].key # key
  BY <1>2, LookupFinds
<1>4. CASE p = 0
  <2>1. after = [sorted |-> FALSE, timestamp |-> now, Items |-> Append(items, SetItem(NewItem(key, n), n, now, value))]
    BY <1>4, HashSetIs
  <2>2. \A i \in DOMAIN items : items[i].key # key
    BY <1>1, <1>3, <1>4
  <2> HIDE DEF after, items, p
  <2>3. HashSets(table, after, n, key, now, value)
    BY <2>1, <2>2 DEF HashSets, items
  <2> QED BY <2>3 DEF after
<1>5. CASE p # 0
  <2> DEFINE set == SetItem(items[p], n, now, value)
  <2>1. after = [table EXCEPT !.timestamp = now, !.Items[p] = SetItem(@, n, now, value)]
    BY <1>5, HashSetIs
  <2>2. after = [table EXCEPT !.timestamp = now, !.Items = [items EXCEPT ![p] = set]]
    BY <2>1
  <2>3. after = [sorted |-> table.sorted, timestamp |-> now, Items |-> [items EXCEPT ![p] = set]]
    <3> HIDE DEF set, items, after, p
    <3> QED BY <1>1, <2>2
  <2>4. p \in DOMAIN items /\ items[p].key[1] = key[1]
    BY <1>1, <1>3, <1>5
  <2> HIDE DEF p, after, items
  <2>5. HashSets(table, after, n, key, now, value)
    BY <2>3, <2>4 DEF HashSets, items
  <2> QED BY <2>5 DEF after
<1> QED BY <1>4, <1>5

LEMMA HashSetKeeps ==
    ASSUME NEW n \in Nat \ {0}, NEW table, HashOf(n, table), NEW key \in Names, NEW now \in Int, NEW value \in Int
    PROVE  HashOf(n, HashSet(table, key, value, n, now)) /\ HashSet(table, key, value, n, now).timestamp = now
<1> DEFINE items == table.Items
           after == HashSet(table, key, value, n, now)
           out == after.Items
           L == Len(items)
<1>1. /\ items \in Seq(Item(n)) /\ L \in Nat /\ DOMAIN items = 1..L
      /\ \A i \in DOMAIN items : items[i] \in Item(n) /\ items[i].key \in Names
      /\ Distinct(items) /\ (table.sorted => InRanks(items)) /\ table.sorted \in BOOLEAN
  BY DEF HashOf
<1>2. HashSets(table, after, n, key, now, value)
  BY HashSetSets
<1>3. key \in Int \X Int
  BY NamesAssumption
<1>4. /\ out \in Seq(Item(n))
      /\ \A i \in DOMAIN out : out[i].key \in Names
      /\ Distinct(out)
      /\ after.sorted => InRanks(out)
      /\ after.sorted \in BOOLEAN
  <2>1. CASE /\ after.sorted = FALSE
             /\ \A i \in DOMAIN items : items[i].key # key
             /\ out = Append(items, SetItem(NewItem(key, n), n, now, value))
    <3>1. PICK item \in Item(n) : item = SetItem(NewItem(key, n), n, now, value) /\ item.key = key
      BY <1>3, NewItemHolds, SetItemIs
    <3> HIDE DEF items, out, after
    <3>2. /\ out \in Seq(Item(n)) /\ Len(out) = L + 1 /\ DOMAIN out = 1..L + 1
          /\ \A i \in 1..L : out[i] = items[i]
          /\ out[L + 1] = item
      BY <1>1, <2>1, <3>1, AppendProperties
    <3>3. \A i \in 1..L + 1 : i \in 1..L \/ i = L + 1
      BY <1>1
    <3>4. \A i \in DOMAIN out : out[i].key \in Names
      BY <1>1, <3>1, <3>2, <3>3
    <3>5. Distinct(out)
      <4> SUFFICES ASSUME NEW i \in 1..L + 1, NEW j \in 1..L + 1, out[i].key = out[j].key PROVE i = j
        BY <3>2 DEF Distinct
      <4> QED BY <1>1, <2>1, <3>1, <3>2, <3>3 DEF Distinct
    <3> QED BY <2>1, <3>2, <3>4, <3>5
  <2>2. CASE /\ after.sorted = table.sorted
             /\ \E p \in DOMAIN items : out = [items EXCEPT ![p] = SetItem(items[p], n, now, value)]
    <3>1. PICK p \in DOMAIN items : out = [items EXCEPT ![p] = SetItem(items[p], n, now, value)]
      BY <2>2
    <3>2. PICK item \in Item(n) : item = SetItem(items[p], n, now, value) /\ item.key = items[p].key
      BY <1>1, SetItemIs
    <3> HIDE DEF items, out, after
    <3>3. out = [items EXCEPT ![p] = item]
      BY <3>1, <3>2
    <3>4. out \in Seq(Item(n)) /\ DOMAIN out = DOMAIN items
      BY <1>1, <3>3
    <3>5. \A i \in DOMAIN items : out[i].key = items[i].key
      BY <3>2, <3>3
    <3> QED BY <1>1, <2>2, <3>4, <3>5 DEF Distinct, InRanks
  <2> QED BY <1>2, <2>1, <2>2 DEF HashSets
<1>5. after = [sorted |-> after.sorted, timestamp |-> now, Items |-> out]
  BY <1>2 DEF HashSets
<1> HIDE DEF out, items, after
<1>6. after \in [sorted : BOOLEAN, timestamp : Int, Items : Seq(Item(n))] /\ after.timestamp = now
  BY <1>4, <1>5
<1> QED BY <1>4, <1>6 DEF HashOf, after, out

\* Under a key that has no twin comes the value, if it was put under it, and nothing else.
LEMMA HashSetLogs ==
    ASSUME NEW n \in Nat \ {0}, NEW table, HashOf(n, table), NEW key \in Names, NEW now \in Int, NEW value \in Int,
           NEW k \in Names, Lonely(k), NEW log \in Log, Logged(table.Items, n, k, log)
    PROVE  Logged(HashSet(table, key, value, n, now).Items, n, k,
                  IF key = k THEN Append(log, <<now, value>>) ELSE log)
<1> DEFINE items == table.Items
           after == HashSet(table, key, value, n, now)
           out == after.Items
           L == Len(items)
           more == Append(log, <<now, value>>)
<1>1. /\ items \in Seq(Item(n)) /\ L \in Nat /\ DOMAIN items = 1..L
      /\ \A i \in DOMAIN items : items[i] \in Item(n) /\ items[i].key \in Names
      /\ Distinct(items)
  BY DEF HashOf
<1>2. HashSets(table, after, n, key, now, value)
  BY HashSetSets
<1>3. key \in Int \X Int /\ <<now, value>> \in Int \X Int
  BY NamesAssumption
<1>4. more # <<>>
  <2>1. Len(more) = Len(log) + 1 /\ Len(log) \in Nat /\ Len(<<>>) = 0
    BY <1>3, AppendProperties DEF Log
  <2> HIDE DEF more
  <2> QED BY <2>1
<1>5. CASE /\ \A i \in DOMAIN items : items[i].key # key
           /\ out = Append(items, SetItem(NewItem(key, n), n, now, value))
  <2>1. PICK new \in Item(n) : new = NewItem(key, n) /\ new.key = key /\ Holds(new, n, <<>>)
    BY <1>3, NewItemHolds
  <2>2. PICK item \in Item(n) : item = SetItem(new, n, now, value) /\ item.key = key
    BY <2>1, SetItemIs
  <2>3. <<>> \in Log
    BY DEF Log
  <2>4. Holds(item, n, Append(<<>>, <<now, value>>))
    BY <2>1, <2>2, <2>3, SetItemHolds
  <2> HIDE DEF out
  <2>5. /\ DOMAIN out = 1..L + 1 /\ out[L + 1] = item
        /\ \A i \in 1..L : out[i] = items[i]
    <3> HIDE DEF items
    <3> QED BY <1>1, <1>5, <2>1, <2>2, AppendProperties
  <2>6. L + 1 \in 1..L + 1 /\ (\A i \in 1..L : i \in 1..L + 1) /\ (\A i \in 1..L + 1 : i \in 1..L \/ i = L + 1)
    BY <1>1
  <2> HIDE DEF L, items
  <2>7. CASE key = k
    <3>1. log = <<>>
      BY <1>5, <2>7 DEF Logged, items
    <3>2. Holds(item, n, more)
      BY <2>4, <3>1
    <3>3. out[L + 1].key = k /\ L + 1 \in DOMAIN out /\ Holds(out[L + 1], n, more)
      BY <2>2, <2>5, <2>6, <2>7, <3>2
    <3> HIDE DEF more
    <3>4. Logged(out, n, k, more)
      BY <1>4, <3>3 DEF Logged
    <3> QED BY <2>7, <3>4 DEF out, more
  <2>8. CASE key # k
    <3>1. Logged(out, n, k, log)
      <4>1. CASE log = <<>> /\ \A i \in DOMAIN items : items[i].key # k
        <5>1. \A i \in 1..L + 1 : out[i].key # k
          BY <1>1, <2>2, <2>5, <2>6, <2>8, <4>1
        <5> QED BY <2>5, <4>1, <5>1 DEF Logged
      <4>2. CASE log # <<>> /\ \E i \in DOMAIN items : items[i].key = k /\ Holds(items[i], n, log)
        <5>1. PICK i \in 1..L : items[i].key = k /\ Holds(items[i], n, log)
          BY <1>1, <4>2
        <5>2. i \in DOMAIN out /\ out[i] = items[i]
          BY <2>5, <2>6
        <5> QED BY <4>2, <5>1, <5>2 DEF Logged
      <4> QED BY <4>1, <4>2 DEF Logged, items
    <3> QED BY <2>8, <3>1 DEF out
  <2> QED BY <2>7, <2>8
<1>6. CASE \E p \in DOMAIN items : /\ items[p].key[1] = key[1]
                                   /\ out = [items EXCEPT ![p] = SetItem(items[p], n, now, value)]
  <2>1. PICK p \in DOMAIN items : items[p].key[1] = key[1] /\ out = [items EXCEPT ![p] = SetItem(items[p], n, now, value)]
    BY <1>6
  <2>2. PICK item \in Item(n) : item = SetItem(items[p], n, now, value) /\ item.key = items[p].key
    BY <1>1, SetItemIs
  <2> HIDE DEF out, items
  <2>3. /\ DOMAIN out = DOMAIN items /\ out[p] = item
        /\ \A i \in DOMAIN items : i # p => out[i] = items[i]
    BY <2>1, <2>2
  <2>4. CASE key = k
    <3>1. items[p].key = k
      BY <1>1, <2>1, <2>4 DEF Lonely
    <3>2. log # <<>> /\ \E i \in DOMAIN items : items[i].key = k /\ Holds(items[i], n, log)
      BY <3>1 DEF Logged, items
    <3>3. Holds(items[p], n, log)
      BY <1>1, <3>1, <3>2 DEF Distinct
    <3>4. Holds(item, n, more)
      <4>1. items[p] \in Item(n)
        BY <1>1
      <4> QED BY <2>2, <3>3, <4>1, SetItemHolds
    <3> HIDE DEF more
    <3>5. Logged(out, n, k, more)
      BY <1>4, <2>2, <2>3, <3>1, <3>4 DEF Logged
    <3> QED BY <2>4, <3>5 DEF out, more
  <2>5. CASE key # k
    <3>1. items[p].key # k
      BY <2>1, <2>5 DEF Lonely
    <3>2. Logged(out, n, k, log)
      <4>1. CASE log = <<>> /\ \A i \in DOMAIN items : items[i].key # k
        <5>1. \A i \in DOMAIN out : out[i].key # k
          BY <2>2, <2>3, <3>1, <4>1
        <5> QED BY <4>1, <5>1 DEF Logged
      <4>2. CASE log # <<>> /\ \E i \in DOMAIN items : items[i].key = k /\ Holds(items[i], n, log)
        <5>1. PICK i \in DOMAIN items : items[i].key = k /\ Holds(items[i], n, log)
          BY <4>2
        <5>2. i \in DOMAIN out /\ out[i] = items[i]
          BY <2>3, <3>1, <5>1
        <5> QED BY <4>2, <5>1, <5>2 DEF Logged
      <4> QED BY <4>1, <4>2 DEF Logged, items
    <3> QED BY <2>5, <3>2 DEF out
  <2> QED BY <2>4, <2>5
<1> QED BY <1>2, <1>5, <1>6 DEF HashSets

-----------------------------------------------------------------------------
(* Putting everything that a source has. *)

LEMMA InOrderOnce ==
    ASSUME NEW keys \in SUBSET Names, NEW all \in InOrder(keys)
    PROVE  /\ Len(all) \in Nat /\ DOMAIN all = 1..Len(all)
           /\ \A i \in 1..Len(all) : all[i] \in keys
           /\ \A k \in keys : \E i \in 1..Len(all) : all[i] = k
           /\ \A i, j \in 1..Len(all) : i < j => all[i] # all[j]
           /\ keys # {} => Len(all) # 0
<1>1. PICK c \in Nat : c = Cardinality(keys)
  BY NamesAssumption, FS_Subset, FS_CardinalityType
<1>2. all \in [1..c -> keys] /\ ToSet(all) = keys /\ \A i, j \in DOMAIN all : i < j => all[i][2] < all[j][2]
  BY <1>1 DEF InOrder
<1>3. all \in Seq(keys) /\ Len(all) = c /\ DOMAIN all = 1..c
  BY <1>2
<1>4. \A k \in keys : \E i \in 1..c : all[i] = k
  BY <1>2, <1>3 DEF ToSet
<1>5. \A i \in 1..c : all[i] \in keys /\ all[i][2] \in Int
  <2> SUFFICES ASSUME NEW i \in 1..c PROVE all[i] \in keys /\ all[i][2] \in Int
    OBVIOUS
  <2>1. all[i] \in keys /\ all[i] \in Int \X Int
    BY <1>2, NamesAssumption
  <2> QED BY <2>1
<1>6. \A i, j \in 1..c : i < j => all[i] # all[j]
  BY <1>2, <1>3, <1>5
<1>7. keys # {} => c # 0
  BY <1>4
<1> QED BY <1>1, <1>3, <1>4, <1>5, <1>6, <1>7

LogAfter(log, put, now, value) == IF put THEN Append(log, <<now, value>>) ELSE log
PutUpto(all, i, k) == \E j \in 1..i : all[j] = k

\* What is in the hash after i of the keys.
FilledTo(n, table, all, i, now, value, before) ==
    /\ HashOf(n, table)
    /\ i # 0 => table.timestamp = now
    /\ \A k \in Names, log \in Log : Lonely(k) /\ Logged(before.Items, n, k, log) =>
           Logged(table.Items, n, k, LogAfter(log, PutUpto(all, i, k), now, value))

LEMMA FilledOneMore ==
    ASSUME NEW n \in Nat \ {0}, NEW keys \in SUBSET Names, NEW all \in InOrder(keys), NEW i \in 1..Len(all),
           NEW table, NEW now \in Int, NEW value \in Int, NEW before,
           FilledTo(n, table, all, i - 1, now, value, before)
    PROVE  FilledTo(n, HashSet(table, all[i], value, n, now), all, i, now, value, before)
<1> DEFINE after == HashSet(table, all[i], value, n, now)
<1>1. HashOf(n, table) /\ i \in Nat /\ i - 1 \in Int
  BY InOrderOnce DEF FilledTo
<1>2. all[i] \in Names
  BY InOrderOnce
<1>3. HashOf(n, after) /\ after.timestamp = now
  BY <1>1, <1>2, HashSetKeeps
<1>4. ASSUME NEW k \in Names, NEW log \in Log, Lonely(k), Logged(before.Items, n, k, log)
      PROVE  Logged(after.Items, n, k, LogAfter(log, PutUpto(all, i, k), now, value))
  <2>1. PICK upto : upto = LogAfter(log, PutUpto(all, i - 1, k), now, value)
    OBVIOUS
  <2>2. upto \in Log
    <3>1. <<now, value>> \in Int \X Int
      OBVIOUS
    <3>2. Append(log, <<now, value>>) \in Log
      BY <3>1, AppendProperties DEF Log
    <3> QED BY <2>1, <3>2 DEF LogAfter
  <2>3. Logged(table.Items, n, k, upto)
    BY <1>4, <2>1 DEF FilledTo
  <2>4. Logged(after.Items, n, k, IF all[i] = k THEN Append(upto, <<now, value>>) ELSE upto)
    BY <1>1, <1>2, <1>4, <2>2, <2>3, HashSetLogs
  <2>5. CASE all[i] = k
    <3>1. PutUpto(all, i, k)
      <4>1. i \in 1..i
        BY <1>1
      <4> QED BY <2>5, <4>1 DEF PutUpto
    <3>2. ~PutUpto(all, i - 1, k)
      <4> SUFFICES ASSUME NEW j \in 1..i - 1, all[j] = k PROVE FALSE
        BY DEF PutUpto
      <4>1. j \in 1..Len(all) /\ j < i
        BY InOrderOnce
      <4> QED BY <2>5, <4>1, InOrderOnce
    <3> QED BY <2>1, <2>4, <2>5, <3>1, <3>2 DEF LogAfter
  <2>6. CASE all[i] # k
    <3>1. \A j \in 1..i : j \in 1..i - 1 \/ j = i
      BY <1>1
    <3>2. \A j \in 1..i - 1 : j \in 1..i
      BY <1>1
    <3>3. PutUpto(all, i, k) <=> PutUpto(all, i - 1, k)
      BY <2>6, <3>1, <3>2 DEF PutUpto
    <3> QED BY <2>1, <2>4, <2>6, <3>3 DEF LogAfter
  <2> QED BY <2>5, <2>6
<1> QED BY <1>3, <1>4 DEF FilledTo

LEMMA HashWithFills ==
    ASSUME NEW n \in Nat \ {0}, n = plugin.slots, HashOf(n, hash), counter \in Int, Clock \in Int,
           NEW keys \in SUBSET Names, NEW all \in InOrder(keys)
    PROVE  FilledTo(n, HashWith(all), all, Len(all), Clock, counter, hash)
<1> DEFINE L == Len(all)
           S == {table \in [sorted : BOOLEAN, timestamp : Int, Items : Seq(Item(n))] : HashOf(n, table)}
           filled == CHOOSE f : f = [i \in 0..L |-> IF i = 0 THEN hash ELSE HashSet(f[i - 1], all[i], counter, n, Clock)]
           next == [i \in 1..L |-> [table \in S |-> HashSet(table, all[i], counter, n, Clock)]]
           T == {i \in 0..L : FilledTo(n, filled[i], all, i, Clock, counter, hash)}
<1>1. L \in Nat /\ \A i \in 1..L : all[i] \in Names
  BY InOrderOnce
<1>2. \A table : table \in S <=> HashOf(n, table)
  BY DEF HashOf
<1>3. \A i \in 1..L, table \in S : HashSet(table, all[i], counter, n, Clock) \in S
  BY <1>1, <1>2, HashSetKeeps
<1>4. HashWith(all) = filled[L]
  BY DEF HashWith
<1>5. hash \in S
  BY <1>2
<1> HIDE DEF S, L
<1>6. next \in Steps(L, S)
  BY <1>3 DEF Steps
<1>7. PICK g : Iterates(g, L, S, hash, next)
  <2> HIDE DEF next
  <2> QED BY <1>1, <1>5, <1>6, Iteration
<1>8. g \in [0..L -> S] /\ g[0] = hash /\ \A i \in 1..L : g[i] = next[i][g[i - 1]]
  BY <1>7 DEF Iterates
<1>10. \A i \in 1..L : g[i] = HashSet(g[i - 1], all[i], counter, n, Clock)
  <2> SUFFICES ASSUME NEW i \in 1..L PROVE g[i] = HashSet(g[i - 1], all[i], counter, n, Clock)
    OBVIOUS
  <2>1. i - 1 \in 0..L
    BY <1>1
  <2>2. g[i - 1] \in S
    BY <1>8, <2>1
  <2> QED BY <1>8, <2>2
<1>11. filled = [i \in 0..L |-> IF i = 0 THEN hash ELSE HashSet(filled[i - 1], all[i], counter, n, Clock)]
  <2>1. \A i \in 0..L : i = 0 \/ i \in 1..L
    BY <1>1
  <2>2. \A i \in 0..L : g[i] = IF i = 0 THEN hash ELSE HashSet(g[i - 1], all[i], counter, n, Clock)
    BY <1>8, <1>10, <2>1
  <2>3. g = [i \in 0..L |-> IF i = 0 THEN hash ELSE HashSet(g[i - 1], all[i], counter, n, Clock)]
    BY <1>8, <2>2
  <2> QED BY <2>3
<1> HIDE DEF filled
<1>12. filled[0] = hash /\ \A i \in 1..L : filled[i] = HashSet(filled[i - 1], all[i], counter, n, Clock)
  <2>1. 0 \in 0..L /\ \A i \in 1..L : i \in 0..L /\ i # 0
    BY <1>1
  <2> QED BY <1>11, <2>1
<1>13. 0 \in T
  <2>1. \A k : ~PutUpto(all, 0, k)
    BY DEF PutUpto
  <2>2. FilledTo(n, hash, all, 0, Clock, counter, hash)
    BY <2>1 DEF FilledTo, LogAfter
  <2> QED BY <1>1, <1>12, <2>2
<1>14. ASSUME NEW i \in 1..L, i - 1 \in T PROVE i \in T
  <2>1. i \in 0..L
    BY <1>1
  <2>2. FilledTo(n, filled[i - 1], all, i - 1, Clock, counter, hash)
    BY <1>14
  <2>3. FilledTo(n, HashSet(filled[i - 1], all[i], counter, n, Clock), all, i, Clock, counter, hash)
    BY <2>2, FilledOneMore DEF L
  <2> QED BY <1>12, <2>1, <2>3
<1>15. L \in T
  <2>1. \A i \in 1..L : i - 1 \in T => i \in T
    BY <1>14
  <2> HIDE DEF T
  <2>2. \A i \in 0..L : i \in T
    BY <1>1, <1>13, <2>1, InductionUpto
  <2> QED BY <1>1, <2>2
<1> QED BY <1>4, <1>15 DEF L

\* All of the keys come under the clock, once each.
LEMMA HashWithPuts ==
    ASSUME NEW n \in Nat \ {0}, n = plugin.slots, HashOf(n, hash), counter \in Int, Clock \in Int,
           NEW keys \in SUBSET Names, NEW all \in InOrder(keys)
    PROVE  /\ HashOf(n, SortedHash(HashWith(all)))
           /\ keys # {} => SortedHash(HashWith(all)).timestamp = Clock
           /\ \A k \in Names, log \in Log : Lonely(k) /\ Logged(hash.Items, n, k, log) =>
                 Logged(SortedHash(HashWith(all)).Items, n, k, LogAfter(log, k \in keys, Clock, counter))
<1>1. PICK table : table = HashWith(all)
  OBVIOUS
<1>2. FilledTo(n, table, all, Len(all), Clock, counter, hash)
  BY <1>1, HashWithFills
<1>3. HashOf(n, table) /\ (keys # {} => table.timestamp = Clock)
  BY <1>2, InOrderOnce DEF FilledTo
<1>4. ASSUME NEW k \in Names, NEW log \in Log, Lonely(k), Logged(hash.Items, n, k, log)
      PROVE  Logged(SortedHash(table).Items, n, k, LogAfter(log, k \in keys, Clock, counter))
  <2>1. PutUpto(all, Len(all), k) <=> k \in keys
    BY InOrderOnce DEF PutUpto
  <2>2. Logged(table.Items, n, k, LogAfter(log, k \in keys, Clock, counter))
    BY <1>2, <1>4, <2>1 DEF FilledTo, LogAfter
  <2> QED BY <1>3, <2>2, SortedHashLogs
<1>5. HashOf(n, SortedHash(table)) /\ SortedHash(table).timestamp = table.timestamp
  BY <1>3, SortedHashSorts
<1> QED BY <1>1, <1>3, <1>4, <1>5

-----------------------------------------------------------------------------
(* The rates. *)

LEMMA MinIs ==
    ASSUME NEW S \in SUBSET Nat, NEW m \in S, \A i \in S : m <= i
    PROVE  Min(S) = m
<1>1. Min(S) \in S /\ \A i \in S : Min(S) <= i
  BY Least
<1>2. PICK x \in Nat : x = Min(S)
  BY <1>1
<1>3. m \in Nat /\ m <= x /\ x <= m
  BY <1>1, <1>2
<1> QED BY <1>2, <1>3

LEMMA MaxIs ==
    ASSUME NEW N \in Nat, NEW S \in SUBSET (0..N), NEW m \in S, \A i \in S : i <= m
    PROVE  Max(S) = m
<1>1. Max(S) \in S /\ \A i \in S : i <= Max(S)
  BY Greatest
<1>2. PICK x \in 0..N : x = Max(S)
  BY <1>1
<1>3. m \in 0..N /\ m <= x /\ x <= m
  BY <1>1, <1>2
<1> QED BY <1>2, <1>3

\* From the last value back.
Back(log, i) == IF i < Len(log) THEN log[Len(log) - i] ELSE <<0, 0>>
EndsBack(log, delay, n) == {i \in 1..n - 1 : Back(log, i)[1] = 0 \/ Back(log, i)[1] < log[Len(log)][1] - delay}
FirstBack(log, delay, n) ==
    IF EndsBack(log, delay, n) = {} THEN n - 1
    ELSE CHOOSE i \in EndsBack(log, delay, n) : \A j \in EndsBack(log, delay, n) : i <= j
SinceBack(log, delay, n) ==
    LET first == FirstBack(log, delay, n)
    IN  IF Back(log, first)[1] = 0 THEN first - 1 ELSE first
Kept(log, n) == {i \in 1..Len(log) : i > Len(log) - n}
Old(log, delay, n) == {i \in Kept(log, n) \ {Len(log)} : log[i][1] < log[Len(log)][1] - delay}
Since(log, delay, n) == IF Old(log, delay, n) = {} THEN Min(Kept(log, n)) ELSE Max(Old(log, delay, n))
RateSince(log, delay, slot) ==
    LET dv == log[Len(log)][2] - slot[2]
        dt == log[Len(log)][1] - slot[1]
    IN  IF delay = 0 THEN <<log[Len(log)][2], 1>> ELSE IF dt > 0 /\ dv >= 0 THEN <<dv, dt>> ELSE <<0, 1>>
Positive(log) == \A i \in DOMAIN log : log[i][1] > 0

LEMMA BackFields ==
    ASSUME NEW log \in Log, Positive(log), NEW i \in Nat
    PROVE  /\ i < Len(log) => /\ Len(log) - i \in 1..Len(log) /\ Back(log, i) = log[Len(log) - i]
                              /\ log[Len(log) - i][1] \in Int /\ Back(log, i)[1] # 0
           /\ ~(i < Len(log)) => Back(log, i)[1] = 0
<1>1. Len(log) \in Nat /\ DOMAIN log = 1..Len(log)
  BY DEF Log
<1>2. CASE i < Len(log)
  <2>1. Len(log) - i \in 1..Len(log)
    BY <1>1, <1>2
  <2>2. PICK a \in 1..Len(log) : a = Len(log) - i
    BY <2>1
  <2>3. log[a] \in Int \X Int /\ log[a][1] > 0
    <3>1. log \in Seq(Int \X Int)
      BY DEF Log
    <3>2. log[a][1] > 0
      BY <1>1 DEF Positive
    <3> QED BY <3>1, <3>2
  <2>4. log[a][1] \in Int /\ log[a][1] # 0
    BY <2>3
  <2> QED BY <1>2, <2>1, <2>2, <2>4 DEF Back
<1>3. CASE ~(i < Len(log))
  BY <1>3 DEF Back
<1> QED BY <1>2, <1>3

\* The slot that is found is that of the value since which the rate counts.
LEMMA SinceFound ==
    ASSUME NEW n \in Nat \ {0}, NEW log \in Log, log # <<>>, Positive(log), NEW delay \in Int
    PROVE  /\ FirstBack(log, delay, n) \in 0..n - 1
           /\ SinceBack(log, delay, n) \in 0..n - 1
           /\ Back(log, SinceBack(log, delay, n)) = log[Since(log, delay, n)]
<1> DEFINE N == Len(log)
           B(i) == Back(log, i)
           T(i) == log[i][1]
           ends == EndsBack(log, delay, n)
           first == FirstBack(log, delay, n)
           back == SinceBack(log, delay, n)
           kept == Kept(log, n)
           old == Old(log, delay, n)
<1>1. N \in Nat \ {0} /\ DOMAIN log = 1..N
  <2>1. log \in Seq(Int \X Int)
    BY DEF Log
  <2> QED BY <2>1, EmptySeq
<1>2. \A i \in 1..N : T(i) \in Int
  <2> SUFFICES ASSUME NEW i \in 1..N PROVE T(i) \in Int
    OBVIOUS
  <2>1. log[i] \in Int \X Int
    BY DEF Log
  <2> QED BY <2>1
<1>3. \A i \in Nat : i < N => N - i \in 1..N /\ B(i) = log[N - i] /\ T(N - i) \in Int /\ B(i)[1] # 0
  BY BackFields
<1>4. \A i \in Nat : ~(i < N) => B(i)[1] = 0
  BY BackFields
<1>5. ends = {i \in 1..n - 1 : B(i)[1] = 0 \/ B(i)[1] < T(N) - delay}
  BY DEF EndsBack
<1>6. first = IF ends = {} THEN n - 1 ELSE CHOOSE i \in ends : \A j \in ends : i <= j
  BY DEF FirstBack
<1>7. back = IF B(first)[1] = 0 THEN first - 1 ELSE first
  BY DEF SinceBack
<1>8. kept = {i \in 1..N : i > N - n}
  BY DEF Kept
<1>9. old = {i \in kept \ {N} : T(i) < T(N) - delay}
  BY DEF Old
<1>10. Since(log, delay, n) = IF old = {} THEN Min(kept) ELSE Max(old)
  BY DEF Since
<1> HIDE DEF B, ends, first, back, kept, old, N
<1>11. ends \in SUBSET Nat /\ \A i \in ends : i \in 1..n - 1
  BY <1>5
<1>12. ends # {} => first \in ends /\ \A j \in ends : first <= j
  <2> SUFFICES ASSUME ends # {} PROVE first \in ends /\ \A j \in ends : first <= j
    OBVIOUS
  <2>1. first = Min(ends)
    BY <1>6 DEF Min
  <2> QED BY <1>11, <2>1, Least
<1>13. kept \in SUBSET Nat
  BY <1>8
<1>14. old \in SUBSET (0..N) /\ \A i \in old : i \in 1..N /\ i > N - n /\ i # N
  <2>1. \A i \in old : i \in 1..N /\ i > N - n /\ i # N
    BY <1>8, <1>9
  <2>2. \A i \in 1..N : i \in 0..N
    BY <1>1
  <2> QED BY <2>1, <2>2
\* A value among the slots is old where its slot is an end.
<1>15. \A j \in 1..n - 1 : j < N => (N - j \in old <=> j \in ends)
  <2> SUFFICES ASSUME NEW j \in 1..n - 1, j < N PROVE N - j \in old <=> j \in ends
    OBVIOUS
  <2>1. N - j \in 1..N /\ B(j) = log[N - j] /\ B(j)[1] # 0
    BY <1>3
  <2>2. N - j > N - n /\ N - j # N
    BY <1>1
  <2>3. N - j \in kept \ {N}
    BY <1>8, <2>1, <2>2
  <2> QED BY <1>5, <1>9, <2>1, <2>3
<1>16. CASE ends = {}
  <2>1. first = n - 1 /\ first \in 0..n - 1
    BY <1>6, <1>16
  <2>2. n <= N
    <3> SUFFICES ASSUME ~(n <= N) PROVE FALSE
      OBVIOUS
    <3>1. n - 1 \in 1..n - 1 /\ ~(n - 1 < N) /\ n - 1 \in Nat
      BY <1>1
    <3>2. n - 1 \in ends
      BY <1>4, <1>5, <3>1
    <3> QED BY <1>16, <3>2
  <2>3. n - 1 \in Nat /\ n - 1 < N
    BY <1>1, <2>2
  <2>4. back = n - 1 /\ B(back) = log[N - (n - 1)]
    BY <1>3, <1>7, <2>1, <2>3
  <2>5. old = {}
    <3> SUFFICES ASSUME NEW i \in old PROVE FALSE
      OBVIOUS
    <3>1. i \in 1..N /\ i > N - n /\ i # N
      BY <1>14
    <3>2. N - i \in 1..n - 1 /\ N - i < N /\ N - (N - i) = i
      BY <1>1, <3>1
    <3> QED BY <1>15, <1>16, <3>2
  <2>6. Min(kept) = N - (n - 1)
    <3>1. N - (n - 1) \in 1..N /\ N - (n - 1) > N - n
      BY <1>1, <2>2
    <3>2. N - (n - 1) \in kept
      BY <1>8, <3>1
    <3>3. \A i \in kept : N - (n - 1) <= i
      BY <1>1, <1>8
    <3> QED BY <1>13, <3>2, <3>3, MinIs
  <2> QED BY <1>10, <2>1, <2>4, <2>5, <2>6 DEF B, first, back
<1>17. CASE ends # {} /\ ~(first < N)
  <2>1. first \in 1..n - 1 /\ \A j \in ends : first <= j
    BY <1>11, <1>12, <1>17
  <2>2. N \in 1..n - 1 /\ N \in Nat /\ ~(N < N)
    BY <1>1, <1>17, <2>1
  <2>3. N \in ends
    BY <1>4, <1>5, <2>2
  <2>4. first = N
    BY <1>1, <1>17, <2>1, <2>3
  <2>5. N - 1 \in Nat /\ N - 1 < N /\ N - (N - 1) = 1 /\ N - 1 \in 0..n - 1
    BY <1>1, <2>2
  <2>6. back = N - 1 /\ B(back) = log[1]
    BY <1>3, <1>4, <1>7, <2>2, <2>4, <2>5
  <2>7. old = {}
    <3> SUFFICES ASSUME NEW i \in old PROVE FALSE
      OBVIOUS
    <3>1. i \in 1..N /\ i > N - n /\ i # N
      BY <1>14
    <3>2. N - i \in 1..n - 1 /\ N - i < N /\ N - (N - i) = i /\ ~(N <= N - i)
      BY <1>1, <3>1
    <3>3. N - i \in ends
      BY <1>15, <3>2
    <3> QED BY <2>1, <2>4, <3>2, <3>3
  <2>8. Min(kept) = 1
    <3>1. 1 \in 1..N /\ 1 > N - n
      BY <1>1, <2>2
    <3>2. 1 \in kept
      BY <1>8, <3>1
    <3>3. \A i \in kept : 1 <= i
      BY <1>8
    <3> QED BY <1>13, <3>2, <3>3, MinIs
  <2>9. first \in 0..n - 1
    BY <2>2, <2>4
  <2> QED BY <1>10, <2>5, <2>6, <2>7, <2>8, <2>9 DEF B, first, back
<1>18. CASE ends # {} /\ first < N
  <2>1. first \in 1..n - 1 /\ first \in ends /\ (\A j \in ends : first <= j) /\ first \in Nat
    BY <1>11, <1>12, <1>18
  <2>2. back = first /\ B(back) = log[N - first]
    BY <1>3, <1>7, <1>18, <2>1
  <2>3. N - first \in old
    BY <1>15, <1>18, <2>1
  <2>4. \A i \in old : i <= N - first
    <3> SUFFICES ASSUME NEW i \in old PROVE i <= N - first
      OBVIOUS
    <3>1. i \in 1..N /\ i > N - n /\ i # N
      BY <1>14
    <3>2. N - i \in 1..n - 1 /\ N - i < N /\ N - (N - i) = i
      BY <1>1, <3>1
    <3>3. N - i \in ends
      BY <1>15, <3>2
    <3> QED BY <1>1, <2>1, <3>1, <3>3
  <2>5. Max(old) = N - first
    BY <1>1, <1>14, <2>3, <2>4, MaxIs
  <2>6. first \in 0..n - 1 /\ old # {}
    BY <2>1, <2>3
  <2> QED BY <1>10, <2>2, <2>5, <2>6 DEF B, first, back
<1> QED BY <1>16, <1>17, <1>18

LEMMA RateOfIs ==
    ASSUME NEW log, NEW delay, NEW n
    PROVE  RateOf(log, delay, n) = RateSince(log, delay, log[Since(log, delay, n)])
BY DEF RateOf, RateSince, Since, Old, Kept

LEMMA DeltaIsRate ==
    ASSUME NEW n \in Nat \ {0}, NEW table, HashOf(n, table), NEW k \in Names, Lonely(k),
           NEW log \in Log, log # <<>>, Logged(table.Items, n, k, log), Positive(log), NEW delay \in Int
    PROVE  HashGetDelta(table, k, delay) = RateOf(log, delay, n)
<1> DEFINE p == Lookup(table, k)
           item == table.Items[p]
           nSlot == Cardinality(DOMAIN item.Slot)
           At(i) == item.Slot[(item.index + i) % nSlot]
           slot1 == At(0)
           ends == {i \in 1..nSlot - 1 : At(i)[1] = 0 \/ At(i)[1] < slot1[1] - delay}
           first == IF ends = {} THEN nSlot - 1 ELSE CHOOSE i \in ends : \A j \in ends : i <= j
           slot2 == At(IF At(first)[1] = 0 THEN first - 1 ELSE first)
           dv == slot1[2] - slot2[2]
           dt == slot1[1] - slot2[1]
<1>1. HashGetDelta(table, k, delay) = IF p = 0 THEN <<0, 1>>
                                      ELSE IF delay = 0 THEN <<slot1[2], 1>>
                                      ELSE IF dt > 0 /\ dv >= 0 THEN <<dv, dt>> ELSE <<0, 1>>
  BY DEF HashGetDelta
<1>2. PICK i \in DOMAIN table.Items : table.Items[i].key = k /\ Holds(table.Items[i], n, log)
  BY DEF Logged
<1>3. p = i /\ i # 0
  <2>1. i # 0
    BY DEF HashOf
  <2> QED BY <1>2, <2>1, LonelyFound
<1>4. Holds(item, n, log) /\ item \in Item(n)
  BY <1>2, <1>3 DEF HashOf
<1>5. nSlot = n
  <2>1. DOMAIN item.Slot = 0..n - 1
    BY <1>4 DEF Item, Ring
  <2>2. Cardinality(0..n - 1) = n
    <3>1. Cardinality(0..n - 1) = IF 0 > n - 1 THEN 0 ELSE (n - 1) - 0 + 1
      BY FS_Interval
    <3> QED BY <3>1
  <2> QED BY <2>1, <2>2
<1>6. \A j \in 0..n - 1 : At(j) = Back(log, j)
  BY <1>4, <1>5 DEF Holds, Back
<1> HIDE DEF At, nSlot, item, p
<1>7. 0 \in 0..n - 1 /\ slot1 = log[Len(log)]
  <2>1. Len(log) \in Nat \ {0} /\ 0 < Len(log) /\ Len(log) - 0 = Len(log)
    <3>1. log \in Seq(Int \X Int)
      BY DEF Log
    <3> QED BY <3>1, EmptySeq
  <2>2. 0 \in 0..n - 1
    OBVIOUS
  <2> QED BY <1>6, <2>1, <2>2 DEF Back
<1> HIDE DEF slot1
<1>8. ends = EndsBack(log, delay, n)
  <2>1. \A j \in 1..n - 1 : j \in 0..n - 1
    OBVIOUS
  <2> QED BY <1>5, <1>6, <1>7, <2>1 DEF EndsBack
<1> HIDE DEF ends
<1>9. first = FirstBack(log, delay, n)
  BY <1>5, <1>8 DEF FirstBack
<1> HIDE DEF first
<1>10. slot2 = Back(log, SinceBack(log, delay, n))
  <2>1. FirstBack(log, delay, n) \in 0..n - 1 /\ SinceBack(log, delay, n) \in 0..n - 1
    BY SinceFound
  <2>2. At(first)[1] = Back(log, first)[1]
    BY <1>6, <1>9, <2>1
  <2>3. (IF At(first)[1] = 0 THEN first - 1 ELSE first) = SinceBack(log, delay, n)
    BY <1>9, <2>2 DEF SinceBack
  <2> QED BY <1>6, <2>1, <2>3
<1>11. slot2 = log[Since(log, delay, n)]
  BY <1>10, SinceFound
<1> HIDE DEF slot2
<1>12. HashGetDelta(table, k, delay) = RateSince(log, delay, log[Since(log, delay, n)])
  BY <1>1, <1>3, <1>7, <1>11 DEF RateSince
<1> QED BY <1>12, RateOfIs

-----------------------------------------------------------------------------
(* The system. *)

LEMMA SourceFields ==
    ASSUME NEW source \in Sources
    PROVE  /\ source.slots \in Nat \ {0} /\ source.interval \in 0..5000
           /\ source.low \in Nat \cup {-1000000} /\ source.byKey \in BOOLEAN
           /\ source.interval \in Int /\ source.interval >= 0 /\ source.interval <= 5000
<1>1. /\ source.slots \in Nat \ {0} /\ source.interval \in 0..5000
      /\ source.low \in Nat \cup {-1000000} /\ source.byKey \in BOOLEAN
  BY SourcesAssumption
<1>2. PICK i : i = source.interval
  OBVIOUS
<1>3. i \in 0..5000
  BY <1>1, <1>2
<1>4. i \in Int /\ i >= 0 /\ i <= 5000
  BY <1>3
<1> QED BY <1>1, <1>2, <1>4

LEMMA Known ==
    ASSUME SamplerInv
    PROVE  /\ plugin.slots \in Nat \ {0} /\ plugin.interval \in 0..5000 /\ plugin.byKey \in BOOLEAN
           /\ plugin.low \in Int /\ (plugin.low > -LongAgo => plugin.low >= 0)
           /\ time.passed \in Nat /\ time.back \in Nat /\ Clock = 10000 + time.passed - time.back
           /\ Clock \in Int /\ Clock > 0 /\ counter \in Int
           /\ \A k \in Names : puts[k] \in Log /\ readAt[k] \in Int /\ firstAsk[k] \in Int
<1>1. /\ plugin.slots \in Nat \ {0} /\ plugin.interval \in 0..5000
      /\ plugin.low \in Nat \cup {-1000000} /\ plugin.byKey \in BOOLEAN
  BY SourceFields DEF SamplerInv, SamplerTypes
<1>2. plugin.low \in Int /\ (plugin.low > -LongAgo => plugin.low >= 0)
  BY <1>1 DEF LongAgo
<1>3. time.passed \in Nat /\ time.back \in {0, plugin.interval + 2, 5000}
  BY DEF SamplerInv, SamplerTypes
<1>4. Clock = 10000 + time.passed - time.back /\ time.back \in Nat /\ Clock \in Int /\ Clock > 0
  <2>1. PICK p \in Nat, b \in Nat : p = time.passed /\ b = time.back /\ b <= 5002
    <3>1. PICK i \in 0..5000 : i = plugin.interval
      BY <1>1
    <3>2. i + 2 \in Nat /\ i + 2 <= 5002
      BY SMT
    <3>3. time.back = 0 \/ time.back = i + 2 \/ time.back = 5000
      BY <1>3, <3>1
    <3>4. time.back \in Nat /\ time.back <= 5002
      BY SMT, <3>2, <3>3
    <3> QED BY <1>3, <3>4
  <2>2. Clock = 10000 + p - b
    BY SMT, <2>1 DEF Clock
  <2>3. 10000 + p - b \in Int /\ 10000 + p - b > 0
    BY SMT, <2>1
  <2> QED BY <2>1, <2>2, <2>3, SMT
<1>5. counter \in Int /\ \A k \in Names : puts[k] \in Log /\ readAt[k] \in Int /\ firstAsk[k] \in Int
  BY DEF SamplerInv, SamplerTypes
<1> QED BY <1>1, <1>2, <1>3, <1>4, <1>5

LEMMA LastPutIs ==
    ASSUME NEW log \in Log, log # <<>>
    PROVE  Len(log) \in Nat \ {0} /\ Len(log) \in DOMAIN log /\ log[Len(log)] \in Int \X Int /\ log[Len(log)][1] \in Int
<1>1. log \in Seq(Int \X Int)
  BY DEF Log
<1>2. Len(log) \in Nat \ {0} /\ DOMAIN log = 1..Len(log) /\ Len(log) \in 1..Len(log)
  BY <1>1, EmptySeq
<1>3. log[Len(log)] \in Int \X Int
  BY <1>1, <1>2
<1> QED BY <1>2, <1>3

\* The age that decides is that of what was put last under the key.
LEMMA AgeKnown ==
    ASSUME SamplerInv, NEW k \in Names, Lonely(k), puts[k] # <<>>
    PROVE  /\ HashAge(hash, IF plugin.byKey THEN k ELSE <<>>, Clock) = Clock - LastPut(k)
           /\ LastPut(k) \in Int
<1> DEFINE n == plugin.slots
           log == puts[k]
<1>1. n \in Nat \ {0} /\ log \in Log /\ HashOf(n, hash) /\ Logged(hash.Items, n, k, log) /\ plugin.byKey \in BOOLEAN
  BY Known DEF SamplerInv, RingsHold
<1>2. Len(log) \in Nat \ {0} /\ LastPut(k) = log[Len(log)][1] /\ LastPut(k) \in Int
  BY <1>1, LastPutIs DEF LastPut
<1>3. CASE plugin.byKey
  <2>1. PICK i \in DOMAIN hash.Items : hash.Items[i].key = k /\ Holds(hash.Items[i], n, log)
    BY <1>1 DEF Logged
  <2>2. Lookup(hash, k) = i /\ i # 0 /\ hash.Items[i] \in Item(n)
    <3>1. i # 0 /\ hash.Items[i] \in Item(n)
      BY <1>1 DEF HashOf
    <3> QED BY <1>1, <2>1, <3>1, LonelyFound
  <2>3. PICK item \in Item(n) : item = hash.Items[i]
    BY <2>2
  <2>4. item.index \in 0..n - 1 /\ 0 \in 0..n - 1 /\ (item.index + 0) % n = item.index
    <3>1. item.index \in 0..n - 1 /\ 0 \in 0..n - 1
      BY <1>1 DEF Item
    <3>2. PICK a \in 0..n - 1 : a = item.index
      BY <3>1
    <3>3. a + 0 = a /\ a % n = a
      BY <1>1
    <3> QED BY <3>1, <3>2, <3>3
  <2>5. Current(item) = log[Len(log)]
    <3>1. 0 < Len(log) /\ Len(log) - 0 = Len(log)
      BY <1>2
    <3> QED BY <2>1, <2>3, <2>4, <3>1 DEF Holds, Current
  <2>6. k # <<>>
    BY DEF Lonely
  <2>7. HashAge(hash, k, Clock) = Clock - log[Len(log)][1]
    BY <2>2, <2>3, <2>5, <2>6 DEF HashAge
  <2> QED BY <1>2, <1>3, <2>7
<1>4. CASE ~plugin.byKey
  <2>1. hash.timestamp = LastPut(k)
    BY <1>4 DEF SamplerInv, ReadTogether
  <2>2. HashAge(hash, <<>>, Clock) = Clock - hash.timestamp
    BY DEF HashAge
  <2> QED BY <1>2, <1>4, <2>1, <2>2
<1> QED BY <1>1, <1>3, <1>4

LEMMA InitInv ==
    ASSUME SamplerInit
    PROVE  SamplerInv
<1>1. /\ plugin \in Sources /\ time = [passed |-> 0, back |-> 0] /\ counter = 1 /\ names = Names \ Late
      /\ hash = EmptyHash /\ puts = [k \in Names |-> <<>>] /\ readAt = [k \in Names |-> -LongAgo]
      /\ told = [key |-> <<>>, age |-> 0, since |-> 0, old |-> FALSE] /\ firstAsk = [k \in Names |-> NotYet]
  BY DEF SamplerInit
<1>2. plugin.interval \in Int /\ plugin.interval >= 0
  <2>1. plugin \in Sources
    BY <1>1
  <2> QED BY <2>1, SourceFields
<1>3. -LongAgo \in Int /\ NotYet \in Int
  <2>1. LongAgo \in Int
    BY SMT DEF LongAgo
  <2> QED BY <2>1 DEF NotYet
<1>4. SamplerTypes
  <2>1. time \in [passed : Nat, back : {0, plugin.interval + 2, 5000}]
    BY <1>1, SMT
  <2>2. puts \in [Names -> Log]
    BY <1>1, SMT DEF Log
  <2>3. readAt \in [Names -> Int] /\ firstAsk \in [Names -> Int]
    BY <1>1, <1>3
  <2>4. plugin \in Sources /\ names \subseteq Names /\ counter \in Int /\ told.key \in Names \cup {<<>>}
    BY <1>1
  <2> QED BY <2>1, <2>2, <2>3, <2>4 DEF SamplerTypes
<1>5. RingsHold
  <2>1. hash = [sorted |-> FALSE, timestamp |-> 0, Items |-> <<>>]
    BY <1>1 DEF EmptyHash
  <2>2. HashOf(plugin.slots, hash)
    BY <2>1 DEF HashOf, Distinct
  <2>3. \A k \in Names : Logged(hash.Items, plugin.slots, k, puts[k])
    BY <1>1, <2>1 DEF Logged
  <2> QED BY <2>2, <2>3 DEF RingsHold
<1>6. PutLater
  BY <1>1 DEF PutLater
<1>7. ReadTogether
  BY <1>1 DEF ReadTogether
<1>8. TimesKnown
  BY <1>1 DEF TimesKnown, SinceSet
<1>9. StaleOnceOnly
  <2>1. told.since = 0
    BY <1>1
  <2> QED BY <1>2, <2>1 DEF StaleOnceOnly
<1> QED BY <1>4, <1>5, <1>6, <1>7, <1>8, <1>9 DEF SamplerInv

LEMMA PauseInv ==
    ASSUME SamplerInv, NEW msec \in Nat, NEW value \in Int, Pause(msec, value)
    PROVE  SamplerInv'
<1>1. UNCHANGED <<plugin, hash, puts, readAt, told, firstAsk>> /\ counter' = value /\ names' \in {names, Names}
      /\ time' = [time EXCEPT !.passed = @ + msec]
  BY DEF Pause
<1>2. time \in [passed : Nat, back : {0, plugin.interval + 2, 5000}] /\ names \subseteq Names
  BY DEF SamplerInv, SamplerTypes
<1>3. time'.passed = time.passed + msec /\ time'.back = time.back
      /\ time' \in [passed : Nat, back : {0, plugin.interval + 2, 5000}]
  BY <1>1, <1>2
<1>4. names \subseteq names' /\ names' \subseteq Names
  BY <1>1, <1>2
<1>5. SamplerTypes'
  BY <1>1, <1>3, <1>4 DEF SamplerInv, SamplerTypes
<1>6. RingsHold'
  BY <1>1 DEF SamplerInv, RingsHold
<1>7. PutLater'
  BY <1>1 DEF SamplerInv, PutLater
<1>8. ReadTogether'
  BY <1>1, <1>4 DEF SamplerInv, ReadTogether, LastPut
<1>9. TimesKnown'
  <2> SUFFICES ASSUME NEW k \in Names, Lonely(k) PROVE SinceSet(k)'
    BY DEF TimesKnown
  <2>1. SinceSet(k)
    BY DEF SamplerInv, TimesKnown
  <2>2. 0..time.passed \subseteq 0..time'.passed
    BY <1>2, <1>3
  <2> QED BY <1>1, <1>3, <2>1, <2>2 DEF SinceSet, LastPut
<1>10. StaleOnceOnly'
  BY <1>1 DEF SamplerInv, StaleOnceOnly
<1> QED BY <1>5, <1>6, <1>7, <1>8, <1>9, <1>10 DEF SamplerInv

LEMMA ClockSetBackInv ==
    ASSUME SamplerInv, NEW msec \in {plugin.interval + 2, 5000}, ClockSetBack(msec)
    PROVE  SamplerInv'
<1>1. UNCHANGED <<plugin, counter, names, hash, puts, readAt, told>> /\ firstAsk' = [k \in Names |-> NotYet]
      /\ time' = [time EXCEPT !.back = msec] /\ time.back = 0
  BY DEF ClockSetBack
<1>2. time \in [passed : Nat, back : {0, plugin.interval + 2, 5000}]
  BY DEF SamplerInv, SamplerTypes
<1>3. time'.passed = time.passed /\ time' \in [passed : Nat, back : {0, plugin.interval + 2, 5000}]
  BY <1>1, <1>2
<1>4. SamplerTypes'
  BY <1>1, <1>3 DEF SamplerInv, SamplerTypes, NotYet
<1>5. RingsHold'
  BY <1>1 DEF SamplerInv, RingsHold
<1>6. PutLater'
  BY <1>1 DEF SamplerInv, PutLater
<1>7. ReadTogether'
  BY <1>1 DEF SamplerInv, ReadTogether, LastPut
<1>8. TimesKnown'
  <2> SUFFICES ASSUME NEW k \in Names, Lonely(k) PROVE SinceSet(k)'
    BY DEF TimesKnown
  <2>1. SinceSet(k) /\ readAt[k] \in Int
    BY Known DEF SamplerInv, TimesKnown
  <2>2. firstAsk'[k] = NotYet
    BY <1>1
  <2>3. 10000 + readAt[k] - time.back = 10000 + readAt[k]
    BY <1>1, <2>1
  <2> QED BY <1>1, <1>3, <2>1, <2>2, <2>3 DEF SinceSet, LastPut
<1>9. StaleOnceOnly'
  BY <1>1 DEF SamplerInv, StaleOnceOnly
<1> QED BY <1>4, <1>5, <1>6, <1>7, <1>8, <1>9 DEF SamplerInv

LEMMA StutterInv ==
    ASSUME SamplerInv, UNCHANGED <<plugin, time, counter, names, hash, puts, readAt, told, firstAsk>>
    PROVE  SamplerInv'
BY DEF SamplerInv, SamplerTypes, RingsHold, PutLater, ReadTogether, LastPut, TimesKnown, SinceSet, StaleOnceOnly

LEMMA TellTells ==
    ASSUME SamplerInv, NEW k \in Names, NEW old \in BOOLEAN, Tell(k, old), UNCHANGED time
    PROVE  /\ firstAsk' \in [Names -> Int]
           /\ \A key \in Names : key # k => firstAsk'[key] = firstAsk[key]
           /\ firstAsk'[k] = IF old \/ firstAsk[k] # NotYet THEN firstAsk[k] ELSE time.passed
           /\ told'.key = k /\ told'.old = old /\ told'.since = time.passed - firstAsk'[k]
           /\ told'.age = IF readAt'[k] = -LongAgo THEN 0 ELSE time.passed - readAt'[k]
<1>1. /\ firstAsk' = [firstAsk EXCEPT ![k] = IF old \/ @ # NotYet THEN @ ELSE time.passed]
      /\ told' = [key |-> k, age |-> IF readAt'[k] = -LongAgo THEN 0 ELSE time.passed - readAt'[k],
                  since |-> time.passed - firstAsk'[k], old |-> old]
  BY DEF Tell
<1>2. firstAsk \in [Names -> Int] /\ time.passed \in Int
  BY Known DEF SamplerInv, SamplerTypes
<1>3. PICK f \in Int : f = IF old \/ firstAsk[k] # NotYet THEN firstAsk[k] ELSE time.passed
  BY <1>2
<1>4. firstAsk' = [firstAsk EXCEPT ![k] = f]
  BY <1>1, <1>3
<1>5. /\ firstAsk' \in [Names -> Int] /\ firstAsk'[k] = f
      /\ \A key \in Names : key # k => firstAsk'[key] = firstAsk[key]
  BY <1>2, <1>4
<1>6. /\ told'.key = k /\ told'.old = old /\ told'.since = time.passed - firstAsk'[k]
      /\ told'.age = IF readAt'[k] = -LongAgo THEN 0 ELSE time.passed - readAt'[k]
  BY <1>1
<1> QED BY <1>3, <1>5, <1>6

\* Looking for a key sorts the table, which changes nothing that a widget could see.
LEMMA SortInv ==
    ASSUME SamplerInv, hash' = SortedHash(hash), UNCHANGED <<plugin, names, puts>>
    PROVE  RingsHold' /\ PutLater' /\ ReadTogether'
<1>1. plugin.slots \in Nat \ {0} /\ HashOf(plugin.slots, hash)
  BY Known DEF SamplerInv, RingsHold
<1>2. HashOf(plugin.slots, hash') /\ hash'.timestamp = hash.timestamp
  BY <1>1, SortedHashSorts
<1>3. \A k \in Names : Lonely(k) => Logged(hash'.Items, plugin.slots, k, puts[k])
  <2> SUFFICES ASSUME NEW k \in Names, Lonely(k) PROVE Logged(hash'.Items, plugin.slots, k, puts[k])
    OBVIOUS
  <2>1. Logged(hash.Items, plugin.slots, k, puts[k])
    BY DEF SamplerInv, RingsHold
  <2> QED BY <1>1, <2>1, SortedHashLogs
<1>4. RingsHold'
  BY <1>2, <1>3 DEF RingsHold
<1>5. PutLater'
  BY DEF SamplerInv, PutLater
<1>6. ReadTogether'
  BY <1>2 DEF SamplerInv, ReadTogether, LastPut
<1> QED BY <1>4, <1>5, <1>6

\* Where the value counts as young it is, unless it is from before the clock was set back, and
\* then the time since it was told first has made it old.
LEMMA YoungInv ==
    ASSUME SamplerInv, NEW k \in Names, Young(k), Tell(k, FALSE), hash' = SortedHash(hash),
           UNCHANGED <<plugin, time, counter, names, puts, readAt>>
    PROVE  SamplerInv'
<1>1. RingsHold' /\ PutLater' /\ ReadTogether'
  BY SortInv
<1>2. /\ firstAsk' \in [Names -> Int]
      /\ \A key \in Names : key # k => firstAsk'[key] = firstAsk[key]
      /\ firstAsk'[k] = IF firstAsk[k] # NotYet THEN firstAsk[k] ELSE time.passed
      /\ told'.key = k /\ told'.old = FALSE /\ told'.since = time.passed - firstAsk'[k]
      /\ told'.age = IF readAt[k] = -LongAgo THEN 0 ELSE time.passed - readAt[k]
  BY TellTells
<1>3. SamplerTypes'
  BY <1>2 DEF SamplerInv, SamplerTypes
<1>4. PICK low \in Int, interval \in Int, passed \in Nat, back \in Nat :
          /\ low = plugin.low /\ interval = plugin.interval /\ passed = time.passed /\ back = time.back
          /\ interval >= 0 /\ (plugin.low > -LongAgo => low >= 0)
          /\ Clock = 10000 + passed - back
  <2>1. plugin.interval \in Int /\ plugin.interval >= 0
    BY SourceFields DEF SamplerInv, SamplerTypes
  <2> QED BY <2>1, Known, SMT
<1>5. ASSUME puts[k] # <<>>, Lonely(k)
      PROVE  /\ LastPut(k) \in Int
             /\ low <= 10000 + passed - back - LastPut(k) /\ 10000 + passed - back - LastPut(k) <= interval
  <2>1. LastPut(k) \in Int /\ HashAge(hash, IF plugin.byKey THEN k ELSE <<>>, Clock) = Clock - LastPut(k)
    BY <1>5, AgeKnown
  <2>2. low <= Clock - LastPut(k) /\ Clock - LastPut(k) <= interval
    BY <1>4, <2>1, SMT DEF Young
  <2> QED BY <1>4, <2>1, <2>2, SMT
<1>6. ASSUME Lonely(k) PROVE SinceSet(k)
  BY <1>6 DEF SamplerInv, TimesKnown
<1>7. PICK first \in Int : first = firstAsk[k]
  BY Known
<1>8. PICK read \in Int : read = readAt[k]
  BY Known
<1>9. TimesKnown'
  <2> SUFFICES ASSUME NEW key \in Names, Lonely(key) PROVE SinceSet(key)'
    BY DEF TimesKnown
  <2>1. SinceSet(key)
    BY DEF SamplerInv, TimesKnown
  <2>2. CASE key # k
    BY <1>2, <2>1, <2>2 DEF SinceSet, LastPut
  <2>3. CASE key = k /\ first # NotYet
    BY <1>2, <1>7, <2>1, <2>3 DEF SinceSet, LastPut
  <2>4. CASE key = k /\ first = NotYet
    <3>1. firstAsk'[k] = passed /\ passed \in 0..passed
      BY <1>2, <1>4, <1>7, <2>4
    <3>2. CASE puts[k] = <<>> /\ readAt[k] = -LongAgo
      BY <1>4, <2>4, <3>1, <3>2 DEF SinceSet
    <3>3. CASE puts[k] # <<>> /\ readAt[k] \in 0..time.passed
      <4>1. LastPut(k) \in Int /\ low <= 10000 + passed - back - LastPut(k)
        BY <1>5, <2>4, <3>3
      <4>2. 10000 + passed - back >= LastPut(k) + low
        BY <4>1, SMT
      <4>3. LastPut(k) = 10000 + readAt[k] - time.back \/ LastPut(k) = 10000 + readAt[k]
        BY <2>1, <2>4, <3>3 DEF SinceSet
      <4>4. LastPut(k)' = LastPut(k)
        BY DEF LastPut
      <4> HIDE DEF LastPut
      <4>5. /\ firstAsk'[k] \in 0..time'.passed
            /\ puts'[k] # <<>> /\ readAt'[k] \in 0..time'.passed
            /\ LastPut(k)' = 10000 + readAt'[k] - time'.back \/ LastPut(k)' = 10000 + readAt'[k]
            /\ 10000 + firstAsk'[k] - time'.back >= LastPut(k)' + plugin'.low
        BY <1>4, <3>1, <3>3, <4>2, <4>3, <4>4
      <4> QED BY <2>4, <4>5 DEF SinceSet
    <3> QED BY <2>1, <2>4, <3>2, <3>3 DEF SinceSet
  <2> QED BY <1>7, <2>2, <2>3, <2>4
<1>10. StaleOnceOnly'
  <2> SUFFICES ASSUME plugin.low > -LongAgo, Lonely(k), told'.since > interval
               PROVE  told'.age <= interval
    BY <1>2, <1>4 DEF StaleOnceOnly
  <2>1. SinceSet(k)
    BY <1>6
  <2>2. CASE read = -LongAgo
    BY <1>2, <1>4, <1>8, <2>2
  <2>3. CASE read # -LongAgo
    <3>1. puts[k] # <<>> /\ told'.age = passed - read
      BY <1>2, <1>4, <1>8, <2>1, <2>3 DEF SinceSet
    <3>2. first # NotYet /\ told'.since = passed - first
      <4>1. CASE first = NotYet
        <5>1. told'.since = passed - passed
          BY <1>2, <1>4, <1>7, <4>1
        <5> QED BY <1>4, <5>1
      <4>2. CASE first # NotYet
        BY <1>2, <1>4, <1>7, <4>2
      <4> QED BY <4>1, <4>2
    <3>3. PICK last \in Int : /\ last = LastPut(k)
                              /\ 10000 + passed - back - last <= interval
      BY <1>5, <3>1
    <3>4. \/ last = 10000 + read - back
          \/ last = 10000 + read /\ 10000 + first - back >= last + low
      BY <1>4, <1>7, <1>8, <2>1, <3>1, <3>2, <3>3 DEF SinceSet
    <3>5. low >= 0 /\ passed - first > interval
      BY <1>4, <3>2
    <3>6. passed - read <= interval
      BY <3>3, <3>4, <3>5, SMT
    <3> QED BY <3>1, <3>6
  <2> QED BY <2>2, <2>3
<1> QED BY <1>1, <1>3, <1>9, <1>10 DEF SamplerInv

\* Nothing new can be read: the widget is told the old value and knows.
LEMMA OldInv ==
    ASSUME SamplerInv, NEW k \in Names, Tell(k, TRUE), hash' = SortedHash(hash),
           UNCHANGED <<plugin, time, counter, names, puts, readAt>>
    PROVE  SamplerInv'
<1>1. RingsHold' /\ PutLater' /\ ReadTogether'
  BY SortInv
<1>2. /\ firstAsk' \in [Names -> Int]
      /\ \A key \in Names : firstAsk'[key] = firstAsk[key]
      /\ told'.key = k /\ told'.old = TRUE
  BY TellTells
<1>3. SamplerTypes'
  BY <1>2 DEF SamplerInv, SamplerTypes
<1>4. TimesKnown'
  BY <1>2 DEF SamplerInv, TimesKnown, SinceSet, LastPut
<1>5. StaleOnceOnly'
  BY <1>2 DEF StaleOnceOnly
<1> QED BY <1>1, <1>3, <1>4, <1>5 DEF SamplerInv

\* What is read is there from now on.
LEMMA ReadInv ==
    ASSUME SamplerInv, NEW k \in names, Read(k), Tell(k, FALSE), UNCHANGED <<plugin, time, counter, names>>
    PROVE  SamplerInv'
<1> DEFINE n == plugin.slots
           entry == <<Clock, counter>>
<1>1. names \subseteq Names /\ k \in Names
  BY DEF SamplerInv, SamplerTypes
<1>2. PICK keys \in SUBSET names : keys = IF plugin.byKey THEN {k} ELSE names
  OBVIOUS
<1>3. keys \in SUBSET Names /\ k \in keys /\ keys # {} /\ (~plugin.byKey => keys = names)
  BY <1>1, <1>2
<1>4. /\ \E all \in InOrder(keys) : hash' = SortedHash(HashWith(all))
      /\ puts' = [key \in Names |-> IF key \in keys THEN Append(puts[key], entry) ELSE puts[key]]
      /\ readAt' = [key \in Names |-> IF key \in keys THEN time.passed ELSE readAt[key]]
  BY <1>2 DEF Read
<1>5. PICK all \in InOrder(keys) : hash' = SortedHash(HashWith(all))
  BY <1>4
<1>6. n \in Nat \ {0} /\ counter \in Int /\ Clock \in Int /\ Clock > 0 /\ HashOf(n, hash) /\ entry \in Int \X Int
  BY Known DEF SamplerInv, RingsHold
<1>7. /\ HashOf(n, hash') /\ hash'.timestamp = Clock
      /\ \A key \in Names, log \in Log : Lonely(key) /\ Logged(hash.Items, n, key, log) =>
            Logged(hash'.Items, n, key, LogAfter(log, key \in keys, Clock, counter))
  BY <1>3, <1>5, <1>6, HashWithPuts
<1>8. \A key \in Names : puts[key] \in Log /\ puts'[key] = LogAfter(puts[key], key \in keys, Clock, counter)
  BY <1>4, Known DEF LogAfter
<1>9. ASSUME NEW key \in keys
      PROVE  /\ puts'[key] \in Log /\ puts'[key] # <<>> /\ Len(puts'[key]) = Len(puts[key]) + 1
             /\ LastPut(key)' = Clock
             /\ \A i \in DOMAIN puts'[key] : (i \in DOMAIN puts[key] /\ puts'[key][i] = puts[key][i]) \/ puts'[key][i] = entry
  <2>1. puts[key] \in Log /\ puts'[key] = Append(puts[key], entry)
    BY <1>3, <1>4, <1>8
  <2>2. PICK log \in Seq(Int \X Int) : log = puts[key]
    BY <2>1 DEF Log
  <2>3. PICK more : more = puts'[key]
    OBVIOUS
  <2>4. /\ more \in Seq(Int \X Int) /\ Len(more) = Len(log) + 1 /\ more[Len(log) + 1] = entry
        /\ \A i \in 1..Len(log) : more[i] = log[i]
    <3> HIDE DEF entry
    <3> QED BY <1>6, <2>1, <2>2, <2>3, AppendProperties
  <2>5. Len(log) \in Nat /\ DOMAIN more = 1..Len(log) + 1 /\ DOMAIN log = 1..Len(log)
        /\ \A i \in 1..Len(log) + 1 : i \in 1..Len(log) \/ i = Len(log) + 1
    BY <2>4
  <2>6. more # <<>>
    BY <2>4, <2>5
  <2>7. more[Len(more)][1] = Clock
    BY <2>4
  <2>8. LastPut(key)' = Clock
    BY <2>3, <2>7 DEF LastPut
  <2>9. \A i \in DOMAIN more : (i \in DOMAIN log /\ more[i] = log[i]) \/ more[i] = entry
    <3> HIDE DEF entry
    <3> QED BY <2>4, <2>5
  <2> HIDE DEF entry
  <2> QED BY <2>2, <2>3, <2>4, <2>6, <2>8, <2>9 DEF Log
<1>10. \A key \in Names : key \notin keys => puts'[key] = puts[key] /\ readAt'[key] = readAt[key]
  BY <1>4
<1>11. \A key \in keys : readAt'[key] = time.passed
  BY <1>3, <1>4
<1>12. /\ firstAsk' \in [Names -> Int]
       /\ \A key \in Names : key # k => firstAsk'[key] = firstAsk[key]
       /\ firstAsk'[k] = IF firstAsk[k] # NotYet THEN firstAsk[k] ELSE time.passed
       /\ told'.key = k
       /\ told'.age = IF readAt'[k] = -LongAgo THEN 0 ELSE time.passed - readAt'[k]
  BY <1>1, TellTells
<1>13. SamplerTypes'
  <2>1. puts' \in [Names -> Log]
    <3>1. \A key \in Names : puts'[key] \in Log
      BY <1>8, <1>9, <1>10
    <3>2. puts' = [key \in Names |-> puts'[key]]
      BY <1>4
    <3> HIDE DEF entry
    <3> QED BY <3>1, <3>2
  <2>2. readAt' \in [Names -> Int]
    BY <1>4, Known
  <2> QED BY <1>1, <1>12, <2>1, <2>2 DEF SamplerInv, SamplerTypes
<1>14. RingsHold'
  <2>1. \A key \in Names : Lonely(key) => Logged(hash'.Items, n, key, puts'[key])
    <3> SUFFICES ASSUME NEW key \in Names, Lonely(key) PROVE Logged(hash'.Items, n, key, puts'[key])
      OBVIOUS
    <3>1. Logged(hash.Items, n, key, puts[key])
      BY DEF SamplerInv, RingsHold
    <3> QED BY <1>7, <1>8, <3>1
  <2> QED BY <1>7, <2>1 DEF RingsHold
<1>15. PutLater'
  <2> SUFFICES ASSUME NEW key \in Names, NEW i \in DOMAIN puts'[key] PROVE puts'[key][i][1] > 0
    BY DEF PutLater
  <2>1. \A j \in DOMAIN puts[key] : puts[key][j][1] > 0
    BY DEF SamplerInv, PutLater
  <2>2. CASE key \in keys
    <3>1. (i \in DOMAIN puts[key] /\ puts'[key][i] = puts[key][i]) \/ puts'[key][i] = entry
      BY <1>9, <2>2
    <3>2. entry[1] = Clock
      OBVIOUS
    <3> HIDE DEF entry
    <3> QED BY <1>6, <2>1, <3>1, <3>2
  <2>3. CASE key \notin keys
    BY <1>10, <2>1, <2>3
  <2> QED BY <2>2, <2>3
<1>16. ReadTogether'
  <2> SUFFICES ASSUME NEW key \in Names, puts'[key] # <<>>
               PROVE  key \in names' /\ (~plugin'.byKey => hash'.timestamp = LastPut(key)')
    BY DEF ReadTogether
  <2>1. CASE key \in keys
    BY <1>7, <1>9, <2>1
  <2>2. CASE key \notin keys
    <3>1. puts[key] # <<>>
      BY <1>10, <2>2
    <3>2. key \in names
      BY <3>1 DEF SamplerInv, ReadTogether
    <3> QED BY <1>3, <2>2, <3>2
  <2> QED BY <2>1, <2>2
<1>17. time.passed \in Nat /\ time.back \in Nat /\ Clock = 10000 + time.passed - time.back
  BY Known
<1>18. TimesKnown'
  <2> SUFFICES ASSUME NEW key \in Names, Lonely(key) PROVE SinceSet(key)'
    BY DEF TimesKnown
  <2>1. SinceSet(key)
    BY DEF SamplerInv, TimesKnown
  <2>2. CASE key \in keys
    <3>1. firstAsk'[key] = NotYet \/ firstAsk'[key] \in 0..time.passed
      <4>1. time.passed \in 0..time.passed
        BY <1>17
      <4> QED BY <1>12, <2>1, <4>1 DEF SinceSet
    <3>2. puts'[key] # <<>> /\ readAt'[key] = time.passed /\ LastPut(key)' = Clock
      BY <1>9, <1>11, <2>2
    <3>3. readAt'[key] \in 0..time.passed /\ LastPut(key)' = 10000 + readAt'[key] - time.back
      BY <1>17, <3>2
    <3> HIDE DEF LastPut
    <3> QED BY <3>1, <3>2, <3>3 DEF SinceSet
  <2>3. CASE key \notin keys
    <3>1. firstAsk'[key] = firstAsk[key] /\ puts'[key] = puts[key] /\ readAt'[key] = readAt[key]
      BY <1>3, <1>10, <1>12, <2>3
    <3> QED BY <2>1, <3>1 DEF SinceSet, LastPut
  <2> QED BY <2>2, <2>3
<1>19. StaleOnceOnly'
  <2>1. told'.age = 0
    <3>1. readAt'[k] = time.passed /\ time.passed - time.passed = 0
      BY <1>3, <1>11, <1>17
    <3> QED BY <1>12, <3>1
  <2>2. plugin.interval \in Int /\ plugin.interval >= 0
    BY SourceFields DEF SamplerInv, SamplerTypes
  <2> QED BY <2>1, <2>2 DEF StaleOnceOnly
<1> QED BY <1>13, <1>14, <1>15, <1>16, <1>18, <1>19 DEF SamplerInv

LEMMA AskInv ==
    ASSUME SamplerInv, NEW k \in names, Ask(k)
    PROVE  SamplerInv'
<1>1. UNCHANGED <<plugin, time, counter, names>>
  BY DEF Ask
<1>2. k \in Names
  BY DEF SamplerInv, SamplerTypes
<1>3. CASE Young(k)
  <2>1. hash' = SortedHash(hash) /\ UNCHANGED <<puts, readAt>> /\ Tell(k, FALSE)
    BY <1>3 DEF Ask
  <2> QED BY <1>1, <1>2, <1>3, <2>1, YoungInv
<1>4. CASE ~Young(k) /\ Openable
  <2>1. Read(k) /\ Tell(k, FALSE)
    BY <1>4 DEF Ask
  <2> QED BY <1>1, <2>1, ReadInv
<1>5. CASE ~Young(k) /\ ~Openable
  <2>1. /\ UNCHANGED <<puts, readAt>>
        /\ \/ hash' = SortedHash(hash) /\ Tell(k, TRUE)
           \/ UNCHANGED <<hash, told, firstAsk>>
    BY <1>5 DEF Ask
  <2>2. CASE hash' = SortedHash(hash) /\ Tell(k, TRUE)
    BY <1>1, <1>2, <2>1, <2>2, OldInv
  <2>3. CASE UNCHANGED <<hash, told, firstAsk>>
    BY <1>1, <2>1, <2>3, StutterInv
  <2> QED BY <2>1, <2>2, <2>3
<1> QED BY <1>3, <1>4, <1>5

-----------------------------------------------------------------------------
(* The theorems. *)

\* The invariant above: the ring of a key holds the last values that were put under it, whatever
\* the array is sorted to when, and every value carries the clock of its time.
THEOREM SamplerInductive == SamplerSpec => []SamplerInv
<1>1. SamplerInit => SamplerInv
  BY InitInv
<1>2. SamplerInv /\ [SamplerNext]_samplerVars => SamplerInv'
  <2> SUFFICES ASSUME SamplerInv, [SamplerNext]_samplerVars PROVE SamplerInv'
    OBVIOUS
  <2>1. ASSUME NEW k \in names, Ask(k) PROVE SamplerInv'
    BY <2>1, AskInv
  <2>2. ASSUME NEW msec \in {plugin.interval \div 2, plugin.interval + 1},
               NEW value \in {counter + 1} \cup (IF counter = 2 THEN {0} ELSE {}), Pause(msec, value)
        PROVE  SamplerInv'
    <3>1. counter \in Int /\ value \in Int
      BY Known, SMT
    <3>2. PICK interval \in Int : interval = plugin.interval /\ interval >= 0
      BY SourceFields DEF SamplerInv, SamplerTypes
    <3>3. interval \div 2 \in Nat /\ interval + 1 \in Nat
      BY <3>2
    <3>4. msec \in Nat
      BY <3>2, <3>3
    <3> QED BY <2>2, <3>1, <3>4, PauseInv
  <2>3. ASSUME NEW msec \in {plugin.interval + 2, 5000}, ClockSetBack(msec) PROVE SamplerInv'
    BY <2>3, ClockSetBackInv
  <2>4. CASE Break
    BY <2>4, StutterInv DEF Break
  <2>5. CASE UNCHANGED samplerVars
    BY <2>5, StutterInv DEF samplerVars
  <2> QED BY <2>1, <2>2, <2>3, <2>4, <2>5 DEF SamplerNext
<1> QED BY <1>1, <1>2, PTL DEF SamplerSpec

\* hash.c and the plugins: what hash_get_delta returns, from a ring of any length in an array that
\* is sorted only now and then, is the rate of what was put, and a widget is told nothing for
\* longer than an interval that is older than that.
THEOREM RatesTold == SamplerSpec => []RatesHonest
<1>1. SamplerInv => RatesHonest
  <2> SUFFICES ASSUME SamplerInv PROVE RatesHonest
    OBVIOUS
  <2>1. RatesRight
    <3> SUFFICES ASSUME NEW k \in Names, NEW delay \in {0, plugin.interval, 2 * plugin.interval},
                        puts[k] # <<>>, Lonely(k)
                 PROVE  HashGetDelta(hash, k, delay) = RateOf(puts[k], delay, plugin.slots)
      BY DEF RatesRight
    <3>1. PICK interval \in Int : interval = plugin.interval
      BY SourceFields DEF SamplerInv, SamplerTypes
    <3>2. 2 * interval \in Int
      BY <3>1
    <3>3. delay \in Int
      BY <3>1, <3>2
    <3>4. plugin.slots \in Nat \ {0} /\ puts[k] \in Log /\ HashOf(plugin.slots, hash)
          /\ Logged(hash.Items, plugin.slots, k, puts[k])
      BY Known DEF SamplerInv, RingsHold
    <3>5. Positive(puts[k])
      BY DEF SamplerInv, PutLater, Positive
    <3> QED BY <3>3, <3>4, <3>5, DeltaIsRate
  <2> QED BY <2>1 DEF SamplerInv, RatesHonest
<1> QED BY <1>1, SamplerInductive, PTL
=============================================================================
