----------------------------- MODULE Timer_proofs -----------------------------
(***************************************************************************)
(* The safety properties of the timer queue, proved for every number of    *)
(* slots, every set of intervals, and every way of setting the clock; that *)
(* integers of a width do no harm where they suffice, for every width; and *)
(* that the timer groups use the queue as its specification allows, and    *)
(* keep their tables in order.                                             *)
(***************************************************************************)
EXTENDS TimerGroup, TimerWidth, SequenceTheorems, FiniteSetTheorems, WellFoundedInduction, TLAPS

-----------------------------------------------------------------------------
(* Slot tables: the loops find a first slot, and adding an entry changes one free slot or *)
(* lengthens the table by one.                                                            *)

\* A non-empty set of slot numbers has a first one, which no other precedes.
LEMMA FirstSlotIsLeast ==
    ASSUME NEW S \in SUBSET Nat, S # {}
    PROVE  FirstSlot(S) \in S /\ \A j \in S : FirstSlot(S) <= j
<1> DEFINE UpTo(i) == {j \in S : j <= i}
           T == {UpTo(i) : i \in S}
<1>1. T \subseteq FiniteSubsetsOf(S) /\ T # {}
  <2>1. ASSUME NEW i \in S PROVE IsFiniteSet(UpTo(i))
    <3>1. UpTo(i) \in SUBSET Nat /\ i \in Nat /\ \A s \in UpTo(i) : s <= i
      OBVIOUS
    <3> QED BY <3>1, FS_BoundedSetOfNaturals
  <2> QED BY <2>1 DEF FiniteSubsetsOf
<1>2. PICK x \in T : \A y \in T : ~ (<<y, x>> \in StrictSubsetOrdering(S))
  <2>1. IsWellFoundedOn(StrictSubsetOrdering(S), FiniteSubsetsOf(S))
    BY FS_StrictSubsetOrderingWellFounded
  <2> HIDE DEF T
  <2> QED BY <1>1, <2>1, WFMin
<1>3. PICK i \in S : x = UpTo(i)
  OBVIOUS
<1>4. ASSUME NEW j \in S, j < i PROVE FALSE
  <2>1. /\ UpTo(j) \subseteq UpTo(i)
        /\ i \in UpTo(i)
        /\ i \notin UpTo(j)
    <3>1. i \in Nat /\ j \in Nat /\ \A l \in S : l \in Nat
      BY <1>4
    <3>2. \A l \in S : l <= j => l <= i
      BY <1>4, <3>1
    <3>3. i <= i /\ ~(i <= j)
      BY <1>4, <3>1
    <3> QED BY <1>4, <3>2, <3>3
  <2>2. UpTo(j) \in SUBSET S /\ UpTo(i) \in SUBSET S /\ UpTo(j) # UpTo(i)
    BY <2>1
  <2>3. <<UpTo(j), UpTo(i)>> \in StrictSubsetOrdering(S)
    BY <2>1, <2>2 DEF StrictSubsetOrdering
  <2> QED BY <1>2, <1>3, <2>3
<1>5. \A j \in S : i <= j
  BY <1>4
<1> QED BY <1>5 DEF FirstSlot

\* In a table of entries of a type, the active and the free slots are slots.
LEMMA SlotsOfTable ==
    ASSUME NEW E, NEW T \in Seq(E)
    PROVE  /\ DOMAIN T = 1..Len(T) /\ Len(T) \in Nat
           /\ ActiveSlots(T) \in SUBSET (1..Len(T))
           /\ FreeSlots(T) \in SUBSET (1..Len(T))
BY DEF ActiveSlots, FreeSlots

\* The slot an entry is added in is free or new.
LEMMA PlaceIsNotActive ==
    ASSUME NEW E, NEW T \in Seq(E)
    PROVE  /\ PlaceAt(T) \in 1..(Len(T) + 1)
           /\ PlaceAt(T) \notin ActiveSlots(T)
           /\ FreeSlots(T) = {} <=> PlaceAt(T) = Len(T) + 1
<1>1. Len(T) \in Nat /\ DOMAIN T = 1..Len(T)
  OBVIOUS
<1>2. CASE FreeSlots(T) = {}
  BY <1>1, <1>2 DEF PlaceAt, ActiveSlots
<1>3. CASE FreeSlots(T) # {}
  <2>1. FreeSlots(T) \in SUBSET (1..Len(T)) /\ FreeSlots(T) \in SUBSET Nat
    BY <1>1 DEF FreeSlots
  <2>2. PlaceAt(T) \in FreeSlots(T)
    BY <1>3, <2>1, FirstSlotIsLeast DEF PlaceAt
  <2>3. PlaceAt(T) \notin ActiveSlots(T)
    BY <2>2 DEF FreeSlots, ActiveSlots
  <2> QED BY <1>1, <1>3, <2>1, <2>2, <2>3
<1> QED BY <1>2, <1>3

\* A function over a table's slots is a table of that length.
LEMMA FunctionIsSeq ==
    ASSUME NEW E, NEW n \in Nat, NEW U \in [1..n -> E]
    PROVE  U \in Seq(E) /\ Len(U) = n
<1>1. U \in Seq(E)
  BY SeqDef
<1>2. PICK m \in Nat : m = Len(U) /\ 1..m = 1..n
  <2>1. DOMAIN U = 1..Len(U) /\ Len(U) \in Nat
    BY <1>1, LenProperties
  <2>2. DOMAIN U = 1..n
    OBVIOUS
  <2> QED BY <2>1, <2>2
<1>3. CASE m < n
  <2>1. n \in 1..n /\ n \notin 1..m
    BY <1>3
  <2> QED BY <1>2, <2>1
<1>4. CASE n < m
  <2>1. m \in 1..m /\ m \notin 1..n
    BY <1>4
  <2> QED BY <1>2, <2>1
<1> QED BY <1>1, <1>2, <1>3, <1>4

\* Table P is table T but for an entry e in its slot k, free or new before.
FilledAt(T, e, P, k, E) ==
    /\ P \in Seq(E)
    /\ Len(T) <= Len(P)
    /\ k \in 1..Len(P)
    /\ k \notin ActiveSlots(T)
    /\ P[k] = e
    /\ \A i \in 1..Len(P) : i # k => i \in 1..Len(T) /\ P[i] = T[i]

\* Adding an entry fills that slot, and keeps every other.
LEMMA PlaceSlotFillsOne ==
    ASSUME NEW E, NEW T \in Seq(E), NEW e \in E
    PROVE  FilledAt(T, e, PlaceSlot(T, e), PlaceAt(T), E)
<1> DEFINE P == PlaceSlot(T, e)
           k == PlaceAt(T)
<1>1. Len(T) \in Nat /\ k \in 1..(Len(T) + 1) /\ k \notin ActiveSlots(T)
  BY PlaceIsNotActive
<1>2. CASE FreeSlots(T) = {}
  <2>1. P = Append(T, e) /\ k = Len(T) + 1
    BY <1>2 DEF PlaceSlot, PlaceAt
  <2> HIDE DEF P, k
  <2>2. FilledAt(T, e, P, k, E)
    BY <1>1, <2>1, AppendProperties DEF FilledAt
  <2> QED BY <2>2 DEF P, k
<1>3. CASE FreeSlots(T) # {}
  <2>1. k \in 1..Len(T)
    BY <1>1, <1>3, PlaceIsNotActive
  <2>2. P = [T EXCEPT ![k] = e]
    BY <1>3 DEF PlaceSlot
  <2> HIDE DEF P, k
  <2>3. /\ P \in Seq(E)
        /\ Len(P) = Len(T)
        /\ \A j \in 1..Len(T) : P[j] = IF j = k THEN e ELSE T[j]
    BY <2>1, <2>2, ExceptSeq
  <2>4. FilledAt(T, e, P, k, E)
    BY <1>1, <2>1, <2>3 DEF FilledAt
  <2> QED BY <2>4 DEF P, k
<1> QED BY <1>2, <1>3

-----------------------------------------------------------------------------
(* The arithmetic of timer_inc and of the skew detection. *)

\* Intervals are no negative numbers.
LEMMA IntervalsNatural == Intervals \subseteq Nat
<1>1. \A n \in Int : 0..n \subseteq Nat
  OBVIOUS
<1>2. IntMax - SkewDetect \in Int
  BY IntMaxAssumption, SkewDetectAssumption
<1> QED BY <1>1, <1>2, IntervalsAssumption

\* Integer division by a positive number, as multiplication bounds it.
LEMMA Division ==
    ASSUME NEW d \in Nat, NEW i \in Nat, i > 0
    PROVE  /\ d \div i \in Nat
           /\ i * (d \div i) <= d
           /\ d < i * (d \div i) + i
           /\ d \div i >= 1 => i * (d \div i) >= i
<1> DEFINE q == d \div i
           r == d % i
<1>1. q \in Int /\ r \in 0..(i-1) /\ d = i * q + r
  OBVIOUS
<1>2. q >= 0
  OBVIOUS
<1> HIDE DEF q, r
<1>3. i * q \in Int /\ (q >= 1 => i * q >= i)
  BY <1>1
<1> QED
  BY <1>1, <1>2, <1>3 DEF q

\* What fits an int is not changed.
LEMMA Wrapped == ASSUME NEW x \in 0..IntMax PROVE Wrap(x) = x
<1>1. x + IntMax + 1 \in 0..2 * (IntMax + 1) - 1
  BY IntMaxAssumption
<1>2. (x + IntMax + 1) % (2 * (IntMax + 1)) = x + IntMax + 1
  <2> DEFINE m == 2 * (IntMax + 1)
             y == x + IntMax + 1
  <2>1. m \in Nat /\ m > 0 /\ y \in 0..m - 1
    BY <1>1, IntMaxAssumption
  <2> HIDE DEF m, y
  <2>2. y % m = y
    BY <2>1
  <2> QED BY <2>2 DEF m, y
<1> QED BY <1>2, IntMaxAssumption DEF Wrap

\* What does not fit becomes another int, and no greater than it was.
LEMMA WrapsDown == ASSUME NEW x \in Nat PROVE Wrap(x) \in Int /\ Wrap(x) <= x
<1> DEFINE m == 2 * (IntMax + 1)
           y == x + IntMax + 1
<1>1. m \in Nat /\ m > 0 /\ y \in Nat
  BY IntMaxAssumption
<1> HIDE DEF m, y
<1>2. y % m \in Int /\ y % m <= y
  <2>1. y \div m \in Nat /\ m * (y \div m) \in Nat /\ y = m * (y \div m) + (y % m)
    BY <1>1, Division
  <2>2. y % m \in Int
    BY <1>1
  <2> QED BY <1>1, <2>1, <2>2
<1> QED BY <1>2, IntMaxAssumption DEF Wrap, m, y

\* Trigger n is what timer_inc may make of the trigger of timer t at time "at":
\* the first one after "at" on the timer's grid if t was due, else one that is
\* still not due and no further away than an interval.
GoodTrigger(t, at, n) ==
    /\ n \in Int
    /\ (t.interval > 0 /\ t.when <= at) => (at < n /\ n <= at + t.interval)
    /\ (t.interval > 0 /\ t.when > at) => (at <= n /\ n <= t.when + t.interval)
    /\ t.interval = 0 => n = t.when

LEMMA NextTriggerBounds ==
    ASSUME NEW t \in Timer, NEW at \in Int
    PROVE  GoodTrigger(t, at, NextTrigger(t, at))
<1> DEFINE i == t.interval
           w == t.when
<1>1. i \in Nat /\ w \in Int
  BY IntervalsNatural DEF Timer
<1>2. CASE i = 0
  BY <1>1, <1>2 DEF NextTrigger, GoodTrigger
<1>3. CASE i > 0 /\ w <= at
  <2> DEFINE q == (at - w) \div i
  <2>1. q \in Nat /\ i * q <= at - w /\ at - w < i * q + i
    BY <1>1, <1>3, Division
  <2>2. NextTrigger(t, at) = w + i * (q + 1)
    BY <1>1, <1>3 DEF NextTrigger, MissedIntervals
  <2> HIDE DEF q, i, w
  <2>3. i * (q + 1) = i * q + i /\ i * q \in Int
    BY <1>1, <2>1
  <2>4. /\ NextTrigger(t, at) \in Int
        /\ at < NextTrigger(t, at)
        /\ NextTrigger(t, at) <= at + i
    BY <1>1, <1>3, <2>1, <2>2, <2>3
  <2> QED BY <1>1, <1>3, <2>4 DEF i, w, GoodTrigger
<1>4. CASE i > 0 /\ w > at
  <2> DEFINE q == (w - at) \div i
  <2>1. q \in Nat /\ i * q <= w - at /\ w - at < i * q + i
    BY <1>1, <1>4, Division
  <2>2. NextTrigger(t, at) = w + i * (-q + 1)
    <3>1. ~(at - w >= 0) /\ -(at - w) = w - at
      BY <1>1, <1>4
    <3>2. MissedIntervals(t, at) = -q
      BY <3>1 DEF MissedIntervals
    <3> QED BY <1>1, <1>4, <3>2 DEF NextTrigger
  <2> HIDE DEF q, i, w
  <2>3. i * (-q + 1) = i - i * q /\ i * q \in Int /\ i * q >= 0
    BY <1>1, <2>1
  <2>4. /\ NextTrigger(t, at) \in Int
        /\ NextTrigger(t, at) >= at
        /\ NextTrigger(t, at) <= w + i
    BY <1>1, <1>4, <2>1, <2>2, <2>3
  <2> QED BY <1>1, <1>4, <2>4 DEF i, w, GoodTrigger
<1> QED BY <1>1, <1>2, <1>3, <1>4

-----------------------------------------------------------------------------
(* The inductive invariant. *)

\* A pass never works with a time later than the clock has shown.
NowBound == now <= clock + setback

\* A periodic timer in the slot of the running callback had triggered already
\* when the callback ran, also if it was put there by the callback.
CalledDue ==
    pc = "call" =>
        Timers[timer].one_shot \/ Timers[timer].when <= clock + setback

\* While nobody removes timers, the slot of the running callback stays active
\* and is not given away.
CalledActive == (pc = "call" /\ Timeouts = {}) => Timers[timer].active

IInv ==
    /\ TypeOK
    /\ NowBound
    /\ HorizonBound
    /\ NoneOverdue
    /\ CalledDue
    /\ CalledActive
    /\ OwnSlotKept

\* What the type invariant says of the slots.
LEMMA SlotFields ==
    ASSUME TypeOK
    PROVE  /\ Len(Timers) \in Nat /\ DOMAIN Timers = 1..Len(Timers)
           /\ ActiveSlots(Timers) \in SUBSET (1..Len(Timers))
           /\ \A j \in 1..Len(Timers) :
                 /\ Timers[j] \in Timer
                 /\ Timers[j].when \in Int
                 /\ Timers[j].interval \in Nat
                 /\ Timers[j].active \in BOOLEAN
                 /\ Timers[j].one_shot \in BOOLEAN
<1>1. Timers \in Seq(Timer)
  BY DEF TypeOK
<1>2. \A j \in 1..Len(Timers) : Timers[j] \in Timer
  BY <1>1, ElementOfSeq
<1>3. \A t \in Timer : /\ t.when \in Int /\ t.interval \in Nat
                       /\ t.active \in BOOLEAN /\ t.one_shot \in BOOLEAN
  BY IntervalsNatural DEF Timer
<1> QED BY <1>1, <1>2, <1>3 DEF ActiveSlots

\* The slot contents timer_add writes are due now, or one interval from now.
LEMMA NewTimerIsNear ==
    ASSUME TypeOK, NEW h \in Handlers, NEW i \in Intervals, NEW once \in BOOLEAN,
           NEW t, t = NewTimer(h, i, once)
    PROVE  /\ t \in Timer /\ t.active /\ t.one_shot = once /\ t.interval = i
           /\ clock <= t.when /\ t.when <= clock + i
           /\ ~once => t.when = clock
<1> DEFINE b == [handler |-> h, when |-> clock, interval |-> i,
                 one_shot |-> once, active |-> TRUE]
           n == NextTrigger(b, clock)
<1>1. b \in Timer /\ clock \in Int /\ i \in Nat
  BY IntervalsNatural DEF TypeOK, Timer
<1>2. n \in Int /\ clock <= n /\ n <= clock + i
  <2>1. b.when = clock /\ b.interval = i
    OBVIOUS
  <2>2. GoodTrigger(b, clock, n)
    BY <1>1, NextTriggerBounds
  <2> QED BY <1>1, <2>1, <2>2 DEF GoodTrigger
<1>3. NewTimer(h, i, once) = IF once THEN [b EXCEPT !.when = n] ELSE b
  BY DEF NewTimer
<1>4. CASE once
  <2>1. t = [handler |-> h, when |-> n, interval |-> i,
             one_shot |-> once, active |-> TRUE]
    BY <1>3, <1>4
  <2>2. t.when = n /\ t.interval = i /\ t.active = TRUE /\ t.one_shot = once
    BY <2>1
  <2> HIDE DEF n, b
  <2>3. t \in Timer
    BY <1>2, <2>1 DEF Timer
  <2>4. clock <= t.when /\ t.when <= clock + i
    BY <1>2, <2>2
  <2> QED BY <1>4, <2>2, <2>3, <2>4, Zenon
<1>5. CASE ~once
  BY <1>1, <1>3, <1>5
<1> QED BY <1>4, <1>5

\* Whoever adds a timer, from a callback or between two passes.
LEMMA AddTimerKeepsIInv ==
    ASSUME IInv, pc \in {"events", "call"},
           NEW h \in Handlers, NEW i \in Intervals, NEW once \in BOOLEAN,
           AddTimer(h, i, once), UNCHANGED <<clock, pc, timer, now, delay, setback>>
    PROVE  IInv'
<1> DEFINE k == PlaceAt(Timers)
<1>1. PICK t : t = NewTimer(h, i, once)
  OBVIOUS
<1>2. /\ t \in Timer /\ t.active /\ t.one_shot = once /\ t.interval = i
      /\ clock <= t.when /\ t.when <= clock + i
      /\ ~once => t.when = clock
  BY <1>1, NewTimerIsNear DEF IInv
<1>3. Timers \in Seq(Timer) /\ Timers' = PlaceSlot(Timers, t)
  BY <1>1 DEF IInv, TypeOK, AddTimer
<1>4. FilledAt(Timers, t, Timers', k, Timer)
  BY <1>2, <1>3, PlaceSlotFillsOne
<1> HIDE DEF k
<1>5. /\ Timers' \in Seq(Timer)
      /\ Len(Timers) <= Len(Timers')
      /\ k \in 1..Len(Timers') /\ k \notin ActiveSlots(Timers)
      /\ Timers'[k] = t
      /\ \A j \in 1..Len(Timers') : j # k => j \in 1..Len(Timers) /\ Timers'[j] = Timers[j]
  BY <1>4 DEF FilledAt
<1>6. /\ clock \in Nat /\ now \in Nat /\ setback \in Nat /\ timer \in Nat \ {0}
      /\ i \in Nat /\ Len(Timers) \in Nat /\ Len(Timers') \in Nat
  BY <1>3, <1>5, IntervalsNatural DEF IInv, TypeOK
<1>7. \A j \in ActiveSlots(Timers') :
         j # k => j \in ActiveSlots(Timers) /\ Timers'[j] = Timers[j]
  BY <1>3, <1>5 DEF ActiveSlots
<1>8. TypeOK'
  <2>1. reused' \in BOOLEAN
    BY DEF AddTimer, IInv, TypeOK
  <2>2. pc' = "call" => timer' \in DOMAIN Timers'
    BY <1>3, <1>5, <1>6 DEF IInv, TypeOK
  <2> QED BY <1>5, <2>1, <2>2 DEF IInv, TypeOK
<1>9. NowBound'
  BY DEF IInv, NowBound
<1>10. HorizonBound'
  <2> SUFFICES ASSUME NEW j \in ActiveSlots(Timers')
               PROVE  Timers'[j].when <= clock + setback + Timers'[j].interval
    BY DEF HorizonBound
  <2>1. CASE j = k
    BY <1>2, <1>5, <1>6, <2>1 DEF Timer
  <2>2. CASE j # k
    BY <1>7, <2>2 DEF IInv, HorizonBound
  <2> QED BY <2>1, <2>2
<1>11. NoneOverdue'
  <2> SUFFICES ASSUME NEW j \in ActiveSlots(Timers'), Passed(j)', Timers'[j].interval > 0
               PROVE  Timers'[j].when >= now - setback
    BY DEF NoneOverdue
  <2>1. CASE j = k
    BY <1>2, <1>5, <1>6, <2>1 DEF Timer, IInv, NowBound
  <2>2. CASE j # k
    BY <1>7, <2>2 DEF IInv, NoneOverdue, Passed
  <2> QED BY <2>1, <2>2
<1>12. CalledDue'
  <2> SUFFICES ASSUME pc = "call"
               PROVE  Timers'[timer].one_shot \/ Timers'[timer].when <= clock + setback
    BY DEF CalledDue
  <2>1. timer \in 1..Len(Timers')
    BY <1>3, <1>5, <1>6 DEF IInv, TypeOK
  <2>2. CASE timer = k
    BY <1>2, <1>5, <1>6, <2>2
  <2>3. CASE timer # k
    BY <1>5, <2>1, <2>3 DEF IInv, CalledDue
  <2> QED BY <2>2, <2>3
<1>13. CalledActive' /\ OwnSlotKept'
  <2>1. CASE Timeouts # {}
    BY <2>1 DEF CalledActive, OwnSlotKept
  <2>2. CASE Timeouts = {} /\ pc = "call"
    <3>1. timer \in ActiveSlots(Timers)
      BY <2>2 DEF IInv, TypeOK, CalledActive, ActiveSlots
    <3>2. timer # k /\ timer \in 1..Len(Timers')
      BY <1>3, <1>5, <1>6, <2>2, <3>1 DEF IInv, TypeOK
    <3>3. Timers'[timer] = Timers[timer]
      BY <1>5, <3>2
    <3> QED BY <2>2, <3>1, <3>2, <3>3 DEF IInv, CalledActive, OwnSlotKept, AddTimer, k
  <2>3. CASE Timeouts = {} /\ pc # "call"
    BY <2>3 DEF IInv, CalledActive, OwnSlotKept, AddTimer
  <2> QED BY <2>1, <2>2, <2>3
<1> QED BY <1>8, <1>9, <1>10, <1>11, <1>12, <1>13 DEF IInv

\* timer_remove marks one slot inactive and leaves its contents.
LEMMA TimerRemoveKeepsIInv ==
    ASSUME IInv, NEW h \in Timeouts, TimerRemove(h)
    PROVE  IInv'
<1> DEFINE k == FirstSlot(SlotsOf(h))
<1>1. k \in 1..Len(Timers) /\ Timers \in Seq(Timer) /\ Len(Timers) \in Nat
  <2>1. Timers \in Seq(Timer) /\ Len(Timers) \in Nat
    BY DEF IInv, TypeOK
  <2>2. SlotsOf(h) \in SUBSET (1..Len(Timers)) /\ SlotsOf(h) # {}
    BY <2>1 DEF SlotsOf, ActiveSlots, TimerRemove
  <2>3. SlotsOf(h) \in SUBSET Nat
    BY <2>1, <2>2
  <2>4. k \in SlotsOf(h)
    BY <2>2, <2>3, FirstSlotIsLeast
  <2> QED BY <2>1, <2>2, <2>4
<1>2. Timers' = [Timers EXCEPT ![k] = [Timers[k] EXCEPT !.active = FALSE]]
  BY DEF TimerRemove, RetireSlot
<1> HIDE DEF k
<1>3. Timers[k] \in Timer /\ [Timers[k] EXCEPT !.active = FALSE] \in Timer
  <2>1. Timers[k] \in Timer
    BY <1>1, SlotFields DEF IInv
  <2> QED BY <2>1 DEF Timer
<1>4. /\ Timers' \in Seq(Timer)
      /\ Len(Timers') = Len(Timers)
      /\ \A j \in 1..Len(Timers) :
            Timers'[j] = IF j = k THEN [Timers[k] EXCEPT !.active = FALSE] ELSE Timers[j]
  BY <1>1, <1>2, <1>3, ExceptSeq
<1>5. \A j \in 1..Len(Timers) : /\ Timers'[j].when = Timers[j].when
                                /\ Timers'[j].interval = Timers[j].interval
                                /\ Timers'[j].one_shot = Timers[j].one_shot
  BY <1>3, <1>4 DEF Timer
<1>6. ActiveSlots(Timers') \in SUBSET ActiveSlots(Timers)
  <2>1. \A j \in 1..Len(Timers) : Timers'[j].active => Timers[j].active
    BY <1>3, <1>4 DEF Timer
  <2> QED BY <1>1, <1>4, <2>1 DEF ActiveSlots
<1>7. ActiveSlots(Timers) \in SUBSET (1..Len(Timers))
  BY <1>1 DEF ActiveSlots
<1>8. UNCHANGED <<clock, pc, timer, now, delay, setback, reused>>
  BY DEF TimerRemove
<1>9. TypeOK'
  BY <1>1, <1>4, <1>8 DEF IInv, TypeOK
<1>10. NowBound' /\ HorizonBound' /\ NoneOverdue'
  BY <1>5, <1>6, <1>7, <1>8 DEF IInv, NowBound, HorizonBound, NoneOverdue, Passed
<1>11. CalledDue' /\ CalledActive' /\ OwnSlotKept'
  <2>1. pc = "call" => timer \in 1..Len(Timers)
    BY <1>1 DEF IInv, TypeOK
  <2>2. Timeouts # {}
    OBVIOUS
  <2> QED BY <1>5, <1>8, <2>1, <2>2 DEF IInv, CalledDue, CalledActive, OwnSlotKept
<1> QED BY <1>9, <1>10, <1>11 DEF IInv

\* The beginning of a pass.
LEMMA ProcessStartKeepsIInv ==
    ASSUME IInv, ProcessStart
    PROVE  IInv'
<1>1. TypeOK' /\ pc' \in {"scan", "stopped"} /\ timer' = 1
  BY DEF IInv, TypeOK, ProcessStart, Places
<1>2. NowBound' /\ HorizonBound'
  BY DEF IInv, TypeOK, ProcessStart, NowBound, HorizonBound
<1>3. NoneOverdue'
  <2>1. ActiveSlots(Timers) \in SUBSET (Nat \ {0})
    BY DEF IInv, TypeOK, ActiveSlots
  <2>2. \A j \in ActiveSlots(Timers) : ~ (j < 1)
    BY <2>1
  <2> QED BY <1>1, <2>2 DEF NoneOverdue, Passed, ProcessStart
<1>4. CalledDue' /\ CalledActive' /\ OwnSlotKept'
  BY <1>1 DEF IInv, ProcessStart, CalledDue, CalledActive, OwnSlotKept
<1> QED BY <1>1, <1>2, <1>3, <1>4 DEF IInv

\* The scan moves on to a due timer; the slots it passes are not due.
LEMMA ProcessCallKeepsIInv ==
    ASSUME IInv, ProcessCall
    PROVE  IInv'
<1>1. Timers \in Seq(Timer) /\ Len(Timers) \in Nat /\ now \in Nat /\ setback \in Nat /\ clock \in Nat
  BY DEF IInv, TypeOK
<1>2. DueFrom(timer) \in SUBSET (1..Len(Timers)) /\ DueFrom(timer) # {}
  BY <1>1 DEF DueFrom, ActiveSlots, ProcessCall
<1>3. timer' \in DueFrom(timer) /\ \A j \in DueFrom(timer) : timer' <= j
  <2>1. DueFrom(timer) \in SUBSET Nat
    BY <1>1, <1>2
  <2> QED BY <1>2, <2>1, FirstSlotIsLeast DEF ProcessCall
<1>4. UNCHANGED <<Timers, clock, now, delay, setback>> /\ pc = "scan" /\ pc' = "call" /\ reused' = FALSE
  BY DEF ProcessCall
<1>5. timer' \in 1..Len(Timers) /\ Timers[timer'].active /\ Timers[timer'].when <= now
  BY <1>2, <1>3 DEF DueFrom, ActiveSlots
<1>6. TypeOK'
  <2>1. DOMAIN Timers = 1..Len(Timers) /\ timer' \in Nat \ {0}
    BY <1>1, <1>5
  <2> QED BY <1>4, <1>5, <2>1 DEF IInv, TypeOK, Places
<1>7. NowBound' /\ HorizonBound'
  BY <1>4 DEF IInv, NowBound, HorizonBound
<1>8. NoneOverdue'
  <2> SUFFICES ASSUME NEW j \in ActiveSlots(Timers), j < timer', Timers[j].interval > 0
               PROVE  Timers[j].when >= now - setback
    BY <1>4 DEF NoneOverdue, Passed
  <2>1. CASE j < timer
    BY <1>4, <2>1 DEF IInv, NoneOverdue, Passed
  <2>2. CASE j >= timer
    <3>1. j \in 1..Len(Timers) /\ Timers[j].when \in Int
      BY SlotFields DEF IInv
    <3>2. j \notin DueFrom(timer)
      BY <1>3, <1>5, <3>1
    <3>3. Timers[j].when > now
      BY <1>1, <2>2, <3>1, <3>2 DEF DueFrom
    <3> QED BY <1>1, <3>1, <3>3
  <2>3. timer \in Nat /\ j \in Nat
    BY <1>1 DEF IInv, TypeOK, ActiveSlots
  <2> QED BY <2>1, <2>2, <2>3
<1>9. CalledDue'
  <2>1. Timers[timer'].when \in Int
    BY <1>5, SlotFields DEF IInv
  <2> QED BY <1>1, <1>4, <1>5, <2>1 DEF IInv, NowBound, CalledDue
<1>10. CalledActive' /\ OwnSlotKept'
  BY <1>4, <1>5 DEF CalledActive, OwnSlotKept
<1> QED BY <1>6, <1>7, <1>8, <1>9, <1>10 DEF IInv

\* What timer_process makes of a slot after the callback: the timer is retired,
\* or its trigger moves on without being left behind or running ahead.
LEMMA AfterCallBounds ==
    ASSUME IInv, pc = "call", NEW t, t = AfterCall(Timers[timer])
    PROVE  /\ t \in Timer
           /\ t.interval = Timers[timer].interval
           /\ t.active => Timers[timer].active
           /\ t.active => t.when <= clock + setback + t.interval
           /\ t.active /\ t.interval > 0 => t.when >= now - setback
<1>0. PICK s : s = Timers[timer]
  OBVIOUS
<1> DEFINE n == NextTrigger(s, now)
<1>1. /\ s \in Timer /\ s.when \in Int /\ s.interval \in Nat /\ s.one_shot \in BOOLEAN
      /\ timer \in 1..Len(Timers)
  BY <1>0, SlotFields DEF IInv, TypeOK
<1>2. now \in Nat /\ clock \in Nat /\ setback \in Nat /\ now <= clock + setback
  BY DEF IInv, TypeOK, NowBound
<1>3. t = IF s.one_shot THEN [s EXCEPT !.active = FALSE]
                                   ELSE [s EXCEPT !.when = n]
  BY <1>0 DEF AfterCall
<1>4. CASE s.one_shot
  <2>1. t = [s EXCEPT !.active = FALSE]
    BY <1>3, <1>4
  <2>2. t \in Timer /\ t.interval = s.interval /\ ~t.active
    BY <1>1, <2>1 DEF Timer
  <2> QED BY <1>0, <2>2
<1>5. CASE ~s.one_shot
  <2>1. t = [s EXCEPT !.when = n]
    BY <1>3, <1>5
  <2>2. GoodTrigger(s, now, n)
    BY <1>1, <1>2, NextTriggerBounds
  <2>3. s.when <= clock + setback
    BY <1>0, <1>5 DEF IInv, CalledDue
  <2> HIDE DEF n
  <2>4. t \in Timer /\ t.when = n /\ t.interval = s.interval /\ t.active = s.active
    BY <1>1, <2>1, <2>2 DEF Timer, GoodTrigger
  <2>5. n <= clock + setback + s.interval
    BY <1>1, <1>2, <2>2, <2>3 DEF GoodTrigger
  <2>6. s.interval > 0 => n >= now - setback
    BY <1>1, <1>2, <2>2 DEF GoodTrigger
  <2> QED BY <1>0, <2>4, <2>5, <2>6
<1> QED BY <1>1, <1>4, <1>5

\* The callback returns.
LEMMA ProcessReturnKeepsIInv ==
    ASSUME IInv, ProcessReturn
    PROVE  IInv'
<1>1. PICK t : t = AfterCall(Timers[timer])
  OBVIOUS
<1>2. /\ t \in Timer
      /\ t.interval = Timers[timer].interval
      /\ t.active => Timers[timer].active
      /\ t.active => t.when <= clock + setback + t.interval
      /\ t.active /\ t.interval > 0 => t.when >= now - setback
  BY <1>1, AfterCallBounds DEF ProcessReturn
<1>3. /\ Timers \in Seq(Timer) /\ timer \in 1..Len(Timers) /\ Len(Timers) \in Nat
      /\ timer \in Nat
  BY DEF IInv, TypeOK, ProcessReturn
<1>4. Timers' = [Timers EXCEPT ![timer] = t]
  BY <1>1 DEF ProcessReturn
<1>5. /\ Timers' \in Seq(Timer)
      /\ Len(Timers') = Len(Timers)
      /\ \A j \in 1..Len(Timers) : Timers'[j] = IF j = timer THEN t ELSE Timers[j]
  BY <1>2, <1>3, <1>4, ExceptSeq
<1>6. /\ UNCHANGED <<clock, now, delay, setback, reused>>
      /\ pc = "call" /\ pc' = "scan" /\ timer' = timer + 1
  BY DEF ProcessReturn
<1>7. \A j \in ActiveSlots(Timers') :
         /\ j \in ActiveSlots(Timers) /\ j \in 1..Len(Timers)
         /\ j # timer => Timers'[j] = Timers[j]
         /\ j = timer => Timers'[j] = t /\ t.active
  BY <1>2, <1>3, <1>5 DEF ActiveSlots
<1>8. TypeOK'
  BY <1>3, <1>5, <1>6 DEF IInv, TypeOK, Places
<1>9. NowBound'
  BY <1>6 DEF IInv, NowBound
<1>10. HorizonBound'
  BY <1>2, <1>6, <1>7 DEF IInv, HorizonBound
<1>11. NoneOverdue'
  <2> SUFFICES ASSUME NEW j \in ActiveSlots(Timers'), j < timer + 1, Timers'[j].interval > 0
               PROVE  Timers'[j].when >= now - setback
    BY <1>6 DEF NoneOverdue, Passed
  <2>1. CASE j = timer
    BY <1>2, <1>7, <2>1
  <2>2. CASE j # timer
    <3>1. j < timer
      BY <1>3, <1>7, <2>2
    <3> QED BY <1>6, <1>7, <2>2, <3>1 DEF IInv, NoneOverdue, Passed
  <2> QED BY <2>1, <2>2
<1>12. CalledDue' /\ CalledActive' /\ OwnSlotKept'
  BY <1>6 DEF IInv, CalledDue, CalledActive, OwnSlotKept
<1> QED BY <1>8, <1>9, <1>10, <1>11, <1>12 DEF IInv

\* The timer timer_process sleeps for is an active one that triggers first.
LEMMA NextTimerIsFirst ==
    ASSUME TypeOK, ActiveSlots(Timers) # {}
    PROVE  /\ NextTimer \in ActiveSlots(Timers)
           /\ \A j \in ActiveSlots(Timers) : Timers[NextTimer].when <= Timers[j].when
<1> DEFINE A == ActiveSlots(Timers)
           w(i) == Timers[i].when
           UpTo(i) == {j \in A : w(j) <= w(i)}
           T == {UpTo(i) : i \in A}
           M == {i \in A : \A j \in A : w(i) <= w(j)}
<1>1. A \in SUBSET (1..Len(Timers)) /\ Len(Timers) \in Nat /\ \A i \in A : w(i) \in Int
  BY SlotFields
<1>2. IsFiniteSet(A)
  <2>1. IsFiniteSet(1..Len(Timers))
    BY <1>1, FS_Interval
  <2> QED BY <1>1, <2>1, FS_Subset
<1> HIDE DEF A, w
<1>3. T \subseteq FiniteSubsetsOf(A) /\ T # {}
  <2>1. ASSUME NEW i \in A PROVE UpTo(i) \in SUBSET A /\ IsFiniteSet(UpTo(i))
    BY <1>2, FS_Subset
  <2>2. A # {}
    BY DEF A
  <2> QED BY <2>1, <2>2 DEF FiniteSubsetsOf
<1>4. PICK x \in T : \A y \in T : ~ (<<y, x>> \in StrictSubsetOrdering(A))
  <2>1. IsWellFoundedOn(StrictSubsetOrdering(A), FiniteSubsetsOf(A))
    BY FS_StrictSubsetOrderingWellFounded
  <2> HIDE DEF T
  <2> QED BY <1>3, <2>1, WFMin
<1>5. PICK i \in A : x = UpTo(i)
  OBVIOUS
<1>6. ASSUME NEW j \in A, w(j) < w(i) PROVE FALSE
  <2>1. /\ UpTo(j) \subseteq UpTo(i)
        /\ i \in UpTo(i)
        /\ i \notin UpTo(j)
    <3>1. w(i) \in Int /\ w(j) \in Int /\ \A l \in A : w(l) \in Int
      BY <1>1, <1>6
    <3>2. \A l \in A : w(l) <= w(j) => w(l) <= w(i)
      BY <1>6, <3>1
    <3>3. w(i) <= w(i) /\ ~(w(i) <= w(j))
      BY <1>6, <3>1
    <3> QED BY <1>6, <3>2, <3>3
  <2>2. UpTo(j) \in SUBSET A /\ UpTo(i) \in SUBSET A /\ UpTo(j) # UpTo(i)
    BY <2>1
  <2>3. <<UpTo(j), UpTo(i)>> \in StrictSubsetOrdering(A)
    BY <2>1, <2>2 DEF StrictSubsetOrdering
  <2> QED BY <1>4, <1>5, <1>6, <2>3
<1>7. i \in M
  BY <1>1, <1>6
<1>8. M \in SUBSET Nat /\ M # {}
  <2>1. A \in SUBSET Nat
    BY <1>1
  <2>2. M \in SUBSET A
    OBVIOUS
  <2> HIDE DEF M
  <2> QED BY <1>7, <2>1, <2>2
<1>9. NextTimer = FirstSlot(M)
  BY DEF NextTimer, A, w
<1>10. NextTimer \in M
  BY <1>8, <1>9, FirstSlotIsLeast
<1> QED BY <1>10 DEF A, w

\* Shifting all active timers by a positive skew keeps the table's shape.
LEMMA UnskewedShape ==
    ASSUME TypeOK, NEW skew \in Int
    PROVE  /\ Unskewed(skew) \in Seq(Timer)
           /\ Len(Unskewed(skew)) = Len(Timers)
           /\ ActiveSlots(Unskewed(skew)) = ActiveSlots(Timers)
           /\ \A j \in ActiveSlots(Timers) :
                 /\ Unskewed(skew)[j].when = Timers[j].when - skew
                 /\ Unskewed(skew)[j].interval = Timers[j].interval
<1> DEFINE U == Unskewed(skew)
           shifted(t) == IF t.active THEN [t EXCEPT !.when = @ - skew] ELSE t
<1>1. /\ Len(Timers) \in Nat /\ DOMAIN Timers = 1..Len(Timers)
      /\ ActiveSlots(Timers) \in SUBSET (1..Len(Timers))
      /\ \A j \in 1..Len(Timers) : Timers[j] \in Timer
  BY SlotFields
<1>2. U = [j \in 1..Len(Timers) |-> shifted(Timers[j])]
  BY <1>1 DEF Unskewed
<1>3. \A t \in Timer : /\ shifted(t) \in Timer
                       /\ shifted(t).active = t.active
                       /\ shifted(t).interval = t.interval
                       /\ t.active => shifted(t).when = t.when - skew
  BY DEF Timer
<1> HIDE DEF U, shifted
<1>4. U \in [1..Len(Timers) -> Timer] /\ \A j \in 1..Len(Timers) : U[j] = shifted(Timers[j])
  BY <1>1, <1>2, <1>3
<1>5. U \in Seq(Timer) /\ Len(U) = Len(Timers) /\ DOMAIN U = 1..Len(Timers)
  <2>1. PICK n \in Nat : n = Len(Timers)
    BY <1>1
  <2>2. U \in [1..n -> Timer]
    BY <1>4, <2>1
  <2>3. U \in Seq(Timer) /\ Len(U) = n
    BY <2>2, FunctionIsSeq
  <2> QED BY <1>4, <2>1, <2>3
<1>6. \A j \in 1..Len(Timers) : U[j].active = Timers[j].active
  BY <1>1, <1>3, <1>4
<1>7. ActiveSlots(U) = ActiveSlots(Timers)
  BY <1>1, <1>5, <1>6 DEF ActiveSlots
<1>8. \A j \in ActiveSlots(Timers) : Timers[j].active
  BY DEF ActiveSlots
<1>9. \A j \in ActiveSlots(Timers) : /\ U[j].when = Timers[j].when - skew
                                     /\ U[j].interval = Timers[j].interval
  BY <1>1, <1>3, <1>4, <1>8
<1> QED BY <1>5, <1>7, <1>9 DEF U

\* The pass is over and the loop goes to sleep, or is left.
LEMMA ProcessSelectKeepsIInv ==
    ASSUME IInv, ProcessSelect
    PROVE  IInv'
<1>1. /\ clock \in Nat /\ now \in Nat /\ setback \in Nat /\ timer \in Nat
      /\ now <= clock + setback
      /\ UNCHANGED <<clock, timer, now, setback, reused>>
      /\ pc = "scan" /\ pc' \in {"poll", "stopped"}
  BY DEF IInv, TypeOK, NowBound, ProcessSelect
<1>2. /\ Len(Timers) \in Nat
      /\ ActiveSlots(Timers) \in SUBSET (1..Len(Timers))
      /\ \A j \in 1..Len(Timers) : Timers[j].when \in Int /\ Timers[j].interval \in Nat
  BY SlotFields DEF IInv
<1>3. ASSUME NEW j \in ActiveSlots(Timers), Timers[j].interval > 0
      PROVE  Timers[j].when >= now - setback
  <2>1. j \in Nat /\ Timers[j].when \in Int
    BY <1>2
  <2>2. CASE j < timer
    BY <1>1, <1>3, <2>2 DEF IInv, NoneOverdue, Passed
  <2>3. CASE j >= timer
    <3>1. ~(Timers[j].when <= now)
      BY <2>3 DEF ProcessSelect, DueFrom
    <3> QED BY <1>1, <2>1, <3>1
  <2> QED BY <1>1, <2>1, <2>2, <2>3
<1>4. NowBound' /\ CalledDue' /\ CalledActive' /\ OwnSlotKept'
  BY <1>1 DEF IInv, NowBound, CalledDue, CalledActive, OwnSlotKept
<1>5. CASE ActiveSlots(Timers) = {}
  <2>1. UNCHANGED <<Timers, delay>> /\ pc' = "stopped"
    BY <1>5 DEF ProcessSelect
  <2>2. TypeOK'
    BY <1>1, <2>1 DEF IInv, TypeOK, Places
  <2>3. HorizonBound' /\ NoneOverdue'
    BY <1>5, <2>1 DEF HorizonBound, NoneOverdue
  <2> QED BY <1>4, <2>2, <2>3 DEF IInv
<1>6. CASE ActiveSlots(Timers) # {}
  <2>1. PICK next : next = Timers[NextTimer]
    OBVIOUS
  <2>2. /\ next.when \in Int /\ next.interval \in Nat
        /\ \A j \in ActiveSlots(Timers) : next.when <= Timers[j].when
    <3>1. /\ NextTimer \in ActiveSlots(Timers)
          /\ \A j \in ActiveSlots(Timers) : Timers[NextTimer].when <= Timers[j].when
      BY <1>6, NextTimerIsFirst DEF IInv
    <3> QED BY <1>2, <2>1, <3>1
  <2>3. /\ pc' = "poll"
        /\ IF Skewed(next)
           THEN Timers' = Unskewed(TimeDifference(next) - next.interval) /\ delay' = 0
           ELSE Timers' = Timers /\ delay' = SleepUntil(next)
    BY <1>6, <2>1 DEF ProcessSelect
  <2>4. CASE Skewed(next)
    <3> DEFINE skew == TimeDifference(next) - next.interval
    <3>0. /\ TimeDifference(next) \in Int
          /\ TimeDifference(next) <= next.when - clock
          /\ TimeDifference(next) > next.interval + SkewDetect
      <4>1. clock <= next.when /\ next.when - clock \in Nat
        BY <1>1, <2>2, <2>4 DEF Skewed
      <4> QED BY <2>4, <4>1, WrapsDown DEF Skewed, TimeDifference
    <3>1. skew \in Int /\ skew > 0
      BY <2>2, <3>0, SkewDetectAssumption
    <3>2. Timers' = Unskewed(skew) /\ delay' = 0
      BY <2>3, <2>4
    <3>3. next.when - skew >= clock + next.interval
      BY <1>1, <2>2, <3>0
    <3> HIDE DEF skew
    <3>4. /\ Timers' \in Seq(Timer)
          /\ ActiveSlots(Timers') = ActiveSlots(Timers)
          /\ \A j \in ActiveSlots(Timers) :
                /\ Timers'[j].when = Timers[j].when - skew
                /\ Timers'[j].interval = Timers[j].interval
      BY <3>1, <3>2, UnskewedShape DEF IInv
    <3>5. TypeOK'
      BY <1>1, <2>3, <3>2, <3>4 DEF IInv, TypeOK, Places
    <3>6. HorizonBound'
      BY <1>1, <1>2, <3>1, <3>4 DEF IInv, HorizonBound
    <3>7. NoneOverdue'
      <4> SUFFICES ASSUME NEW j \in ActiveSlots(Timers)
                   PROVE  Timers[j].when - skew >= now - setback
        BY <1>1, <3>4 DEF NoneOverdue
      <4>1. Timers[j].when \in Int /\ next.when <= Timers[j].when
        BY <1>2, <2>2
      <4> QED BY <1>1, <2>2, <3>1, <3>3, <4>1
    <3> QED BY <1>4, <3>5, <3>6, <3>7 DEF IInv
  <2>5. CASE ~Skewed(next)
    <3>1. Timers' = Timers /\ delay' = SleepUntil(next)
      BY <2>3, <2>5
    <3>2. delay' \in Nat
      BY <1>1, <2>2, <3>1 DEF SleepUntil
    <3>3. TypeOK'
      BY <1>1, <2>3, <3>1, <3>2 DEF IInv, TypeOK, Places
    <3>4. HorizonBound' /\ NoneOverdue'
      BY <1>1, <1>3, <3>1 DEF IInv, HorizonBound, NoneOverdue
    <3> QED BY <1>4, <3>3, <3>4 DEF IInv
  <2> QED BY <2>4, <2>5
<1> QED BY <1>5, <1>6

\* Time passes, or the clock is set; the loop sleeps and wakes up.
LEMMA ClockKeepsIInv ==
    ASSUME IInv, Tick \/ \E s \in ClockSteps : SetClock(s)
    PROVE  IInv'
<1>1. /\ clock' + setback' >= clock + setback
      /\ clock' \in Nat /\ setback' \in Nat /\ setback' >= setback /\ delay' \in Nat
      /\ clock \in Nat /\ setback \in Nat /\ now \in Nat
  <2>1. CASE Tick
    BY <2>1, BoundsAssumption DEF Tick, IInv, TypeOK
  <2>2. ASSUME NEW s \in ClockSteps, SetClock(s)
        PROVE  /\ clock' + setback' >= clock + setback
               /\ clock' \in Nat /\ setback' \in Nat /\ setback' >= setback /\ delay' \in Nat
               /\ clock \in Nat /\ setback \in Nat /\ now \in Nat
    BY <2>2, ClockStepsAssumption, BoundsAssumption DEF SetClock, IInv, TypeOK
  <2> QED BY <2>1, <2>2
<1>2. UNCHANGED <<Timers, pc, timer, now, reused>>
  BY DEF Tick, SetClock
<1>3. /\ ActiveSlots(Timers) \in SUBSET (1..Len(Timers))
      /\ \A j \in 1..Len(Timers) : Timers[j].when \in Int /\ Timers[j].interval \in Nat
  BY SlotFields DEF IInv
<1>4. TypeOK'
  BY <1>1, <1>2 DEF IInv, TypeOK
<1>5. PICK c, c2, b, b2 \in Nat : /\ c = clock /\ c2 = clock'
                                 /\ b = setback /\ b2 = setback'
  BY <1>1
<1>6. c2 + b2 >= c + b /\ b2 >= b
  BY <1>1, <1>5
<1>7. NowBound'
  <2>1. now <= c + b
    BY <1>5 DEF IInv, NowBound
  <2>2. now <= c2 + b2
    BY <1>1, <1>6, <2>1
  <2> QED BY <1>2, <1>5, <2>2 DEF NowBound
<1>8. HorizonBound'
  <2> SUFFICES ASSUME NEW j \in ActiveSlots(Timers)
               PROVE  Timers[j].when <= c2 + b2 + Timers[j].interval
    BY <1>2, <1>5 DEF HorizonBound
  <2>1. PICK w, v \in Int : w = Timers[j].when /\ v = Timers[j].interval
    BY <1>3
  <2>2. w <= c + b + v
    BY <1>5, <2>1 DEF IInv, HorizonBound
  <2>3. w <= c2 + b2 + v
    BY <1>6, <2>2
  <2> QED BY <2>1, <2>3
<1>9. NoneOverdue'
  <2> SUFFICES ASSUME NEW j \in ActiveSlots(Timers), Passed(j), Timers[j].interval > 0
               PROVE  Timers[j].when >= now - setback'
    BY <1>2 DEF NoneOverdue, Passed
  <2>1. Timers[j].when \in Int /\ Timers[j].when >= now - setback
    BY <1>3 DEF IInv, NoneOverdue
  <2> QED BY <1>1, <2>1
<1>10. CalledDue'
  <2> SUFFICES ASSUME pc = "call", ~Timers[timer].one_shot
               PROVE  Timers[timer].when <= c2 + b2
    BY <1>2, <1>5 DEF CalledDue
  <2>1. PICK w \in Int : w = Timers[timer].when
    BY <1>3, SlotFields DEF IInv, TypeOK
  <2>2. w <= c + b
    BY <1>5, <2>1 DEF IInv, CalledDue
  <2>3. w <= c2 + b2
    BY <1>6, <2>2
  <2> QED BY <2>1, <2>3
<1>11. CalledActive' /\ OwnSlotKept'
  BY <1>2 DEF IInv, CalledActive, OwnSlotKept
<1> QED BY <1>4, <1>7, <1>8, <1>9, <1>10, <1>11 DEF IInv

\* The loop wakes up, because its delay is over or a descriptor is ready.
LEMMA PollKeepsIInv ==
    ASSUME IInv, PollTimeout \/ PollReady
    PROVE  IInv'
<1>1. /\ UNCHANGED <<Timers, clock, timer, now, delay, setback, reused>>
      /\ pc' \in {"process", "events"}
  BY DEF PollTimeout, PollReady
<1> QED BY <1>1 DEF IInv, TypeOK, Places, NowBound, HorizonBound, NoneOverdue, Passed,
                    CalledDue, CalledActive, OwnSlotKept

\* Every step keeps the inductive invariant.
LEMMA NextKeepsIInv ==
    ASSUME IInv, [Next]_vars
    PROVE  IInv'
<1>1. ASSUME NEW h \in Handlers \ Timeouts, NEW i \in Intervals, NEW once \in BOOLEAN,
             TimerAdd(h, i, once)
      PROVE  IInv'
  BY <1>1, AddTimerKeepsIInv DEF TimerAdd
<1>2. ASSUME NEW h \in Timeouts, NEW i \in Intervals, TimerAddLate(h, i)
      PROVE  IInv'
  <2>1. h \in Handlers /\ TRUE \in BOOLEAN
    BY TimeoutsAssumption
  <2> QED BY <1>2, <2>1, AddTimerKeepsIInv DEF TimerAddLate
<1>3. CASE UNCHANGED vars
  BY <1>3 DEF vars, IInv, TypeOK, NowBound, HorizonBound, NoneOverdue, Passed,
              CalledDue, CalledActive, OwnSlotKept
<1>4. CASE Client
  BY <1>1, <1>2, <1>4, TimerRemoveKeepsIInv DEF Client
<1>5. CASE Loop
  BY <1>5, ProcessStartKeepsIInv, ProcessCallKeepsIInv, ProcessReturnKeepsIInv,
     ProcessSelectKeepsIInv, PollKeepsIInv DEF Loop
<1>6. CASE Tick \/ \E s \in ClockSteps : SetClock(s)
  BY <1>6, ClockKeepsIInv
<1>7. CASE Stopped
  BY <1>3, <1>7 DEF Stopped
<1> QED BY <1>3, <1>4, <1>5, <1>6, <1>7 DEF Next

\* The initial state satisfies the inductive invariant.
LEMMA InitIInv ==
    ASSUME Init
    PROVE  IInv
<1>1. /\ Timers = <<>> /\ clock = 0 /\ pc = "events" /\ timer = 1
      /\ now = 0 /\ delay = 0 /\ setback = 0 /\ reused = FALSE
  BY DEF Init
<1>2. ActiveSlots(Timers) = {} /\ Timers \in Seq(Timer)
  BY <1>1 DEF ActiveSlots
<1>3. TypeOK
  <2>1. clock \in Nat /\ now \in Nat /\ delay \in Nat /\ setback \in Nat /\ reused \in BOOLEAN
    BY <1>1
  <2>2. timer \in Nat \ {0}
    BY <1>1
  <2>3. pc \in Places /\ pc # "call"
    BY <1>1 DEF Places
  <2> QED BY <1>2, <2>1, <2>2, <2>3 DEF TypeOK
<1>4. NowBound
  BY <1>1 DEF NowBound
<1>5. HorizonBound /\ NoneOverdue
  BY <1>2 DEF HorizonBound, NoneOverdue
<1>6. CalledDue /\ CalledActive /\ OwnSlotKept
  BY <1>1 DEF CalledDue, CalledActive, OwnSlotKept
<1> QED BY <1>3, <1>4, <1>5, <1>6 DEF IInv

\* The main loop goes to sleep only at the end of a pass of timer_process.
LEMMA OnlySelectSleeps ==
    ASSUME [Next]_vars, pc = "scan", pc' = "poll"
    PROVE  ProcessSelect
<1>1. ~UNCHANGED vars /\ ~Stopped
  BY DEF vars, Stopped
<1>2. ~Client
  BY DEF Client, TimerAdd, TimerAddLate, TimerRemove
<1>3. ~Tick /\ ~\E s \in ClockSteps : SetClock(s)
  BY DEF Tick, SetClock
<1>4. Loop
  BY <1>1, <1>2, <1>3 DEF Next
<1> QED BY <1>4 DEF Loop, ProcessStart, ProcessCall, ProcessReturn, PollTimeout, PollReady

\* What timer_process makes of the table and the delay before it returns.
LEMMA SelectedSleep ==
    ASSUME IInv, ProcessSelect, pc' = "poll"
    PROVE  /\ ActiveSlots(Timers') = ActiveSlots(Timers)
           /\ NextTimer \in ActiveSlots(Timers)
           /\ \A j \in ActiveSlots(Timers) : Timers'[j].interval = Timers[j].interval
           /\ \/ delay' = 0
              \/ /\ Timers' = Timers
                 /\ ~Skewed(Timers[NextTimer])
                 /\ delay' = SleepUntil(Timers[NextTimer])
<1>1. ActiveSlots(Timers) # {}
  BY DEF ProcessSelect
<1>2. NextTimer \in ActiveSlots(Timers)
  BY <1>1, NextTimerIsFirst DEF IInv
<1>3. PICK next : next = Timers[NextTimer]
  OBVIOUS
<1>4. next.when \in Int /\ next.interval \in Int /\ clock \in Int
  BY <1>2, <1>3, SlotFields DEF IInv, TypeOK
<1>5. IF Skewed(next)
      THEN Timers' = Unskewed(TimeDifference(next) - next.interval) /\ delay' = 0
      ELSE Timers' = Timers /\ delay' = SleepUntil(next)
  BY <1>1, <1>3 DEF ProcessSelect
<1>6. CASE Skewed(next)
  <2> DEFINE skew == TimeDifference(next) - next.interval
  <2>1. skew \in Int
    <3>1. next.when - clock \in Nat
      BY <1>4, <1>6 DEF Skewed
    <3> QED BY <1>4, <3>1, WrapsDown DEF TimeDifference
  <2> HIDE DEF skew
  <2> QED BY <1>2, <1>5, <1>6, <2>1, UnskewedShape DEF IInv, skew
<1>7. CASE ~Skewed(next)
  BY <1>2, <1>3, <1>5, <1>7
<1> QED BY <1>6, <1>7

-----------------------------------------------------------------------------
(* The theorems. *)

\* The inductive invariant holds of every behaviour of the main loop.
THEOREM Inductive == Spec => []IInv
<1>1. Init => IInv
  BY InitIInv
<1>2. IInv /\ [Next]_vars => IInv'
  BY NextKeepsIInv
<1> QED BY <1>1, <1>2, PTL DEF Spec

\* Type correctness: whatever callbacks add and remove, timer_process works on
\* a slot of the table (timer.c, TIMER and timer_process).
THEOREM TypeCorrect == Spec => []TypeOK
<1>1. IInv => TypeOK
  BY DEF IInv
<1> QED BY <1>1, Inductive, PTL

\* For any number of timers, any intervals and any changes of the clock, no timer
\* is scheduled further ahead than its interval and what the clock was set back
\* (timer_add, timer_inc and the clock skew detection of timer_process).
THEOREM Horizon == Spec => []HorizonBound
<1>1. IInv => HorizonBound
  BY DEF IInv
<1> QED BY <1>1, Inductive, PTL

\* For any number of timers, a pass of timer_process leaves no trigger in the
\* past behind it.
THEOREM Overdue == Spec => []NoneOverdue
<1>1. IInv => NoneOverdue
  BY DEF IInv
<1> QED BY <1>1, Inductive, PTL

\* A running callback's slot goes to a new timer only if callbacks remove timers
\* (timer_add, timer_process).
THEOREM OwnSlot == Spec => []OwnSlotKept
<1>1. IInv => OwnSlotKept
  BY DEF IInv
<1> QED BY <1>1, Inductive, PTL

\* For any number of timers and any clock, the main loop never sleeps beyond the
\* trigger of an active timer (the delay that timer_process returns).
THEOREM HonestSleep == Spec => SleepHonest
<1> DEFINE Honest == (pc = "scan" /\ pc' = "poll") =>
                        (delay' = 0 \/ \A i \in ActiveSlots(Timers') :
                                          clock + delay' <= Timers'[i].when)
<1>1. IInv /\ [Next]_vars => [Honest]_vars
  <2> SUFFICES ASSUME IInv, [Next]_vars, pc = "scan", pc' = "poll", delay' # 0,
                      NEW i \in ActiveSlots(Timers')
               PROVE  clock + delay' <= Timers'[i].when
    OBVIOUS
  <2>1. ProcessSelect
    BY OnlySelectSleeps
  <2>2. PICK next : next = Timers[NextTimer]
    OBVIOUS
  <2>3. /\ Timers' = Timers /\ i \in ActiveSlots(Timers)
        /\ NextTimer \in ActiveSlots(Timers)
        /\ delay' = SleepUntil(next)
    BY <2>1, <2>2, SelectedSleep
  <2>4. next.when <= Timers[i].when
    BY <2>2, <2>3, NextTimerIsFirst DEF IInv
  <2>5. next.when \in Int /\ Timers[i].when \in Int /\ clock \in Int
    BY <2>2, <2>3, SlotFields DEF IInv, TypeOK
  <2>6. delay' = next.when - clock
    BY <2>3 DEF SleepUntil
  <2> QED BY <2>3, <2>4, <2>5, <2>6
<1>2. Spec => [][Honest]_vars
  BY <1>1, Inductive, PTL DEF Spec
<1> QED BY <1>2 DEF SleepHonest

\* For ints of every width: the main loop's sleep is bounded by an active timer's
\* interval and the skew threshold, however the clock was set back, as long as an
\* int counts the milliseconds to the triggers (timer_process).
THEOREM BoundedSleep == Spec => SleepBounded
<1> DEFINE Bounded == (pc = "scan" /\ pc' = "poll" /\ Countable) =>
                         \E i \in ActiveSlots(Timers') :
                            delay' <= Timers'[i].interval + SkewDetect
<1>1. IInv /\ [Next]_vars => [Bounded]_vars
  <2> SUFFICES ASSUME IInv, [Next]_vars, pc = "scan", pc' = "poll", Countable
               PROVE  \E i \in ActiveSlots(Timers') :
                         delay' <= Timers'[i].interval + SkewDetect
    OBVIOUS
  <2>1. ProcessSelect
    BY OnlySelectSleeps
  <2>2. PICK next : next = Timers[NextTimer]
    OBVIOUS
  <2>3. PICK i : i = NextTimer
    OBVIOUS
  <2>4. /\ i \in ActiveSlots(Timers') /\ i \in ActiveSlots(Timers)
        /\ Timers'[i].interval = next.interval
        /\ delay' = 0 \/ (~Skewed(next) /\ delay' = SleepUntil(next))
    BY <2>1, <2>2, <2>3, SelectedSleep
  <2>5. next.when \in Int /\ next.interval \in Nat /\ clock \in Int
    BY <2>2, <2>3, <2>4, SlotFields DEF IInv, TypeOK
  <2>6. CASE delay' = 0 \/ next.when < clock
    BY <2>4, <2>5, <2>6, SkewDetectAssumption DEF SleepUntil
  <2>7. CASE delay' # 0 /\ clock <= next.when
    <3>1. next.when - clock \in 0..IntMax
      BY <2>2, <2>3, <2>4, <2>5, <2>7, IntMaxAssumption DEF Countable
    <3>2. TimeDifference(next) = next.when - clock
      BY <3>1, Wrapped DEF TimeDifference
    <3>3. next.when - clock <= next.interval + SkewDetect
      BY <2>4, <2>5, <2>7, <3>2, SkewDetectAssumption DEF Skewed
    <3>4. delay' = next.when - clock
      BY <2>4, <2>5, <2>7 DEF SleepUntil
    <3> QED BY <2>4, <3>3, <3>4
  <2> QED BY <2>4, <2>5, <2>6, <2>7
<1>2. Spec => [][Bounded]_vars
  BY <1>1, Inductive, PTL DEF Spec
<1> QED BY <1>2 DEF SleepBounded

-----------------------------------------------------------------------------
(* The width of integers. *)

\* Products of natural numbers keep and show their factors' order.
LEMMA Products ==
    /\ \A a \in Nat, b \in Nat : a * b \in Nat /\ a * b = b * a /\ a * (b + 1) = a * b + a
    /\ \A a \in Nat, b \in Nat, c \in Nat : a * (b * c) = (a * b) * c
    /\ \A a \in Nat, b \in Nat, c \in Nat : a <= b => a * c <= b * c
    /\ \A a \in Nat, b \in Nat, c \in Nat : c > 0 /\ a < b => a * c < b * c
<1>1. \A a \in Nat, b \in Nat : a * b \in Nat /\ a * b = b * a /\ a * (b + 1) = a * b + a
  OBVIOUS
<1>2. \A a \in Nat, b \in Nat, c \in Nat : a * (b * c) = (a * b) * c
  OBVIOUS
<1>3. ASSUME NEW a \in Nat, NEW b \in Nat, NEW c \in Nat
      PROVE  (a <= b => a * c <= b * c) /\ (c > 0 /\ a < b => a * c < b * c)
  <2>1. CASE a <= b
    <3>1. b - a \in Nat /\ (b - a) * c = b * c - a * c /\ (b - a) * c \in Nat
      BY <2>1
    <3>2. c > 0 /\ a < b => (b - a) * c > 0
      BY <2>1
    <3> QED BY <3>1, <3>2
  <2> QED BY <2>1
<1> QED BY <1>1, <1>2, <1>3

\* Up to the mantissa every whole number is a float, and so are its products with the
\* mantissa; a float is rounded to itself.
LEMMA ExactFloats ==
    /\ Floats \subseteq Nat
    /\ \A n \in 0..Mantissa : n \in Floats /\ n * Mantissa \in Floats
    /\ \A x \in Floats : Rounded(x, 1) \subseteq {x}
<1>1. Floats \subseteq Nat
  BY FloatAssumption, Products DEF Floats
<1>2. ASSUME NEW n \in 0..Mantissa PROVE n \in Floats /\ n * Mantissa \in Floats
  <2>1. n * 1 \in Floats /\ n * Mantissa \in Floats
    BY FloatAssumption DEF Floats
  <2>2. n * 1 = n
    BY FloatAssumption
  <2> QED BY <2>1, <2>2
<1>3. ASSUME NEW x \in Floats, NEW f \in Rounded(x, 1) PROVE f = x
  <2>1. f \in Nat /\ x \in Nat /\ Off(f, x, 1) <= Off(x, x, 1)
    BY <1>1 DEF Rounded
  <2>2. f * 1 = f /\ x * 1 = x
    BY <2>1
  <2>3. IF f < x THEN x - f <= 0 ELSE f - x <= 0
    BY <2>1, <2>2 DEF Off
  <2> QED BY <2>1, <2>3
<1> QED BY <1>1, <1>2, <1>3

\* A quotient is never rounded across a whole number that is a float.
LEMMA RoundedBetween ==
    ASSUME NEW d \in Nat, NEW i \in Nat \ {0}, NEW n \in Nat, n = d \div i, n + 1 <= Mantissa,
           NEW f \in Rounded(Mantissa * d, i)
    PROVE  f \div Mantissa \in {n, n + 1}
<1> DEFINE M == Mantissa
           lo == n * M
           hi == (n + 1) * M
           x == M * d
<1>1. M \in Nat /\ M > 0 /\ lo \in Floats /\ hi \in Floats
  <2>1. M \in Nat /\ M > 0
    BY FloatAssumption
  <2>2. n \in 0..Mantissa /\ n + 1 \in 0..Mantissa
    BY <2>1
  <2> QED BY <2>1, <2>2, ExactFloats
<1>2. f \in Nat /\ lo \in Nat /\ hi \in Nat /\ x \in Nat
  BY <1>1, ExactFloats, Products DEF Rounded
<1>3. Off(f, x, i) <= Off(lo, x, i) /\ Off(f, x, i) <= Off(hi, x, i)
  BY <1>1 DEF Rounded
<1>4. lo * i <= x /\ x <= hi * i
  <2>1. i * n <= d /\ d <= i * (n + 1)
    BY Division, Products
  <2>2. i * n \in Nat /\ i * (n + 1) \in Nat
    BY Products
  <2>3. (i * n) * M <= d * M /\ d * M <= (i * (n + 1)) * M
    BY <1>1, <2>1, <2>2, Products
  <2>4. (i * n) * M = lo * i
    <3>1. (i * n) * M = i * (n * M)
      BY <1>1, Products
    <3> QED BY <1>2, <3>1, Products
  <2>5. (i * (n + 1)) * M = hi * i
    <3>1. (i * (n + 1)) * M = i * ((n + 1) * M)
      BY <1>1, Products
    <3> QED BY <1>2, <3>1, Products
  <2>6. d * M = x
    BY <1>1, Products
  <2> QED BY <2>3, <2>4, <2>5, <2>6
<1> HIDE DEF lo, hi, x
<1>5. f * i \in Nat /\ lo * i \in Nat /\ hi * i \in Nat
  BY <1>2, Products
<1>6. lo <= f
  <2> SUFFICES ASSUME f < lo PROVE FALSE
    BY <1>2
  <2>1. f * i < lo * i
    BY <1>2, Products
  <2> QED BY <1>2, <1>3, <1>4, <1>5, <2>1 DEF Off
<1>7. f <= hi
  <2> SUFFICES ASSUME hi < f PROVE FALSE
    BY <1>2
  <2>1. hi * i < f * i
    BY <1>2, Products
  <2> QED BY <1>2, <1>3, <1>4, <1>5, <2>1 DEF Off
<1> DEFINE q == f \div M
<1>8. q \in Nat /\ M * q <= f /\ f < M * q + M
  BY <1>1, <1>2, Division
<1> HIDE DEF q, M
<1>9. M * q = q * M /\ M * q + M = (q + 1) * M
  BY <1>1, <1>8, Products
<1>10. n < q + 1
  <2> SUFFICES ASSUME q + 1 <= n PROVE FALSE
    BY <1>8
  <2>1. (q + 1) * M <= n * M /\ (q + 1) * M \in Nat
    BY <1>1, <1>8, Products
  <2>2. lo <= f /\ f < (q + 1) * M
    BY <1>6, <1>8, <1>9
  <2> QED BY <1>2, <2>1, <2>2 DEF lo, M
<1>11. q <= n + 1
  <2> SUFFICES ASSUME n + 1 < q PROVE FALSE
    BY <1>8
  <2>1. (n + 1) * M < q * M /\ q * M \in Nat
    BY <1>1, <1>8, Products
  <2>2. q * M <= f /\ f <= hi
    BY <1>7, <1>8, <1>9
  <2> QED BY <1>2, <2>1, <2>2 DEF hi, M
<1>12. q \in {n, n + 1}
  BY <1>8, <1>10, <1>11
<1> QED BY <1>12 DEF q, M

\* The time difference is exact up to the mantissa.
LEMMA ExactDifference ==
    ASSUME NEW d \in 0..Mantissa, NEW t \in TimeDifferences(d)
    PROVE  t = d
<1> DEFINE s == d \div Second
           r == d % Second
<1>1. Second \in Nat /\ Second > 0 /\ d \in Nat /\ Mantissa \in Nat
  BY WidthAssumption, FloatAssumption
<1>2. s \in Nat /\ Second * s <= d /\ r \in Nat /\ d = Second * s + r
  <2>1. s \in Nat /\ Second * s <= d
    BY <1>1, Division
  <2>2. r \in Nat /\ d = Second * s + r
    BY <1>1
  <2> QED BY <2>1, <2>2
<1> HIDE DEF s, r
<1>3. s * Second = Second * s /\ s <= s * Second /\ s * Second \in Nat
  <2>1. 1 * s <= Second * s
    <3>1. 1 \in Nat /\ 1 <= Second
      BY <1>1
    <3> QED BY <1>1, <1>2, <3>1, Products
  <2> QED BY <1>1, <1>2, <2>1, Products
<1>4. s \in Floats /\ s * Second \in Floats /\ d \in Floats
  BY <1>1, <1>2, <1>3, ExactFloats
<1>5. PICK u \in UNION {Rounded(v * Second, 1) : v \in Rounded(s, 1)} : t \in Rounded(u + r, 1)
  BY DEF TimeDifferences, s, r
<1>6. PICK v \in Rounded(s, 1) : u \in Rounded(v * Second, 1)
  BY <1>5
<1>7. v = s /\ u = s * Second
  BY <1>4, <1>6, ExactFloats
<1>8. u + r = d
  BY <1>1, <1>2, <1>3, <1>7
<1> QED BY <1>4, <1>5, <1>8, ExactFloats

\* The clock and the trigger stay integers.
Whole == wallClock \in Int /\ trigger \in Int

\* Whatever int the conversion leaves, the next trigger is an integer.
LEMMA TriggersWhole == ASSUME Whole, trigger <= wallClock, NEW next \in NextTriggers PROVE next \in Int
<1>1. \A x \in Int : Wrap(x) \in Int
  BY IntMaxAssumption DEF Wrap
<1>2. Missed \subseteq Int
  <2>1. Ints \subseteq Int
    BY DEF Ints
  <2>2. ASSUME NEW f PROVE FromFloat(f) \subseteq Int
    BY <2>1 DEF FromFloat
  <2> QED BY <2>2 DEF Missed
<1>3. PICK n \in Int : next = trigger + Wrap(Interval * Wrap(n + 1))
  BY <1>2 DEF NextTriggers
<1>4. Wrap(n + 1) \in Int
  BY <1>1
<1>5. Interval * Wrap(n + 1) \in Int
  BY <1>4, WidthAssumption
<1> QED BY <1>1, <1>3, <1>5 DEF Whole

\* A trigger whose lateness an int and a float can hold moves behind the clock.
LEMMA TriggerMoves ==
    ASSUME Whole, trigger <= wallClock, Counted, NEW next \in NextTriggers
    PROVE  wallClock < next
<1> DEFINE late == wallClock - trigger
           q == late \div Interval
<1>1. /\ late \in Nat /\ Interval \in Nat /\ Interval > 0 /\ IntMax \in Nat /\ Mantissa \in Nat
      /\ late + 2 * Interval <= IntMax /\ late + 2 * Interval <= Mantissa
  BY WidthAssumption, FloatAssumption, IntMaxAssumption DEF Whole, Counted
<1>2. q \in Nat /\ Interval * q <= late /\ late < Interval * q + Interval
  BY <1>1, Division
<1>3. PICK n \in Missed : next = trigger + Wrap(Interval * Wrap(n + 1))
  BY DEF NextTriggers
<1>4. PICK f \in Quotients(late) : n \in FromFloat(f)
  BY <1>3 DEF Missed
<1> HIDE DEF late, q
<1>5. q <= Interval * q /\ Interval * q \in Nat
  <2>1. 1 * q <= Interval * q /\ 1 * q = q
    BY <1>1, <1>2, Products
  <2> QED BY <1>1, <1>2, <2>1, Products
<1>6. f \in Rounded(Mantissa * late, Interval)
  <2>1. PICK t \in TimeDifferences(late), i \in Rounded(Interval, 1) : f \in Rounded(Mantissa * t, i)
    BY <1>4 DEF Quotients
  <2>2. late \in 0..Mantissa /\ Interval \in 0..Mantissa
    BY <1>1
  <2>3. t = late
    BY <2>1, <2>2, ExactDifference
  <2>4. i = Interval
    BY <2>1, <2>2, ExactFloats
  <2> QED BY <2>1, <2>3, <2>4
<1>7. f \div Mantissa \in {q, q + 1}
  <2>1. q + 1 <= Mantissa /\ Interval \in Nat \ {0}
    BY <1>1, <1>2, <1>5
  <2> QED BY <1>1, <1>2, <1>6, <2>1, RoundedBetween DEF q
<1>8. n \in {q, q + 1}
  <2>1. {q, q + 1} \subseteq Ints
    BY <1>1, <1>2, <1>5 DEF Ints
  <2> QED BY <1>4, <1>7, <2>1 DEF FromFloat
<1>9. Interval * (n + 1) >= Interval * q + Interval /\ Interval * (n + 1) <= Interval * q + 2 * Interval
  <2>1. Interval * (q + 1) = Interval * q + Interval
    BY <1>1, <1>2, Products
  <2>2. Interval * (q + 2) = Interval * (q + 1) + Interval
    <3>1. q + 2 = (q + 1) + 1 /\ q + 1 \in Nat
      BY <1>2
    <3> QED BY <1>1, <3>1, Products
  <2>3. n + 1 \in {q + 1, q + 2}
    BY <1>2, <1>8
  <2> QED BY <1>1, <1>5, <2>1, <2>2, <2>3
<1>10. n + 1 \in 0..IntMax /\ Interval * (n + 1) \in 0..IntMax
  <2>1. n \in Nat /\ Interval * (n + 1) \in Nat
    <3>1. n \in Nat /\ n + 1 \in Nat
      BY <1>2, <1>8
    <3> QED BY <1>1, <3>1, Products
  <2> QED BY <1>1, <1>2, <1>5, <1>8, <1>9, <2>1
<1>11. next = trigger + Interval * (n + 1)
  BY <1>3, <1>10, Wrapped
<1> QED BY <1>1, <1>2, <1>9, <1>10, <1>11 DEF late, Whole

\* For ints and floats of every width, and every interval: a timer that is called is not
\* due again at once, however many of its intervals were missed, as long as a float and an
\* int can hold the milliseconds it is late.
THEOREM Skipped == WidthSpec => MissedSkipped
<1>1. WidthInit => Whole
  BY DEF WidthInit, Whole
<1>2. Whole /\ [WidthNext]_widthVars => Whole'
  <2> SUFFICES ASSUME Whole, [WidthNext]_widthVars PROVE Whole'
    OBVIOUS
  <2>1. CASE Process
    BY <2>1, TriggersWhole DEF Process, Whole
  <2>2. CASE Advance
    BY <2>2, WidthAssumption DEF Advance, Whole
  <2>3. CASE UNCHANGED widthVars
    BY <2>3 DEF Whole, widthVars
  <2> QED BY <2>1, <2>2, <2>3 DEF WidthNext
<1> DEFINE Skips == (trigger' # trigger /\ Counted) => trigger' > wallClock
<1>3. Whole /\ [WidthNext]_widthVars => [Skips]_widthVars
  <2> SUFFICES ASSUME Whole, WidthNext, trigger' # trigger, Counted
               PROVE  trigger' > wallClock
    OBVIOUS
  <2>1. Process
    BY DEF WidthNext, Advance
  <2>2. wallClock < trigger'
    BY <2>1, TriggerMoves DEF Process
  <2>3. trigger' \in Int
    BY <1>2 DEF Whole
  <2> QED BY <2>2, <2>3 DEF Whole
<1> HIDE DEF Skips
<1>4. WidthSpec => [][Skips]_widthVars
  BY <1>1, <1>2, <1>3, PTL DEF WidthSpec
<1> QED BY <1>4 DEF MissedSkipped, Skips

-----------------------------------------------------------------------------
(* The timer groups: what their functions do to the three tables. *)

\* The three tables, as a record the functions of timer_group.c work on.
Bundle == [timers : Seq(Timer), groups : Seq(Group), widgets : Seq(GroupWidget)]

\* Every timer's cell belongs to a slot of the table of groups.
HandlersExist == \A j \in 1..Len(Timers) : Timers[j].handler \in 1..Len(TimerGroups)

GInv == IInv /\ GroupTypeOK /\ HandlersExist

\* From tables q to r, at most the timer of a group was added to the queue, and
\* no group slot went away.
Grown(q, r, i) ==
    /\ r \in Bundle
    /\ Len(q.groups) <= Len(r.groups)
    /\ Len(r.groups) <= MaxGroups
    /\ \/ r.timers = q.timers
       \/ /\ HasRoom(q.timers, MaxTimers)
          /\ \E g \in 1..Len(r.groups) :
                r.timers = PlaceSlot(q.timers, NewTimer(g, i, FALSE))

\* From tables q to r, the queue and the number of group slots stayed as they were.
SameQueue(q, r) ==
    /\ r \in Bundle
    /\ r.timers = q.timers
    /\ Len(r.groups) = Len(q.groups)

-----------------------------------------------------------------------------
(* Lemmas about the tables. *)

\* Adding an entry to a table.
LEMMA PlaceSlotKeepsTable ==
    ASSUME NEW E, NEW T \in Seq(E), NEW e \in E, NEW max \in Nat,
           HasRoom(T, max), Len(T) <= max
    PROVE  /\ PlaceSlot(T, e) \in Seq(E)
           /\ Len(T) <= Len(PlaceSlot(T, e))
           /\ Len(PlaceSlot(T, e)) <= max
           /\ PlaceAt(T) \in 1..Len(PlaceSlot(T, e))
<1>1. FilledAt(T, e, PlaceSlot(T, e), PlaceAt(T), E)
  BY PlaceSlotFillsOne
<1>2. PlaceSlot(T, e) \in Seq(E) /\ Len(T) <= Len(PlaceSlot(T, e))
      /\ PlaceAt(T) \in 1..Len(PlaceSlot(T, e))
  BY <1>1 DEF FilledAt
<1>3. Len(PlaceSlot(T, e)) <= max
  <2>1. CASE FreeSlots(T) = {}
    <3>1. PlaceAt(T) = Len(T) + 1 /\ PlaceSlot(T, e) = Append(T, e)
      BY <2>1 DEF PlaceAt, PlaceSlot
    <3>2. Len(PlaceSlot(T, e)) = Len(T) + 1
      BY <3>1
    <3> QED BY <3>1, <3>2 DEF HasRoom
  <2>2. CASE FreeSlots(T) # {}
    <3>1. PlaceSlot(T, e) = [T EXCEPT ![PlaceAt(T)] = e]
      BY <2>2 DEF PlaceSlot
    <3>2. Len(PlaceSlot(T, e)) = Len(T)
      BY <3>1
    <3> QED BY <3>2
  <2> QED BY <2>1, <2>2
<1> QED BY <1>2, <1>3

\* Marking a set of slots inactive.
LEMMA RetireSlotsKeepsTable ==
    ASSUME NEW E, NEW T \in Seq(E), NEW S,
           \A e \in E : [e EXCEPT !.active = FALSE] \in E
    PROVE  RetireSlots(T, S) \in Seq(E) /\ Len(RetireSlots(T, S)) = Len(T)
<1> DEFINE off(e) == [e EXCEPT !.active = FALSE]
           R == RetireSlots(T, S)
<1>1. /\ Len(T) \in Nat /\ DOMAIN T = 1..Len(T)
      /\ \A j \in 1..Len(T) : T[j] \in E
  BY ElementOfSeq
<1>2. R = [j \in 1..Len(T) |-> IF j \in S THEN off(T[j]) ELSE T[j]]
  BY <1>1 DEF RetireSlots
<1>3. \A e \in E : off(e) \in E
  OBVIOUS
<1> HIDE DEF off, R
<1>4. R \in [1..Len(T) -> E]
  BY <1>1, <1>2, <1>3
<1>5. R \in Seq(E) /\ Len(R) = Len(T)
  BY <1>1, <1>4, FunctionIsSeq
<1> QED BY <1>5 DEF R

\* timer_add_group
LEMMA AddGroupGrows ==
    ASSUME TypeOK, NEW q \in Bundle, Len(q.groups) <= MaxGroups, NEW i \in Intervals
    PROVE  Grown(q, AddGroup(q, i), i) /\ AddGroup(q, i).widgets = q.widgets
<1>1. CASE GroupExists(q, i) \/ ~HasRoom(q.groups, MaxGroups)
  <2>1. AddGroup(q, i) = q /\ Len(q.groups) \in Nat
    BY <1>1 DEF AddGroup, Bundle
  <2> QED BY <2>1 DEF Grown
<1>2. CASE ~GroupExists(q, i) /\ HasRoom(q.groups, MaxGroups)
  <2> DEFINE e == [interval |-> i, active |-> TRUE]
             q1 == [q EXCEPT !.groups = PlaceSlot(@, e)]
             g == PlaceAt(q.groups)
  <2>1. PICK grp : grp = PlaceSlot(q.groups, e)
    OBVIOUS
  <2>2. e \in Group /\ q.groups \in Seq(Group) /\ MaxGroups \in Nat
    BY GroupBoundsAssumption DEF Group, Bundle
  <2>3. /\ grp \in Seq(Group) /\ Len(q.groups) <= Len(grp) /\ Len(grp) <= MaxGroups
        /\ g \in 1..Len(grp)
    BY <1>2, <2>1, <2>2, PlaceSlotKeepsTable
  <2>4. q1 = [timers |-> q.timers, groups |-> grp, widgets |-> q.widgets]
    BY <2>1 DEF Bundle
  <2>5. q1 \in Bundle
    BY <2>3, <2>4 DEF Bundle
  <2>6. AddGroup(q, i) = IF HasRoom(q.timers, MaxTimers) THEN Link(q1, g, i) ELSE q1
    BY <1>2 DEF AddGroup
  <2> HIDE DEF q1, g, e
  <2>7. CASE ~HasRoom(q.timers, MaxTimers)
    BY <2>3, <2>4, <2>5, <2>6, <2>7 DEF Grown
  <2>8. CASE HasRoom(q.timers, MaxTimers)
    <3>1. PICK t : t = NewTimer(g, i, FALSE)
      OBVIOUS
    <3>2. g \in Handlers
      BY <2>2, <2>3, GroupHandlersAssumption
    <3>3. t \in Timer
      BY <3>1, <3>2, NewTimerIsNear
    <3>4. PICK tim : tim = PlaceSlot(q.timers, t)
      OBVIOUS
    <3>5. tim \in Seq(Timer)
      <4>1. q.timers \in Seq(Timer)
        BY DEF Bundle
      <4> QED BY <3>3, <3>4, <4>1, PlaceSlotFillsOne DEF FilledAt
    <3>6. AddGroup(q, i) = [timers |-> tim, groups |-> grp, widgets |-> q.widgets]
      BY <2>4, <2>6, <2>8, <3>1, <3>4 DEF Link
    <3>7. AddGroup(q, i) \in Bundle
      BY <2>3, <3>5, <3>6 DEF Bundle
    <3>8. \E h \in 1..Len(grp) : tim = PlaceSlot(q.timers, NewTimer(h, i, FALSE))
      BY <2>3, <3>1, <3>4
    <3>9. PICK r : r = AddGroup(q, i)
      OBVIOUS
    <3>10. /\ r \in Bundle /\ r.timers = tim /\ r.groups = grp /\ r.widgets = q.widgets
      BY <3>6, <3>7, <3>9
    <3>11. Grown(q, r, i)
      BY <2>3, <2>8, <3>8, <3>10 DEF Grown
    <3> QED BY <3>9, <3>10, <3>11
  <2> QED BY <2>7, <2>8
<1> QED BY <1>1, <1>2

\* timer_add_widget
LEMMA AddWidgetGrows ==
    ASSUME TypeOK, NEW q \in Bundle, Len(q.groups) <= MaxGroups,
           NEW w \in Widgets, NEW i \in Intervals, NEW once \in BOOLEAN
    PROVE  /\ Grown(q, AddWidget(q, w, i, once), i)
           /\ Len(q.widgets) <= Len(AddWidget(q, w, i, once).widgets)
<1>1. PICK q1 : q1 = AddGroup(q, i)
  OBVIOUS
<1>2. Grown(q, q1, i) /\ q1 \in Bundle /\ q1.widgets = q.widgets
  BY <1>1, AddGroupGrows DEF Grown
<1> DEFINE e == [widget |-> w, interval |-> i, one_shot |-> once, active |-> TRUE]
<1>3. PICK wid : wid = PlaceSlot(q.widgets, e)
  OBVIOUS
<1>4. wid \in Seq(GroupWidget) /\ Len(q.widgets) <= Len(wid) /\ Len(q.widgets) \in Nat
  <2>1. e \in GroupWidget /\ q.widgets \in Seq(GroupWidget)
    BY DEF GroupWidget, Bundle
  <2>2. FilledAt(q.widgets, e, wid, PlaceAt(q.widgets), GroupWidget)
    BY <1>3, <2>1, PlaceSlotFillsOne
  <2> QED BY <2>1, <2>2 DEF FilledAt
<1>5. CASE GroupGranted(q, i) /\ HasRoom(q.widgets, MaxWidgets)
  <2>1. AddWidget(q, w, i, once) = [timers |-> q1.timers, groups |-> q1.groups, widgets |-> wid]
    BY <1>1, <1>2, <1>3, <1>5 DEF AddWidget, Bundle
  <2>2. AddWidget(q, w, i, once) \in Bundle
    BY <1>2, <1>4, <2>1 DEF Bundle
  <2>3. PICK r : r = AddWidget(q, w, i, once)
    OBVIOUS
  <2>4. r \in Bundle /\ r.timers = q1.timers /\ r.groups = q1.groups /\ r.widgets = wid
    BY <2>1, <2>2, <2>3
  <2>5. Grown(q, r, i)
    BY <1>2, <2>4 DEF Grown
  <2> QED BY <1>4, <2>3, <2>4, <2>5
<1>6. CASE ~(GroupGranted(q, i) /\ HasRoom(q.widgets, MaxWidgets))
  <2>1. AddWidget(q, w, i, once) = q1
    BY <1>1, <1>6 DEF AddWidget
  <2> QED BY <1>2, <1>4, <2>1
<1> QED BY <1>5, <1>6

\* timer_remove_empty_group, after a one-shot widget's slot was given back.
LEMMA RetiredKeepsQueue ==
    ASSUME NEW q \in Bundle, NEW slot \in DOMAIN q.widgets
    PROVE  SameQueue(q, Retired(q, slot))
<1>1. CASE ~q.widgets[slot].one_shot
  BY <1>1 DEF Retired, SameQueue
<1>2. CASE q.widgets[slot].one_shot
  <2>1. /\ \A e \in Group : [e EXCEPT !.active = FALSE] \in Group
        /\ \A e \in GroupWidget : [e EXCEPT !.active = FALSE] \in GroupWidget
    BY DEF Group, GroupWidget
  <2>2. PICK wid : wid = RetireSlot(q.widgets, slot)
    OBVIOUS
  <2>3. wid \in Seq(GroupWidget)
    <3>1. q.widgets \in Seq(GroupWidget)
      BY DEF Bundle
    <3>2. q.widgets[slot] \in GroupWidget /\ slot \in 1..Len(q.widgets)
      BY <3>1, ElementOfSeq
    <3>3. wid = [q.widgets EXCEPT ![slot] = [q.widgets[slot] EXCEPT !.active = FALSE]]
      BY <2>2 DEF RetireSlot
    <3> QED BY <2>1, <3>1, <3>2, <3>3, ExceptSeq
  <2>4. PICK q1 : q1 = [q EXCEPT !.widgets = wid]
    OBVIOUS
  <2>5. /\ q1.timers = q.timers /\ q1.groups = q.groups /\ q1.widgets = wid
        /\ q1 \in Bundle
    BY <2>3, <2>4 DEF Bundle
  <2>6. Retired(q, slot) = RemoveEmptyGroup(q1, interval)
    BY <1>2, <2>2, <2>4 DEF Retired
  <2>7. SameQueue(q1, RemoveGroup(q1, interval))
    <3> DEFINE S == WithInterval(q1.widgets, interval)
               G == FirstWith(q1.groups, interval)
    <3>1. PICK rw, rg : rw = RetireSlots(q1.widgets, S) /\ rg = RetireSlots(q1.groups, G)
      OBVIOUS
    <3>2. RemoveGroup(q1, interval) = [timers |-> q1.timers, groups |-> rg, widgets |-> rw]
      <4>1. [q1 EXCEPT !.widgets = rw, !.groups = rg]
               = [timers |-> q1.timers, groups |-> rg, widgets |-> rw]
        <5>1. PICK q2 : q2 = [q1 EXCEPT !.widgets = rw]
          OBVIOUS
        <5>2. q2 = [timers |-> q1.timers, groups |-> q1.groups, widgets |-> rw]
          BY <2>5, <5>1 DEF Bundle
        <5>3. [q2 EXCEPT !.groups = rg]
                 = [timers |-> q1.timers, groups |-> rg, widgets |-> rw]
          BY <5>2
        <5> QED BY <5>1, <5>3
      <4>2. RemoveGroup(q1, interval) = [q1 EXCEPT !.widgets = rw, !.groups = rg]
        BY <3>1 DEF RemoveGroup
      <4> QED BY <4>1, <4>2
    <3> HIDE DEF S, G
    <3>3. q1.widgets \in Seq(GroupWidget) /\ q1.groups \in Seq(Group)
      BY <2>5 DEF Bundle
    <3>4. rw \in Seq(GroupWidget)
      BY <2>1, <3>1, <3>3, RetireSlotsKeepsTable
    <3>5. rg \in Seq(Group) /\ Len(rg) = Len(q1.groups)
      BY <2>1, <3>1, <3>3, RetireSlotsKeepsTable
    <3> QED BY <2>5, <3>2, <3>4, <3>5 DEF SameQueue, Bundle
  <2>8. SameQueue(q1, RemoveEmptyGroup(q1, interval))
    BY <2>5, <2>7 DEF RemoveEmptyGroup, SameQueue
  <2> QED BY <2>5, <2>6, <2>8 DEF SameQueue
<1> QED BY <1>1, <1>2
-----------------------------------------------------------------------------
(* Steps. *)

\* The tables of a state, and the slots of the tables.
LEMMA TablesFacts ==
    ASSUME GInv
    PROVE  /\ Tables \in Bundle
           /\ Tables.timers = Timers /\ Tables.groups = TimerGroups
           /\ Tables.widgets = TimerGroupWidgets
           /\ Len(TimerGroups) \in Nat /\ Len(TimerGroups) <= MaxGroups
           /\ \A j \in 1..Len(TimerGroups) : TimerGroups[j].interval \in Intervals
           /\ DOMAIN TimerGroupWidgets = 1..Len(TimerGroupWidgets)
           /\ \A j \in 1..Len(TimerGroupWidgets) : TimerGroupWidgets[j].widget \in Widgets
<1>1. /\ Timers \in Seq(Timer) /\ TimerGroups \in Seq(Group)
      /\ TimerGroupWidgets \in Seq(GroupWidget) /\ Len(TimerGroups) <= MaxGroups
  BY DEF GInv, GroupTypeOK, TypeOK
<1>2. \A j \in 1..Len(TimerGroups) : TimerGroups[j].interval \in Intervals
  <2>1. \A j \in 1..Len(TimerGroups) : TimerGroups[j] \in Group
    BY <1>1, ElementOfSeq
  <2> QED BY <2>1 DEF Group
<1>3. \A j \in 1..Len(TimerGroupWidgets) : TimerGroupWidgets[j].widget \in Widgets
  <2>1. \A j \in 1..Len(TimerGroupWidgets) : TimerGroupWidgets[j] \in GroupWidget
    BY <1>1, ElementOfSeq
  <2> QED BY <2>1 DEF GroupWidget
<1> QED BY <1>1, <1>2, <1>3 DEF Tables, Bundle

\* The intervals that widgets ask for.
LEMMA AsksIntervals ==
    ASSUME NEW w \in Widgets
    PROVE  Asks(w) \subseteq Intervals
BY StaticAssumption DEF Asks

\* What timer_add_widget does to the queue is a step of the queue.
LEMMA GrownIsQueueStep ==
    ASSUME GInv, pc \in {"events", "call"}, NEW q, NEW i \in Intervals,
           Grown(Tables, q, i), Timers' = q.timers,
           UNCHANGED <<clock, pc, timer, now, delay, setback, reused>>
    PROVE  [Next]_vars
<1>1. CASE q.timers = Timers
  BY <1>1 DEF vars
<1>2. CASE q.timers # Timers
  <2>1. PICK g \in 1..Len(q.groups) : Timers' = PlaceSlot(Timers, NewTimer(g, i, FALSE))
    BY <1>2, TablesFacts DEF Grown
  <2>2. HasRoom(Timers, MaxTimers) /\ Len(q.groups) <= MaxGroups /\ Len(q.groups) \in Nat
    <3>1. Tables.timers = Timers
      BY TablesFacts
    <3>2. HasRoom(Tables.timers, MaxTimers)
      BY <1>2, <3>1 DEF Grown
    <3>3. q \in Bundle /\ Len(q.groups) <= MaxGroups
      BY DEF Grown
    <3>4. Len(q.groups) \in Nat
      BY <3>3 DEF Bundle
    <3> QED BY <3>1, <3>2, <3>3, <3>4
  <2>3. g \in Handlers \ Timeouts /\ MaxGroups \in Nat
    BY <2>1, <2>2, GroupHandlersAssumption, GroupBoundsAssumption
  <2>4. pc = "call" => timer # PlaceAt(Timers)
    <3> SUFFICES ASSUME pc = "call" PROVE timer # PlaceAt(Timers)
      OBVIOUS
    <3>1. timer \in ActiveSlots(Timers)
      BY GroupHandlersAssumption DEF GInv, IInv, TypeOK, CalledActive, ActiveSlots
    <3>2. PlaceAt(Timers) \notin ActiveSlots(Timers)
      <4>1. Timers \in Seq(Timer)
        BY DEF GInv, IInv, TypeOK
      <4> QED BY <4>1, PlaceIsNotActive
    <3> QED BY <3>1, <3>2
  <2>5. reused' = (reused \/ (pc = "call" /\ timer = PlaceAt(Timers)))
    <3>1. reused \in BOOLEAN /\ reused' = reused
      BY DEF GInv, IInv, TypeOK
    <3> QED BY <2>4, <3>1
  <2>6. TimerAdd(g, i, FALSE)
    BY <2>1, <2>2, <2>5 DEF TimerAdd, AddTimer
  <2>7. Client
    BY <2>3, <2>6 DEF Client
  <2> QED BY <2>7 DEF Next
<1> QED BY <1>1, <1>2

\* The timers of groups that exist are the only ones that are added.
LEMMA GrownKeepsHandlers ==
    ASSUME GInv, NEW q, NEW i \in Intervals, Grown(Tables, q, i),
           Timers' = q.timers, Len(TimerGroups') = Len(q.groups)
    PROVE  HandlersExist'
<1>1. Len(q.groups) \in Nat /\ Len(TimerGroups) \in Nat /\ Len(TimerGroups) <= Len(q.groups)
  BY TablesFacts DEF Grown, Bundle
<1>2. CASE q.timers = Timers
  BY <1>1, <1>2 DEF GInv, HandlersExist
<1>3. CASE q.timers # Timers
  <2>1. PICK g \in 1..Len(q.groups) : q.timers = PlaceSlot(Timers, NewTimer(g, i, FALSE))
    BY <1>3, TablesFacts DEF Grown
  <2>2. PICK t : t = NewTimer(g, i, FALSE)
    OBVIOUS
  <2>3. t.handler = g
    BY <2>2 DEF NewTimer
  <2>4. t \in Timer /\ Timers \in Seq(Timer)
    <3>1. Len(q.groups) <= MaxGroups /\ MaxGroups \in Nat
      BY GroupBoundsAssumption DEF Grown
    <3>2. g \in Handlers
      BY <1>1, <2>1, <3>1, GroupHandlersAssumption
    <3>3. TypeOK /\ FALSE \in BOOLEAN
      BY DEF GInv, IInv
    <3>4. t \in Timer
      BY <2>2, <3>2, <3>3, NewTimerIsNear
    <3> QED BY <3>3, <3>4 DEF TypeOK
  <2>5. FilledAt(Timers, t, Timers', PlaceAt(Timers), Timer)
    BY <2>1, <2>2, <2>4, PlaceSlotFillsOne
  <2>6. ASSUME NEW j \in 1..Len(Timers')
        PROVE  Timers'[j].handler \in 1..Len(q.groups)
    <3>1. CASE j = PlaceAt(Timers)
      BY <2>1, <2>3, <2>5, <3>1 DEF FilledAt
    <3>2. CASE j # PlaceAt(Timers)
      <4>1. j \in 1..Len(Timers) /\ Timers'[j] = Timers[j]
        BY <2>5, <3>2 DEF FilledAt
      <4>2. Timers[j].handler \in 1..Len(TimerGroups)
        BY <4>1 DEF GInv, HandlersExist
      <4> QED BY <1>1, <4>1, <4>2
    <3> QED BY <3>1, <3>2
  <2> QED BY <2>6 DEF HandlersExist
<1> QED BY <1>2, <1>3

\* A widget's init adds it to a group, or the layout has no such widget.
LEMMA StartUpStep ==
    ASSUME GInv, StartUp
    PROVE  [Next]_vars /\ GInv'
<1>1. PICK w \in Widgets : WidgetInit(w) \/ WidgetUnused(w)
  BY DEF StartUp
<1>2. CASE WidgetUnused(w)
  <2>1. UNCHANGED <<vars, TimerGroups, TimerGroupWidgets, widget, interval, updates>>
        /\ pending' = pending \ {w}
    BY <1>2 DEF WidgetUnused
  <2>2. IInv'
    BY <2>1, NextKeepsIInv DEF GInv
  <2>3. GroupTypeOK' /\ HandlersExist'
    BY <2>1, <2>2 DEF GInv, GroupTypeOK, HandlersExist, IInv, vars
  <2> QED BY <2>1, <2>2, <2>3 DEF GInv
<1>3. CASE WidgetInit(w)
  <2>1. PICK i \in Intervals, once \in BOOLEAN : SetTables(AddWidget(Tables, w, i, once))
    BY <1>3, AsksIntervals DEF WidgetInit
  <2>2. PICK q : q = AddWidget(Tables, w, i, once)
    OBVIOUS
  <2>3. Grown(Tables, q, i)
    <3>1. TypeOK /\ Tables \in Bundle /\ Len(Tables.groups) <= MaxGroups
      BY TablesFacts DEF GInv, IInv
    <3> QED BY <2>2, <3>1, AddWidgetGrows
  <2>4. /\ Timers' = q.timers /\ TimerGroups' = q.groups /\ TimerGroupWidgets' = q.widgets
        /\ UNCHANGED <<clock, pc, timer, now, delay, setback, reused, widget, interval, updates>>
        /\ pc \in {"events", "call"} /\ pending' = pending \ {w}
    BY <1>3, <2>1, <2>2 DEF WidgetInit, SetTables
  <2>5. [Next]_vars
    BY <2>3, <2>4, GrownIsQueueStep
  <2>6. IInv'
    BY <2>5, NextKeepsIInv DEF GInv
  <2>7. HandlersExist'
    BY <2>3, <2>4, GrownKeepsHandlers
  <2>8. GroupTypeOK'
    BY <2>3, <2>4, <2>6 DEF GInv, GroupTypeOK, Grown, Bundle, IInv
  <2> QED BY <2>5, <2>6, <2>7, <2>8 DEF GInv
<1> QED BY <1>1, <1>2, <1>3

\* The cell of the timer that is called belongs to a group slot.
LEMMA GroupEnterStep ==
    ASSUME GInv, GroupEnter
    PROVE  [Next]_vars /\ GInv'
<1>1. /\ UNCHANGED <<vars, TimerGroups, TimerGroupWidgets, pending, updates>>
      /\ pc = "call" /\ widget' = 1
      /\ interval' = TimerGroups[Timers[timer].handler].interval
  BY DEF GroupEnter
<1>2. IInv'
  BY <1>1, NextKeepsIInv DEF GInv
<1>3. interval' \in Intervals
  <2>1. timer \in 1..Len(Timers)
    BY <1>1, SlotFields DEF GInv, IInv, TypeOK
  <2>2. Timers[timer].handler \in 1..Len(TimerGroups)
    BY <2>1 DEF GInv, HandlersExist
  <2> QED BY <1>1, <2>2, TablesFacts
<1>4. GroupTypeOK' /\ HandlersExist'
  BY <1>1, <1>2, <1>3 DEF GInv, GroupTypeOK, HandlersExist, IInv, vars
<1> QED BY <1>1, <1>2, <1>4 DEF GInv

\* A widget is updated; it may add itself again and may be retired.
LEMMA GroupUpdateStep ==
    ASSUME GInv, GroupUpdate
    PROVE  [Next]_vars /\ GInv'
<1>1. PICK slot : slot = FirstSlot(WalkFrom(widget))
  OBVIOUS
<1>2. slot \in 1..Len(TimerGroupWidgets) /\ Len(TimerGroupWidgets) \in Nat
  <2>1. Len(TimerGroupWidgets) \in Nat /\ DOMAIN TimerGroupWidgets = 1..Len(TimerGroupWidgets)
    BY TablesFacts DEF GInv, GroupTypeOK
  <2>2. WalkFrom(widget) \in SUBSET (1..Len(TimerGroupWidgets))
    BY <2>1 DEF WalkFrom, WithInterval, ActiveSlots
  <2>3. WalkFrom(widget) # {} /\ WalkFrom(widget) \in SUBSET Nat
    BY <2>1, <2>2 DEF GroupUpdate
  <2>4. slot \in WalkFrom(widget)
    BY <1>1, <2>3, FirstSlotIsLeast
  <2> QED BY <2>1, <2>2, <2>4
<1>3. PICK w \in Widgets : w = TimerGroupWidgets[slot].widget
  BY <1>2, TablesFacts
<1>4. /\ UNCHANGED <<clock, pc, timer, now, delay, setback, reused, interval, pending>>
      /\ pc = "call" /\ widget' = slot + 1
      /\ updates' = [updates EXCEPT ![w] = @ + 1]
      /\ \/ SetTables(Retired(Tables, slot))
         \/ \E i \in Asks(w) : SetTables(Retired(AddWidget(Tables, w, i, TRUE), slot))
  BY <1>1, <1>3 DEF GroupUpdate
<1>5. PICK q \in Bundle, i \in Intervals : /\ Grown(Tables, q, i) /\ slot \in DOMAIN q.widgets
                                           /\ SetTables(Retired(q, slot))
  <2>0. /\ TypeOK /\ Tables \in Bundle /\ Len(Tables.groups) <= MaxGroups
        /\ Tables.widgets = TimerGroupWidgets /\ Len(Tables.groups) \in Nat
    BY TablesFacts DEF GInv, IInv
  <2>1. CASE SetTables(Retired(Tables, slot))
    <3>1. PICK i \in Intervals : TRUE
      <4>1. TimerGroupWidgets[slot] \in GroupWidget
        BY <1>2, ElementOfSeq DEF GInv, GroupTypeOK
      <4>2. TimerGroupWidgets[slot].interval \in Intervals
        BY <4>1 DEF GroupWidget
      <4> QED BY <4>2
    <3>2. Grown(Tables, Tables, i)
      BY <2>0 DEF Grown
    <3>3. slot \in DOMAIN Tables.widgets
      BY <1>2, <2>0, TablesFacts
    <3> QED BY <2>0, <2>1, <3>2, <3>3
  <2>2. CASE \E i \in Asks(w) : SetTables(Retired(AddWidget(Tables, w, i, TRUE), slot))
    <3>1. PICK i \in Intervals : SetTables(Retired(AddWidget(Tables, w, i, TRUE), slot))
      BY <2>2, AsksIntervals
    <3>2. PICK q : q = AddWidget(Tables, w, i, TRUE)
      OBVIOUS
    <3>3. Grown(Tables, q, i) /\ Len(Tables.widgets) <= Len(q.widgets)
      BY <2>0, <3>2, AddWidgetGrows
    <3>4. q.widgets \in Seq(GroupWidget)
      BY <3>3 DEF Grown, Bundle
    <3>5. DOMAIN q.widgets = 1..Len(q.widgets) /\ Len(q.widgets) \in Nat
      BY <3>4
    <3>6. slot \in DOMAIN q.widgets
      BY <1>2, <2>0, <3>3, <3>5
    <3>7. q \in Bundle
      BY <3>3 DEF Grown
    <3> QED BY <3>1, <3>2, <3>3, <3>6, <3>7
  <2> QED BY <1>4, <2>1, <2>2
<1>6. PICK r : r = Retired(q, slot)
  OBVIOUS
<1>7. SameQueue(q, r)
  BY <1>5, <1>6, RetiredKeepsQueue
<1>8. /\ Timers' = q.timers /\ TimerGroups' = r.groups /\ TimerGroupWidgets' = r.widgets
      /\ r \in Bundle /\ Len(r.groups) = Len(q.groups)
  BY <1>5, <1>6, <1>7 DEF SetTables, SameQueue
<1>9. [Next]_vars
  BY <1>4, <1>5, <1>8, GrownIsQueueStep
<1>10. IInv'
  BY <1>9, NextKeepsIInv DEF GInv
<1>11. HandlersExist'
  BY <1>5, <1>8, GrownKeepsHandlers
<1>12. GroupTypeOK'
  <2>1. updates' \in [Widgets -> Nat]
    BY <1>3, <1>4 DEF GInv, GroupTypeOK
  <2>2. widget' \in Nat
    BY <1>2, <1>4
  <2>3. Len(q.groups) <= MaxGroups
    BY <1>5 DEF Grown
  <2>4. /\ TimerGroups' \in Seq(Group) /\ TimerGroupWidgets' \in Seq(GroupWidget)
        /\ Len(TimerGroups') <= MaxGroups
    BY <1>8, <2>3 DEF Bundle
  <2> QED BY <1>4, <1>10, <2>1, <2>2, <2>4 DEF GInv, GroupTypeOK, IInv
<1> QED BY <1>9, <1>10, <1>11, <1>12 DEF GInv

\* The scan and the skew correction of timer_process leave the handlers alone.
LEMMA LoopKeepsHandlers ==
    ASSUME GInv, Loop \/ Tick \/ Stopped, UNCHANGED TimerGroups
    PROVE  HandlersExist'
<1>1. /\ Timers \in Seq(Timer) /\ DOMAIN Timers = 1..Len(Timers) /\ Len(Timers) \in Nat
      /\ \A j \in 1..Len(Timers) : Timers[j] \in Timer
      /\ \A j \in 1..Len(Timers) : Timers[j].handler \in 1..Len(TimerGroups)
  BY SlotFields DEF GInv, IInv, TypeOK, HandlersExist
<1>2. CASE Timers' = Timers
  BY <1>1, <1>2 DEF HandlersExist
<1>3. CASE ProcessReturn
  <2>1. timer \in 1..Len(Timers)
    BY <1>1, <1>3 DEF GInv, IInv, TypeOK, ProcessReturn
  <2>2. Timers' = [Timers EXCEPT ![timer] = AfterCall(Timers[timer])]
    BY <1>3 DEF ProcessReturn
  <2>3. AfterCall(Timers[timer]).handler = Timers[timer].handler
    <3>1. Timers[timer] \in Timer
      BY <1>1, <2>1
    <3> QED BY <3>1 DEF AfterCall, Timer
  <2>4. PICK t : t = AfterCall(Timers[timer])
    OBVIOUS
  <2>5. \A j \in 1..Len(Timers) : Timers'[j] = IF j = timer THEN t ELSE Timers[j]
    BY <1>1, <2>1, <2>2, <2>4
  <2>6. Len(Timers') = Len(Timers)
    BY <1>1, <2>2
  <2> QED BY <1>1, <2>3, <2>4, <2>5, <2>6 DEF HandlersExist
<1>4. CASE ProcessSelect /\ Timers' # Timers
  <2>1. PICK skew \in Int : Timers' = Unskewed(skew)
    <3>1. ActiveSlots(Timers) # {}
      BY <1>4 DEF ProcessSelect
    <3>2. NextTimer \in 1..Len(Timers)
      <4>1. IInv
        BY DEF GInv
      <4>2. TypeOK
        BY <4>1 DEF IInv
      <4> QED BY <3>1, <4>1, <4>2, NextTimerIsFirst, SlotFields
    <3>3. PICK next : next = Timers[NextTimer]
      OBVIOUS
    <3>4. next.when \in Int /\ next.interval \in Int /\ clock \in Int
      BY <3>2, <3>3, SlotFields DEF GInv, IInv, TypeOK
    <3>5. Skewed(next) /\ Timers' = Unskewed(TimeDifference(next) - next.interval)
      BY <1>4, <3>1, <3>3 DEF ProcessSelect
    <3>6. TimeDifference(next) \in Int
      <4>1. next.when - clock \in Nat
        BY <3>4, <3>5 DEF Skewed
      <4> QED BY <4>1, WrapsDown DEF TimeDifference
    <3> QED BY <3>4, <3>5, <3>6
  <2>2. Len(Timers') = Len(Timers)
    BY <2>1, UnskewedShape DEF GInv, IInv
  <2>3. \A j \in 1..Len(Timers) : Timers'[j].handler = Timers[j].handler
    <3>1. \A t \in Timer : [t EXCEPT !.when = @ - skew].handler = t.handler
      BY DEF Timer
    <3>2. \A j \in 1..Len(Timers) :
             Timers'[j] = IF Timers[j].active THEN [Timers[j] EXCEPT !.when = @ - skew]
                                             ELSE Timers[j]
      BY <1>1, <2>1 DEF Unskewed
    <3> QED BY <1>1, <3>1, <3>2
  <2> QED BY <1>1, <2>2, <2>3 DEF HandlersExist
<1>5. Timers' = Timers \/ ProcessReturn \/ ProcessSelect
  BY DEF Loop, ProcessStart, ProcessCall, PollTimeout, PollReady, Tick, Stopped, vars
<1> QED BY <1>2, <1>3, <1>4, <1>5

\* Steps of the main loop, and of time.
LEMMA LoopStep ==
    ASSUME GInv, GroupReturn \/ MainLoop \/ Time \/ (Stopped /\ UNCHANGED groupVars)
    PROVE  [Next]_vars /\ GInv'
<1>1. Loop \/ Tick \/ Stopped
  BY DEF GroupReturn, MainLoop, Time, Loop
<1>2. [Next]_vars
  BY <1>1 DEF Next
<1>3. IInv'
  BY <1>2, NextKeepsIInv DEF GInv
<1>4. UNCHANGED <<TimerGroups, TimerGroupWidgets, pending>>
  BY DEF GroupReturn, MainLoop, Time, groupVars
<1>5. HandlersExist'
  BY <1>1, <1>4, LoopKeepsHandlers
<1>6. GroupTypeOK'
  <2>1. CASE GroupReturn
    <3>1. widget' = 0 /\ interval' = -1 /\ updates' = [w \in Widgets |-> 0]
      BY <2>1 DEF GroupReturn
    <3> QED BY <1>3, <1>4, <3>1 DEF GInv, GroupTypeOK, IInv
  <2>2. CASE MainLoop \/ Time \/ (Stopped /\ UNCHANGED groupVars)
    <3>1. UNCHANGED <<widget, interval, updates>>
      BY <2>2 DEF MainLoop, Time, groupVars
    <3>2. pc = "call" => pc' = "call"
      BY <2>2 DEF MainLoop, Time, ProcessStart, ProcessCall, ProcessSelect, PollTimeout,
                  PollReady, Tick, Stopped, vars
    <3> QED BY <1>3, <1>4, <3>1, <3>2 DEF GInv, GroupTypeOK, IInv
  <2> QED BY <2>1, <2>2
<1> QED BY <1>2, <1>3, <1>5, <1>6 DEF GInv

\* Every step is a step of the queue or leaves it alone, and keeps the invariant.
LEMMA GroupStep ==
    ASSUME GInv, [GroupNext]_allVars
    PROVE  [Next]_vars /\ GInv'
<1>1. CASE UNCHANGED allVars
  <2>1. UNCHANGED vars /\ UNCHANGED groupVars
    BY <1>1 DEF allVars
  <2>2. IInv'
    BY <2>1, NextKeepsIInv DEF GInv
  <2>3. GroupTypeOK' /\ HandlersExist'
    BY <2>1, <2>2 DEF GInv, GroupTypeOK, HandlersExist, IInv, vars, groupVars
  <2> QED BY <2>1, <2>2, <2>3 DEF GInv
<1>2. CASE GroupNext
  BY <1>2, StartUpStep, GroupEnterStep, GroupUpdateStep, LoopStep DEF GroupNext
<1> QED BY <1>1, <1>2

\* Initially all tables are empty.
LEMMA GroupInitGInv ==
    ASSUME GroupInit
    PROVE  Init /\ GInv
<1>1. /\ Init /\ TimerGroups = <<>> /\ TimerGroupWidgets = <<>> /\ widget = 0
      /\ interval = -1 /\ pending = Widgets /\ updates = [w \in Widgets |-> 0]
  BY DEF GroupInit
<1>2. IInv
  BY <1>1, InitIInv
<1>3. HandlersExist
  <2>1. Timers = <<>>
    BY <1>1 DEF Init
  <2> QED BY <2>1 DEF HandlersExist
<1>4. GroupTypeOK
  <2>1. TypeOK
    BY <1>2 DEF IInv
  <2>2. TimerGroups \in Seq(Group) /\ Len(TimerGroups) <= MaxGroups
    BY <1>1, GroupBoundsAssumption
  <2>3. TimerGroupWidgets \in Seq(GroupWidget)
    BY <1>1
  <2>4. widget \in Nat /\ ~(widget > 0) /\ interval \in {-1}
    BY <1>1
  <2>5. pending \subseteq Widgets /\ updates \in [Widgets -> Nat]
    BY <1>1
  <2> QED BY <2>1, <2>2, <2>3, <2>4, <2>5 DEF GroupTypeOK
<1> QED BY <1>1, <1>2, <1>3, <1>4 DEF GInv

-----------------------------------------------------------------------------
(* Which groups the tables hold. *)

\* No two groups have the same interval.
Apart(groups) ==
    \A g, h \in ActiveSlots(groups) : groups[g].interval = groups[h].interval => g = h

\* There is a group of interval i.
Home(groups, i) == \E g \in ActiveSlots(groups) : groups[g].interval = i

\* Every registered widget has a group.
Homed(groups, widgets) ==
    \A j \in ActiveSlots(widgets) : Home(groups, widgets[j].interval)

\* Group g of interval i has a generic timer, one that is never retired.
LinkedTo(timers, g, i) ==
    \E j \in ActiveSlots(timers) : /\ timers[j].handler = g
                                   /\ timers[j].interval = i
                                   /\ ~timers[j].one_shot
Linked(timers, groups) ==
    \A g \in ActiveSlots(groups) : LinkedTo(timers, g, groups[g].interval)

\* No widget is registered twice, slot aside.
OnceBeside(T, slot) ==
    \A j, k \in ActiveSlots(T) \ {slot} : T[j].widget = T[k].widget => j = k

\* Every group has a widget.
Peopled(groups, widgets) ==
    \A g \in ActiveSlots(groups) :
        \E j \in ActiveSlots(widgets) : widgets[j].interval = groups[g].interval

\* The slot of a rearming widget is a one-shot, and that of a widget whose init has still
\* to run is none.
Marked(T, waiting) ==
    \A j \in ActiveSlots(T) : /\ T[j].widget \in Rearming => T[j].one_shot
                              /\ T[j].widget \notin waiting

\* An entry that is added is active, and so is what was.
LEMMA FilledActive ==
    ASSUME NEW E, NEW T \in Seq(E), NEW e, e.active, NEW P, NEW k, FilledAt(T, e, P, k, E)
    PROVE  /\ ActiveSlots(P) = ActiveSlots(T) \cup {k} /\ k \notin ActiveSlots(T) /\ P[k] = e
           /\ \A j \in ActiveSlots(T) : P[j] = T[j]
<1>1. /\ Len(T) \in Nat /\ Len(P) \in Nat /\ DOMAIN T = 1..Len(T) /\ DOMAIN P = 1..Len(P)
      /\ Len(T) <= Len(P)
  BY DEF FilledAt
<1>2. \A j \in 1..Len(T) : j \in 1..Len(P)
  BY <1>1
<1> QED BY <1>1, <1>2 DEF FilledAt, ActiveSlots

\* No slot before the one that an entry is added in is inactive.
LEMMA PlaceIsFirst ==
    ASSUME NEW E, NEW T \in Seq(E)
    PROVE  \A j \in Nat \ {0} : j \notin ActiveSlots(T) => PlaceAt(T) <= j
<1> SUFFICES ASSUME NEW j \in Nat \ {0}, j \notin ActiveSlots(T) PROVE PlaceAt(T) <= j
  OBVIOUS
<1>1. DOMAIN T = 1..Len(T) /\ Len(T) \in Nat /\ FreeSlots(T) \in SUBSET (1..Len(T))
  BY SlotsOfTable
<1>2. CASE j > Len(T)
  BY <1>1, <1>2, PlaceIsNotActive
<1>3. CASE j <= Len(T)
  <2>1. j \in FreeSlots(T)
    BY <1>1, <1>3 DEF FreeSlots, ActiveSlots
  <2>2. FreeSlots(T) \in SUBSET Nat
    BY <1>1
  <2> QED BY <2>1, <2>2, FirstSlotIsLeast DEF PlaceAt
<1> QED BY <1>1, <1>2, <1>3

\* timer_add_group: the group is there if it is granted, and then as a group of its own
\* interval, with a timer if it is new.
LEMMA AddGroupLinks ==
    ASSUME TypeOK, NEW q \in Bundle, Len(q.groups) <= MaxGroups, NEW i \in Intervals,
           NEW r, r = AddGroup(q, i)
    PROVE  /\ r.widgets = q.widgets
           /\ \A g \in ActiveSlots(q.groups) : /\ g \in ActiveSlots(r.groups)
                                               /\ r.groups[g] = q.groups[g]
           /\ \A g \in ActiveSlots(r.groups) : g \in ActiveSlots(q.groups) \/ r.groups[g].interval = i
           /\ Apart(q.groups) => Apart(r.groups)
           /\ GroupGranted(q, i) => Home(r.groups, i)
           /\ Linked(q.timers, q.groups) /\ GroupGranted(q, i) => Linked(r.timers, r.groups)
<1>1. CASE GroupExists(q, i)
  <2>1. r = q
    BY <1>1 DEF AddGroup
  <2> QED BY <1>1, <2>1 DEF GroupExists, WithInterval, Home
<1>2. CASE ~GroupExists(q, i) /\ ~HasRoom(q.groups, MaxGroups)
  BY <1>2 DEF AddGroup, GroupGranted
<1>3. CASE ~GroupExists(q, i) /\ HasRoom(q.groups, MaxGroups)
  <2> DEFINE e == [interval |-> i, active |-> TRUE]
             q1 == [q EXCEPT !.groups = PlaceSlot(@, e)]
             g == PlaceAt(q.groups)
  <2>1. PICK grp : grp = PlaceSlot(q.groups, e)
    OBVIOUS
  <2>2. e \in Group /\ q.groups \in Seq(Group) /\ q.timers \in Seq(Timer) /\ MaxGroups \in Nat
    BY GroupBoundsAssumption DEF Group, Bundle
  <2>3. FilledAt(q.groups, e, grp, g, Group) /\ Len(grp) <= MaxGroups /\ g \in 1..Len(grp)
    BY <1>3, <2>1, <2>2, PlaceSlotKeepsTable, PlaceSlotFillsOne
  <2>4. /\ ActiveSlots(grp) = ActiveSlots(q.groups) \cup {g} /\ g \notin ActiveSlots(q.groups)
        /\ grp[g].interval = i
        /\ \A h \in ActiveSlots(q.groups) : grp[h] = q.groups[h] /\ grp[h].interval # i
    <3>1. e.active /\ e.interval = i
      OBVIOUS
    <3> HIDE DEF e, g
    <3>2. /\ ActiveSlots(grp) = ActiveSlots(q.groups) \cup {g} /\ g \notin ActiveSlots(q.groups)
          /\ grp[g] = e /\ \A h \in ActiveSlots(q.groups) : grp[h] = q.groups[h]
      BY <2>2, <2>3, <3>1, FilledActive
    <3>3. \A h \in ActiveSlots(q.groups) : q.groups[h].interval # i
      BY <1>3 DEF GroupExists, WithInterval
    <3> QED BY <3>1, <3>2, <3>3
  <2>5. q1 = [timers |-> q.timers, groups |-> grp, widgets |-> q.widgets]
    BY <2>1 DEF Bundle
  <2>6. r = IF HasRoom(q.timers, MaxTimers) THEN Link(q1, g, i) ELSE q1
    BY <1>3 DEF AddGroup
  <2> HIDE DEF q1, e
  <2>7. r.groups = grp /\ r.widgets = q.widgets
    BY <2>5, <2>6 DEF Link
  <2>8. Linked(q.timers, q.groups) /\ GroupGranted(q, i) => Linked(r.timers, r.groups)
    <3> SUFFICES ASSUME Linked(q.timers, q.groups), GroupGranted(q, i) PROVE Linked(r.timers, r.groups)
      OBVIOUS
    <3>1. PICK t : t = NewTimer(g, i, FALSE)
      OBVIOUS
    <3>2. g \in Handlers
      BY <2>2, <2>3, GroupHandlersAssumption
    <3>3. t \in Timer /\ t.active /\ t.one_shot = FALSE /\ t.interval = i
      <4>1. t.one_shot = FALSE /\ t.interval = i /\ t.active
        BY <3>1 DEF NewTimer
      <4> QED BY <3>1, <3>2, <4>1, NewTimerIsNear
    <3>4. t.handler = g
      BY <3>1 DEF NewTimer
    <3>5. PICK tim : tim = PlaceSlot(q.timers, t)
      OBVIOUS
    <3>6. r.timers = tim
      BY <1>3, <2>5, <2>6, <3>1, <3>5 DEF Link, GroupGranted
    <3>7. PICK k : FilledAt(q.timers, t, tim, k, Timer)
      BY <2>2, <3>3, <3>5, PlaceSlotFillsOne
    <3>8. /\ ActiveSlots(tim) = ActiveSlots(q.timers) \cup {k} /\ tim[k] = t
          /\ \A j \in ActiveSlots(q.timers) : tim[j] = q.timers[j]
      BY <2>2, <3>3, <3>7, FilledActive
    <3>9. ASSUME NEW h \in ActiveSlots(grp) PROVE LinkedTo(tim, h, grp[h].interval)
      <4> HIDE DEF g
      <4>1. CASE h = g
        BY <2>4, <2>7, <3>3, <3>4, <3>6, <3>8, <4>1 DEF LinkedTo
      <4>2. CASE h \in ActiveSlots(q.groups)
        <5>1. LinkedTo(q.timers, h, q.groups[h].interval) /\ grp[h] = q.groups[h]
          BY <2>4, <4>2 DEF Linked
        <5> QED BY <2>7, <3>6, <3>8, <5>1 DEF LinkedTo
      <4> QED BY <2>4, <4>1, <4>2
    <3>10. Linked(tim, grp)
      BY <3>9 DEF Linked
    <3> QED BY <2>7, <3>6, <3>10
  <2> HIDE DEF g
  <2>9. Apart(q.groups) => Apart(r.groups)
    BY <2>4, <2>7 DEF Apart
  <2>10. Home(r.groups, i)
    BY <2>4, <2>7 DEF Home
  <2>11. /\ \A h \in ActiveSlots(q.groups) : h \in ActiveSlots(r.groups) /\ r.groups[h] = q.groups[h]
         /\ \A h \in ActiveSlots(r.groups) : h \in ActiveSlots(q.groups) \/ r.groups[h].interval = i
    BY <2>4, <2>7
  <2> QED BY <2>7, <2>8, <2>9, <2>10, <2>11
<1> QED BY <1>1, <1>2, <1>3

\* Tables r are q after timer_add_widget, for widget w at interval i: at most one slot more
\* is active, the first that was not.
Added(q, r, w, i, once) ==
    /\ Apart(r.groups) /\ Homed(r.groups, r.widgets)
    /\ Linked(q.timers, q.groups) /\ GroupGranted(q, i) => Linked(r.timers, r.groups)
    /\ \/ r.widgets = q.widgets
       \/ \E k : /\ ActiveSlots(r.widgets) = ActiveSlots(q.widgets) \cup {k}
                 /\ k \notin ActiveSlots(q.widgets)
                 /\ \A j \in Nat \ {0} : j \notin ActiveSlots(q.widgets) => k <= j
                 /\ r.widgets[k].widget = w /\ r.widgets[k].one_shot = once
                 /\ \A j \in ActiveSlots(q.widgets) : r.widgets[j] = q.widgets[j]
    /\ Peopled(q.groups, q.widgets) /\ GroupGranted(q, i) /\ HasRoom(q.widgets, MaxWidgets)
           => Peopled(r.groups, r.widgets)

\* timer_add_widget does no more.
LEMMA AddWidgetGroups ==
    ASSUME TypeOK, NEW q \in Bundle, Len(q.groups) <= MaxGroups,
           NEW w \in Widgets, NEW i \in Intervals, NEW once \in BOOLEAN,
           Apart(q.groups), Homed(q.groups, q.widgets), NEW r, r = AddWidget(q, w, i, once)
    PROVE  Added(q, r, w, i, once)
<1>1. PICK q1 : q1 = AddGroup(q, i)
  OBVIOUS
<1>2. /\ q1.widgets = q.widgets
      /\ \A g \in ActiveSlots(q.groups) : g \in ActiveSlots(q1.groups) /\ q1.groups[g] = q.groups[g]
      /\ Apart(q1.groups)
      /\ \A g \in ActiveSlots(q1.groups) : g \in ActiveSlots(q.groups) \/ q1.groups[g].interval = i
      /\ GroupGranted(q, i) => Home(q1.groups, i)
      /\ Linked(q.timers, q.groups) /\ GroupGranted(q, i) => Linked(q1.timers, q1.groups)
  BY <1>1, AddGroupLinks
<1>3. Homed(q1.groups, q1.widgets)
  BY <1>2 DEF Homed, Home
<1>4. CASE ~(GroupGranted(q, i) /\ HasRoom(q.widgets, MaxWidgets))
  <2>1. r = q1
    BY <1>1, <1>4 DEF AddWidget
  <2> QED BY <1>2, <1>3, <1>4, <2>1 DEF Added
<1>5. CASE GroupGranted(q, i) /\ HasRoom(q.widgets, MaxWidgets)
  <2> DEFINE e == [widget |-> w, interval |-> i, one_shot |-> once, active |-> TRUE]
  <2>1. PICK wid : wid = PlaceSlot(q.widgets, e)
    OBVIOUS
  <2>2. q1 \in Bundle
    BY <1>1, AddGroupGrows DEF Grown
  <2>3. r.timers = q1.timers /\ r.groups = q1.groups /\ r.widgets = wid
    BY <1>1, <1>2, <1>5, <2>1, <2>2 DEF AddWidget, Bundle
  <2>4. e \in GroupWidget /\ q.widgets \in Seq(GroupWidget)
    BY DEF GroupWidget, Bundle
  <2>5. /\ e.active /\ e.widget = w /\ e.interval = i /\ e.one_shot = once
    OBVIOUS
  <2> HIDE DEF e
  <2>6. PICK k : /\ FilledAt(q.widgets, e, wid, k, GroupWidget)
                 /\ \A j \in Nat \ {0} : j \notin ActiveSlots(q.widgets) => k <= j
    BY <2>1, <2>4, PlaceSlotFillsOne, PlaceIsFirst
  <2>7. /\ ActiveSlots(wid) = ActiveSlots(q.widgets) \cup {k}
        /\ k \notin ActiveSlots(q.widgets) /\ wid[k] = e
        /\ \A j \in ActiveSlots(q.widgets) : wid[j] = q.widgets[j]
    BY <2>4, <2>5, <2>6, FilledActive
  <2>8. Apart(r.groups)
    BY <1>2, <2>3
  <2>9. Homed(r.groups, r.widgets)
    <3> SUFFICES ASSUME NEW j \in ActiveSlots(wid)
                 PROVE  Home(q1.groups, wid[j].interval)
      BY <2>3 DEF Homed
    <3>1. CASE j = k
      BY <1>2, <1>5, <2>5, <2>7, <3>1
    <3>2. CASE j \in ActiveSlots(q.widgets)
      BY <1>2, <1>3, <2>7, <3>2 DEF Homed
    <3> QED BY <2>7, <3>1, <3>2
  <2>10. Linked(q.timers, q.groups) /\ GroupGranted(q, i) => Linked(r.timers, r.groups)
    BY <1>2, <2>3
  <2>11. Peopled(q.groups, q.widgets) => Peopled(r.groups, r.widgets)
    <3> SUFFICES ASSUME Peopled(q.groups, q.widgets) PROVE Peopled(q1.groups, wid)
      BY <2>3
    <3> SUFFICES ASSUME NEW g \in ActiveSlots(q1.groups)
                 PROVE  \E j \in ActiveSlots(wid) : wid[j].interval = q1.groups[g].interval
      BY DEF Peopled
    <3>1. CASE g \in ActiveSlots(q.groups)
      <4>1. PICK j \in ActiveSlots(q.widgets) : q.widgets[j].interval = q.groups[g].interval
        BY <3>1 DEF Peopled
      <4> QED BY <1>2, <2>7, <3>1, <4>1
    <3>2. CASE q1.groups[g].interval = i
      BY <2>5, <2>7, <3>2
    <3> QED BY <1>2, <3>1, <3>2
  <2> QED BY <2>3, <2>5, <2>6, <2>7, <2>8, <2>9, <2>10, <2>11 DEF Added
<1> QED BY <1>4, <1>5

\* Marking a set of slots inactive leaves the others.
LEMMA RetireSlotsActive ==
    ASSUME NEW E, NEW T \in Seq(E), NEW S, \A e \in E : e = [e EXCEPT !.active = e.active]
                                                        /\ [e EXCEPT !.active = FALSE].active = FALSE
    PROVE  /\ ActiveSlots(RetireSlots(T, S)) = ActiveSlots(T) \ S
           /\ \A j \in ActiveSlots(T) \ S : RetireSlots(T, S)[j] = T[j]
<1>1. DOMAIN T = 1..Len(T) /\ \A j \in 1..Len(T) : T[j] \in E
  BY ElementOfSeq
<1>2. DOMAIN RetireSlots(T, S) = 1..Len(T)
  BY <1>1 DEF RetireSlots
<1>3. \A j \in 1..Len(T) : /\ j \in S => ~RetireSlots(T, S)[j].active
                           /\ j \notin S => RetireSlots(T, S)[j] = T[j]
  BY <1>1 DEF RetireSlots
<1> QED BY <1>1, <1>2, <1>3 DEF ActiveSlots

\* A one-shot widget gives its slot back, and the group of the interval goes with its last
\* widget, so that none is left without its group.
LEMMA RetiredGroups ==
    ASSUME NEW q \in Bundle, NEW slot \in ActiveSlots(q.widgets), Apart(q.groups), Homed(q.groups, q.widgets),
           NEW r, r = Retired(q, slot)
    PROVE  /\ Apart(r.groups) /\ Homed(r.groups, r.widgets) /\ (Linked(q.timers, q.groups) => Linked(r.timers, r.groups))
           /\ ActiveSlots(r.widgets) \subseteq ActiveSlots(q.widgets)
           /\ q.widgets[slot].one_shot => slot \notin ActiveSlots(r.widgets)
           /\ \A j \in ActiveSlots(r.widgets) : r.widgets[j] = q.widgets[j]
           /\ Peopled(q.groups, q.widgets) /\ q.widgets[slot].interval = interval
                  => Peopled(r.groups, r.widgets)
<1>1. CASE ~q.widgets[slot].one_shot
  <2>1. r = q
    BY <1>1 DEF Retired
  <2> QED BY <1>1, <2>1
<1>2. CASE q.widgets[slot].one_shot
  <2>1. PICK wid : wid = RetireSlot(q.widgets, slot)
    OBVIOUS
  <2>2. /\ q.widgets \in Seq(GroupWidget) /\ q.groups \in Seq(Group)
        /\ slot \in 1..Len(q.widgets) /\ DOMAIN q.widgets = 1..Len(q.widgets)
    BY DEF Bundle, ActiveSlots
  <2>3. wid = [q.widgets EXCEPT ![slot] = [q.widgets[slot] EXCEPT !.active = FALSE]]
    BY <2>1 DEF RetireSlot
  <2>4. q.widgets[slot] \in GroupWidget
    BY <2>2, ElementOfSeq
  <2>5. [q.widgets[slot] EXCEPT !.active = FALSE] \in GroupWidget
        /\ [q.widgets[slot] EXCEPT !.active = FALSE].active = FALSE
    BY <2>4 DEF GroupWidget
  <2>6. /\ ActiveSlots(wid) = ActiveSlots(q.widgets) \ {slot} /\ wid \in Seq(GroupWidget)
        /\ \A j \in ActiveSlots(wid) : wid[j] = q.widgets[j]
    <3>1. PICK e \in GroupWidget : e = [q.widgets[slot] EXCEPT !.active = FALSE]
      BY <2>5
    <3>2. wid = [q.widgets EXCEPT ![slot] = e] /\ e.active = FALSE
      BY <2>3, <2>5, <3>1
    <3>3. /\ wid \in Seq(GroupWidget) /\ DOMAIN wid = 1..Len(q.widgets)
          /\ \A j \in 1..Len(q.widgets) : wid[j] = IF j = slot THEN e ELSE q.widgets[j]
      BY <2>2, <3>2, ExceptSeq
    <3> QED BY <2>2, <3>2, <3>3 DEF ActiveSlots
  <2>7. PICK q1 : q1 = [q EXCEPT !.widgets = wid]
    OBVIOUS
  <2>8. q1.timers = q.timers /\ q1.groups = q.groups /\ q1.widgets = wid
    BY <2>7 DEF Bundle
  <2>9. r = RemoveEmptyGroup(q1, interval)
    BY <1>2, <2>1, <2>7 DEF Retired
  <2>10. Apart(q1.groups) /\ Homed(q1.groups, q1.widgets) /\ (Linked(q.timers, q.groups) => Linked(q1.timers, q1.groups))
    BY <2>6, <2>8 DEF Homed
  <2>11. CASE WithInterval(wid, interval) # {}
    <3>1. r = q1
      BY <2>8, <2>9, <2>11 DEF RemoveEmptyGroup
    <3>2. ASSUME Peopled(q.groups, q.widgets), q.widgets[slot].interval = interval
          PROVE  Peopled(r.groups, r.widgets)
      <4> SUFFICES ASSUME NEW g \in ActiveSlots(q.groups)
                   PROVE  \E j \in ActiveSlots(wid) : wid[j].interval = q.groups[g].interval
        BY <2>8, <3>1 DEF Peopled
      <4>1. PICK j \in ActiveSlots(q.widgets) : q.widgets[j].interval = q.groups[g].interval
        BY <3>2 DEF Peopled
      <4>2. CASE j = slot
        BY <2>11, <3>2, <4>1, <4>2 DEF WithInterval
      <4>3. CASE j # slot
        BY <2>6, <4>1, <4>3
      <4> QED BY <4>2, <4>3
    <3> QED BY <2>6, <2>8, <2>10, <3>1, <3>2
  <2>12. CASE WithInterval(wid, interval) = {}
    <3> DEFINE G == FirstWith(q.groups, interval)
    <3>1. PICK rw, rg : rw = RetireSlots(wid, {}) /\ rg = RetireSlots(q.groups, G)
      OBVIOUS
    <3>2. r.timers = q.timers /\ r.groups = rg /\ r.widgets = rw
      <4>1. r = [q1 EXCEPT !.widgets = rw, !.groups = rg]
        BY <2>8, <2>9, <2>12, <3>1 DEF RemoveEmptyGroup, RemoveGroup
      <4>2. q1 \in Bundle
        BY <2>6, <2>7 DEF Bundle
      <4> QED BY <2>8, <4>1, <4>2 DEF Bundle
    <3>3. \A h \in G : q.groups[h].interval = interval
      BY DEF FirstWith, WithInterval
    <3> HIDE DEF G
    <3>4. ActiveSlots(rw) = ActiveSlots(wid) /\ \A j \in ActiveSlots(wid) : rw[j] = wid[j]
      <4>1. \A e \in GroupWidget : e = [e EXCEPT !.active = e.active]
                                   /\ [e EXCEPT !.active = FALSE].active = FALSE
        BY DEF GroupWidget
      <4>2. /\ ActiveSlots(rw) = ActiveSlots(wid) \ {}
            /\ \A j \in ActiveSlots(wid) \ {} : rw[j] = wid[j]
        BY <2>6, <3>1, <4>1, RetireSlotsActive
      <4> QED BY <4>2
    <3>5. /\ ActiveSlots(rg) = ActiveSlots(q.groups) \ G
          /\ \A h \in ActiveSlots(q.groups) \ G : rg[h] = q.groups[h]
      <4>1. \A e \in Group : e = [e EXCEPT !.active = e.active]
                             /\ [e EXCEPT !.active = FALSE].active = FALSE
        BY DEF Group
      <4> QED BY <2>2, <3>1, <4>1, RetireSlotsActive
    <3>6. Apart(r.groups)
      BY <3>2, <3>5 DEF Apart
    <3>7. Linked(q.timers, q.groups) => Linked(r.timers, r.groups)
      BY <3>2, <3>5 DEF Linked
    <3>8. Homed(r.groups, r.widgets)
      <4> SUFFICES ASSUME NEW j \in ActiveSlots(wid)
                   PROVE  Home(rg, wid[j].interval)
        BY <3>2, <3>4 DEF Homed
      <4>1. PICK g \in ActiveSlots(q.groups) : q.groups[g].interval = wid[j].interval
        BY <2>8, <2>10 DEF Homed, Home
      <4>2. wid[j].interval # interval
        BY <2>12 DEF WithInterval
      <4>3. g \notin G
        BY <3>3, <4>1, <4>2
      <4> QED BY <3>5, <4>1, <4>3 DEF Home
    <3>9. ASSUME Peopled(q.groups, q.widgets), q.widgets[slot].interval = interval
          PROVE  Peopled(r.groups, r.widgets)
      <4> SUFFICES Peopled(rg, rw)
        BY <3>2
      <4> SUFFICES ASSUME NEW g \in ActiveSlots(rg)
                   PROVE  \E j \in ActiveSlots(rw) : rw[j].interval = rg[g].interval
        BY DEF Peopled
      <4>1. q.groups[g].interval # interval
        <5> SUFFICES ASSUME q.groups[g].interval = interval PROVE g \in G
          BY <3>5
        <5>1. WithInterval(q.groups, interval) = {g}
          BY <3>5 DEF WithInterval, Apart
        <5>2. g \in Nat
          BY <2>2, <3>5 DEF ActiveSlots
        <5> QED BY <3>5, <5>1, <5>2 DEF FirstWith, G
      <4>2. PICK j \in ActiveSlots(q.widgets) : q.widgets[j].interval = q.groups[g].interval
        BY <3>5, <3>9 DEF Peopled
      <4>3. j # slot
        BY <3>9, <4>1, <4>2
      <4> QED BY <2>6, <3>4, <3>5, <4>2, <4>3
    <3> QED BY <2>6, <3>2, <3>4, <3>6, <3>7, <3>8, <3>9
  <2> QED BY <2>11, <2>12
<1> QED BY <1>1, <1>2

\* What the tables hold is kept together with the invariant of before.
GroupsKept ==
    /\ Apart(TimerGroups)
    /\ Homed(TimerGroups, TimerGroupWidgets)
    /\ OnceBeside(TimerGroupWidgets, 0)
    /\ Marked(TimerGroupWidgets, pending)
    /\ Plentiful => /\ Linked(Timers, TimerGroups)
                    /\ Peopled(TimerGroups, TimerGroupWidgets)
GWInv == GInv /\ GroupsKept

\* Of every slot of a table of widgets, 0 is none.
LEMMA WidgetSlots ==
    ASSUME NEW T \in Seq(GroupWidget)
    PROVE  /\ 0 \notin ActiveSlots(T)
           /\ \A j \in ActiveSlots(T) : T[j] \in GroupWidget /\ T[j].widget \in Widgets
<1>1. ActiveSlots(T) \in SUBSET (1..Len(T)) /\ \A j \in 1..Len(T) : T[j] \in GroupWidget
  BY SlotsOfTable, ElementOfSeq
<1> QED BY <1>1 DEF GroupWidget

\* The invariant's parts in terms of the tables.
LEMMA TablesKept ==
    ASSUME GWInv
    PROVE  /\ TypeOK /\ Tables \in Bundle /\ Len(Tables.groups) <= MaxGroups
           /\ Tables.timers = Timers /\ Tables.groups = TimerGroups
           /\ Tables.widgets = TimerGroupWidgets /\ TimerGroupWidgets \in Seq(GroupWidget)
           /\ Apart(Tables.groups) /\ Homed(Tables.groups, Tables.widgets)
           /\ Plentiful => /\ Linked(Tables.timers, Tables.groups)
                           /\ Peopled(Tables.groups, Tables.widgets)
BY TablesFacts DEF GWInv, GInv, IInv, GroupsKept, GroupTypeOK

\* A widget's init registers it for the first time.
LEMMA InitKeepsGroups ==
    ASSUME GWInv, NEW w \in Widgets, WidgetInit(w)
    PROVE  GroupsKept'
<1>1. PICK i \in Asks(w) : SetTables(AddWidget(Tables, w, i, w \notin Periodic))
  BY DEF WidgetInit
<1>2. /\ i \in Intervals
      /\ Plentiful => GroupGranted(Tables, i) /\ HasRoom(TimerGroupWidgets, MaxWidgets)
  BY <1>1, AsksIntervals DEF Asks
<1> DEFINE once == w \notin Periodic
<1>3. PICK r : r = AddWidget(Tables, w, i, once)
  OBVIOUS
<1>4. once \in BOOLEAN /\ (w \in Rearming => once)
  BY KindsAssumption
<1> HIDE DEF once
<1>5. /\ Timers' = r.timers /\ TimerGroups' = r.groups /\ TimerGroupWidgets' = r.widgets
      /\ w \in pending /\ pending' = pending \ {w}
  BY <1>1, <1>3 DEF WidgetInit, SetTables, once
<1>6. /\ TypeOK /\ Tables \in Bundle /\ Len(Tables.groups) <= MaxGroups
      /\ Tables.widgets = TimerGroupWidgets /\ TimerGroupWidgets \in Seq(GroupWidget)
      /\ Apart(Tables.groups) /\ Homed(Tables.groups, Tables.widgets)
      /\ Plentiful => Linked(Tables.timers, Tables.groups) /\ Peopled(Tables.groups, Tables.widgets)
  BY TablesKept
<1>7. /\ Apart(r.groups) /\ Homed(r.groups, r.widgets)
      /\ Linked(Tables.timers, Tables.groups) /\ GroupGranted(Tables, i) => Linked(r.timers, r.groups)
      /\ Plentiful => Peopled(r.groups, r.widgets)
      /\ \/ r.widgets = TimerGroupWidgets
         \/ \E k : /\ ActiveSlots(r.widgets) = ActiveSlots(TimerGroupWidgets) \cup {k}
                   /\ k \notin ActiveSlots(TimerGroupWidgets)
                   /\ r.widgets[k].widget = w /\ r.widgets[k].one_shot = once
                   /\ \A j \in ActiveSlots(TimerGroupWidgets) : r.widgets[j] = TimerGroupWidgets[j]
  <2>1. Added(Tables, r, w, i, once)
    BY <1>2, <1>3, <1>6, <1>4, AddWidgetGroups
  <2> QED BY <1>2, <1>6, <2>1 DEF Added
<1>8. OnceBeside(TimerGroupWidgets, 0) /\ Marked(TimerGroupWidgets, pending)
  BY DEF GWInv, GroupsKept
<1>9. OnceBeside(r.widgets, 0) /\ Marked(r.widgets, pending')
  <2>1. CASE r.widgets = TimerGroupWidgets
    BY <1>5, <1>8, <2>1 DEF Marked
  <2>2. CASE r.widgets # TimerGroupWidgets
    <3>1. PICK k : /\ ActiveSlots(r.widgets) = ActiveSlots(TimerGroupWidgets) \cup {k}
                   /\ k \notin ActiveSlots(TimerGroupWidgets)
                   /\ r.widgets[k].widget = w /\ r.widgets[k].one_shot = once
                   /\ \A j \in ActiveSlots(TimerGroupWidgets) : r.widgets[j] = TimerGroupWidgets[j]
      BY <1>7, <2>2
    <3>2. \A j \in ActiveSlots(TimerGroupWidgets) : r.widgets[j].widget # w
      BY <1>5, <1>8, <3>1 DEF Marked
    <3>3. \A j \in ActiveSlots(TimerGroupWidgets) : j # 0
      BY <1>6, WidgetSlots
    <3>4. OnceBeside(r.widgets, 0)
      <4> SUFFICES ASSUME NEW j \in ActiveSlots(r.widgets), NEW l \in ActiveSlots(r.widgets),
                          r.widgets[j].widget = r.widgets[l].widget
                   PROVE  j = l
        BY DEF OnceBeside
      <4>1. CASE j = k \/ l = k
        BY <3>1, <3>2, <4>1
      <4>2. CASE j # k /\ l # k
        BY <1>8, <3>1, <3>3, <4>2 DEF OnceBeside
      <4> QED BY <4>1, <4>2
    <3>5. w \in Rearming => once
      BY <1>4
    <3>6. Marked(r.widgets, pending')
      <4> SUFFICES ASSUME NEW j \in ActiveSlots(r.widgets)
                   PROVE  /\ r.widgets[j].widget \in Rearming => r.widgets[j].one_shot
                          /\ r.widgets[j].widget \notin pending'
        BY DEF Marked
      <4>1. CASE j = k
        BY <1>5, <3>1, <3>5, <4>1
      <4>2. CASE j # k
        BY <1>5, <1>8, <3>1, <4>2 DEF Marked
      <4> QED BY <4>1, <4>2
    <3> QED BY <3>4, <3>6
  <2> QED BY <2>1, <2>2
<1> QED BY <1>2, <1>5, <1>6, <1>7, <1>9 DEF GroupsKept

\* An update that adds a rearming widget again, which takes its old slot out, leaves it
\* registered once.
LEMMA UpdateKeepsGroups ==
    ASSUME GWInv, GroupUpdate
    PROVE  GroupsKept'
<1>1. PICK slot : slot = FirstSlot(WalkFrom(widget))
  OBVIOUS
<1>2. slot \in ActiveSlots(TimerGroupWidgets) /\ TimerGroupWidgets[slot].interval = interval
  <2>1. TimerGroupWidgets \in Seq(GroupWidget)
    BY TablesKept
  <2>2. WalkFrom(widget) \in SUBSET ActiveSlots(TimerGroupWidgets)
    BY DEF WalkFrom, WithInterval
  <2>3. WalkFrom(widget) # {} /\ WalkFrom(widget) \in SUBSET Nat
    BY <2>1, <2>2, SlotsOfTable DEF GroupUpdate
  <2>4. slot \in WalkFrom(widget)
    BY <1>1, <2>3, FirstSlotIsLeast
  <2> QED BY <2>2, <2>4 DEF WalkFrom, WithInterval
<1>3. PICK w : w = TimerGroupWidgets[slot].widget
  OBVIOUS
<1>4. /\ pending' = pending
      /\ \/ SetTables(Retired(Tables, slot))
         \/ /\ w \in Rearming
            /\ \E i \in Asks(w) : SetTables(Retired(AddWidget(Tables, w, i, TRUE), slot))
  BY <1>1, <1>3 DEF GroupUpdate
<1>5. /\ TypeOK /\ Tables \in Bundle /\ Len(Tables.groups) <= MaxGroups
      /\ Tables.widgets = TimerGroupWidgets /\ TimerGroupWidgets \in Seq(GroupWidget)
      /\ Apart(Tables.groups) /\ Homed(Tables.groups, Tables.widgets)
      /\ Plentiful => Linked(Tables.timers, Tables.groups) /\ Peopled(Tables.groups, Tables.widgets)
  BY TablesKept
<1>6. OnceBeside(TimerGroupWidgets, 0) /\ Marked(TimerGroupWidgets, pending)
  BY DEF GWInv, GroupsKept
<1>7. /\ 0 \notin ActiveSlots(TimerGroupWidgets) /\ w \in Widgets
  BY <1>2, <1>3, <1>5, WidgetSlots
<1>8. PICK q \in Bundle :
         /\ SetTables(Retired(q, slot)) /\ slot \in ActiveSlots(q.widgets)
         /\ Apart(q.groups) /\ Homed(q.groups, q.widgets)
         /\ Plentiful => Linked(q.timers, q.groups) /\ Peopled(q.groups, q.widgets)
         /\ q.widgets[slot].interval = interval
         /\ q.widgets[slot].one_shot => OnceBeside(q.widgets, slot)
         /\ ~q.widgets[slot].one_shot => OnceBeside(q.widgets, 0)
         /\ Marked(q.widgets, pending)
  <2>1. CASE SetTables(Retired(Tables, slot))
    <3>1. OnceBeside(Tables.widgets, slot) /\ OnceBeside(Tables.widgets, 0)
      BY <1>5, <1>6, <1>7 DEF OnceBeside
    <3> QED BY <1>2, <1>5, <1>6, <2>1, <3>1
  <2>2. CASE w \in Rearming /\ \E i \in Asks(w) : SetTables(Retired(AddWidget(Tables, w, i, TRUE), slot))
    <3>1. PICK i \in Asks(w) : SetTables(Retired(AddWidget(Tables, w, i, TRUE), slot))
      BY <2>2
    <3>2. /\ i \in Intervals
          /\ Plentiful => GroupGranted(Tables, i) /\ HasRoom(TimerGroupWidgets, MaxWidgets)
      BY <1>7, <3>1, AsksIntervals DEF Asks
    <3>3. PICK r : r = AddWidget(Tables, w, i, TRUE)
      OBVIOUS
    <3>4. /\ Apart(r.groups) /\ Homed(r.groups, r.widgets)
          /\ Linked(Tables.timers, Tables.groups) /\ GroupGranted(Tables, i) => Linked(r.timers, r.groups)
          /\ Plentiful => Peopled(r.groups, r.widgets)
          /\ \/ r.widgets = TimerGroupWidgets
             \/ \E k : /\ ActiveSlots(r.widgets) = ActiveSlots(TimerGroupWidgets) \cup {k}
                       /\ k \notin ActiveSlots(TimerGroupWidgets)
                       /\ r.widgets[k].widget = w /\ r.widgets[k].one_shot = TRUE
                       /\ \A j \in ActiveSlots(TimerGroupWidgets) : r.widgets[j] = TimerGroupWidgets[j]
      <4>1. TRUE \in BOOLEAN
        OBVIOUS
      <4>2. Added(Tables, r, w, i, TRUE)
        BY <1>5, <1>7, <3>2, <3>3, <4>1, AddWidgetGroups
      <4> QED BY <1>5, <3>2, <4>2 DEF Added
    <3>5. r \in Bundle
      BY <1>5, <1>7, <3>2, <3>3, AddWidgetGrows DEF Grown
    <3>6. /\ slot \in ActiveSlots(r.widgets) /\ r.widgets[slot].one_shot
          /\ r.widgets[slot].interval = interval
          /\ OnceBeside(r.widgets, slot) /\ Marked(r.widgets, pending)
      <4>1. CASE r.widgets = TimerGroupWidgets
        BY <1>2, <1>3, <1>6, <1>7, <2>2, <4>1 DEF Marked, OnceBeside
      <4>2. CASE r.widgets # TimerGroupWidgets
        <5>1. PICK k : /\ ActiveSlots(r.widgets) = ActiveSlots(TimerGroupWidgets) \cup {k}
                       /\ k \notin ActiveSlots(TimerGroupWidgets)
                       /\ r.widgets[k].widget = w /\ r.widgets[k].one_shot = TRUE
                       /\ \A j \in ActiveSlots(TimerGroupWidgets) : r.widgets[j] = TimerGroupWidgets[j]
          BY <3>4, <4>2
        <5>2. /\ slot \in ActiveSlots(r.widgets) /\ r.widgets[slot].one_shot
              /\ r.widgets[slot].interval = interval
          BY <1>2, <1>3, <1>6, <2>2, <5>1 DEF Marked
        <5>3. w \notin pending
          BY <1>2, <1>3, <1>6 DEF Marked
        <5>4. \A j \in ActiveSlots(TimerGroupWidgets) : j # slot => r.widgets[j].widget # w
          BY <1>2, <1>3, <1>6, <1>7, <5>1 DEF OnceBeside
        <5>5. OnceBeside(r.widgets, slot)
          <6> SUFFICES ASSUME NEW j \in ActiveSlots(r.widgets) \ {slot},
                              NEW l \in ActiveSlots(r.widgets) \ {slot},
                              r.widgets[j].widget = r.widgets[l].widget
                       PROVE  j = l
            BY DEF OnceBeside
          <6>1. CASE j = k \/ l = k
            BY <5>1, <5>4, <6>1
          <6>2. CASE j # k /\ l # k
            BY <1>6, <1>7, <5>1, <6>2 DEF OnceBeside
          <6> QED BY <6>1, <6>2
        <5>6. Marked(r.widgets, pending)
          <6> SUFFICES ASSUME NEW j \in ActiveSlots(r.widgets)
                       PROVE  /\ r.widgets[j].widget \in Rearming => r.widgets[j].one_shot
                              /\ r.widgets[j].widget \notin pending
            BY DEF Marked
          <6>1. CASE j = k
            BY <3>3, <5>1, <5>3, <6>1
          <6>2. CASE j # k
            BY <1>6, <5>1, <6>2 DEF Marked
          <6> QED BY <6>1, <6>2
        <5> QED BY <5>2, <5>5, <5>6
      <4> QED BY <4>1, <4>2
    <3>7. /\ SetTables(Retired(r, slot))
          /\ Plentiful => Linked(r.timers, r.groups) /\ Peopled(r.groups, r.widgets)
      BY <1>5, <3>1, <3>2, <3>3, <3>4
    <3> QED BY <3>4, <3>5, <3>6, <3>7
  <2> QED BY <1>4, <2>1, <2>2
<1>9. PICK r : r = Retired(q, slot)
  OBVIOUS
<1>10. /\ Timers' = r.timers /\ TimerGroups' = r.groups /\ TimerGroupWidgets' = r.widgets
  BY <1>8, <1>9 DEF SetTables
<1>11. /\ Apart(r.groups) /\ Homed(r.groups, r.widgets)
       /\ Linked(q.timers, q.groups) => Linked(r.timers, r.groups)
       /\ Plentiful => Peopled(r.groups, r.widgets)
       /\ ActiveSlots(r.widgets) \subseteq ActiveSlots(q.widgets)
       /\ q.widgets[slot].one_shot => slot \notin ActiveSlots(r.widgets)
       /\ \A j \in ActiveSlots(r.widgets) : r.widgets[j] = q.widgets[j]
  BY <1>8, <1>9, RetiredGroups
<1>12. Marked(r.widgets, pending)
  BY <1>8, <1>11 DEF Marked
<1>13. OnceBeside(r.widgets, 0)
  BY <1>8, <1>11 DEF OnceBeside
<1> QED BY <1>4, <1>8, <1>10, <1>11, <1>12, <1>13 DEF GroupsKept

\* The main loop retires no group's timer, and the skew correction changes only when it is due.
LEMMA LoopKeepsLinks ==
    ASSUME GWInv, Loop \/ Tick \/ Stopped, UNCHANGED <<TimerGroups, TimerGroupWidgets, pending>>
    PROVE  GroupsKept'
<1>1. TypeOK /\ /\ Timers \in Seq(Timer) /\ DOMAIN Timers = 1..Len(Timers) /\ Len(Timers) \in Nat
      /\ \A j \in 1..Len(Timers) : Timers[j] \in Timer
  BY SlotFields DEF GWInv, GInv, IInv, TypeOK
<1>2. SUFFICES ASSUME NEW g, NEW i, LinkedTo(Timers, g, i)
               PROVE  LinkedTo(Timers', g, i)
  BY DEF GWInv, GroupsKept, Linked
<1>3. PICK j \in 1..Len(Timers) : /\ Timers[j].active /\ Timers[j].handler = g
                                  /\ Timers[j].interval = i /\ ~Timers[j].one_shot
  BY <1>1, <1>2 DEF LinkedTo, ActiveSlots
<1>4. SUFFICES /\ j \in DOMAIN Timers'
               /\ Timers'[j].active /\ Timers'[j].handler = g
               /\ Timers'[j].interval = i /\ ~Timers'[j].one_shot
  BY DEF LinkedTo, ActiveSlots
<1>5. CASE Timers' = Timers
  BY <1>1, <1>3, <1>5
<1>6. CASE ProcessReturn
  <2>1. Timers' = [Timers EXCEPT ![timer] = AfterCall(Timers[timer])]
    BY <1>6 DEF ProcessReturn
  <2>2. j \in DOMAIN Timers'
    BY <1>1, <2>1
  <2>3. CASE j # timer
    BY <1>1, <1>3, <2>1, <2>2, <2>3
  <2>4. CASE j = timer
    <3>1. Timers'[j] = AfterCall(Timers[j])
      BY <1>1, <2>1, <2>4
    <3>2. Timers'[j] = [Timers[j] EXCEPT !.when = NextTrigger(Timers[j], now)]
      BY <1>3, <3>1 DEF AfterCall
    <3>3. Timers[j] \in Timer
      BY <1>1
    <3> QED BY <1>3, <2>2, <3>2, <3>3 DEF Timer
  <2> QED BY <2>3, <2>4
<1>7. CASE ProcessSelect /\ Timers' # Timers
  <2>1. PICK skew : Timers' = Unskewed(skew)
    BY <1>7 DEF ProcessSelect
  <2>2. j \in DOMAIN Timers' /\ Timers'[j] = [Timers[j] EXCEPT !.when = @ - skew]
    BY <1>1, <1>3, <2>1 DEF Unskewed
  <2>3. Timers[j] \in Timer
    BY <1>1
  <2> QED BY <1>3, <2>2, <2>3 DEF Timer
<1>8. Timers' = Timers \/ ProcessReturn \/ ProcessSelect
  BY DEF Loop, ProcessStart, ProcessCall, PollTimeout, PollReady, Tick, Stopped, vars
<1> QED BY <1>5, <1>6, <1>7, <1>8

\* Every step keeps what the tables hold.
LEMMA GroupsStep == GWInv /\ [GroupNext]_allVars => GWInv'
<1> SUFFICES ASSUME GWInv, [GroupNext]_allVars PROVE GWInv'
  OBVIOUS
<1>1. GInv'
  BY GroupStep DEF GWInv
<1>2. GroupsKept'
  <2>1. CASE \E w \in Widgets : WidgetInit(w)
    BY <2>1, InitKeepsGroups
  <2>2. CASE \E w \in Widgets : WidgetUnused(w)
    <3>1. UNCHANGED <<Timers, TimerGroups, TimerGroupWidgets>> /\ pending' \subseteq pending
      BY <2>2 DEF WidgetUnused, vars
    <3> QED BY <3>1 DEF GWInv, GroupsKept, Marked
  <2>3. CASE GroupUpdate
    BY <2>3, UpdateKeepsGroups
  <2>4. CASE GroupEnter \/ UNCHANGED allVars
    <3>1. UNCHANGED <<Timers, TimerGroups, TimerGroupWidgets, pending>>
      BY <2>4 DEF GroupEnter, allVars, groupVars, vars
    <3> QED BY <3>1 DEF GWInv, GroupsKept
  <2>5. CASE GroupReturn \/ MainLoop \/ Time \/ (Stopped /\ UNCHANGED groupVars)
    <3>1. Loop \/ Tick \/ Stopped
      BY <2>5 DEF GroupReturn, MainLoop, Time, Loop
    <3>2. UNCHANGED <<TimerGroups, TimerGroupWidgets, pending>>
      BY <2>5 DEF GroupReturn, MainLoop, Time, groupVars
    <3> QED BY <3>1, <3>2, LoopKeepsLinks
  <2> QED BY <2>1, <2>2, <2>3, <2>4, <2>5 DEF GroupNext, StartUp
<1> QED BY <1>1, <1>2 DEF GWInv

-----------------------------------------------------------------------------
(* How often a walk updates a widget. *)

\* Widget w is in a slot that the walk has still to reach.
Ahead(w) ==
    \E j \in ActiveSlots(TimerGroupWidgets) : j >= widget /\ TimerGroupWidgets[j].widget = w

\* The walk updates widget w twice, or might.
Twice(w) == updates[w] = 2 \/ (updates[w] = 1 /\ Ahead(w))

\* A slot that the walk has passed is free, so that no update adds a widget ahead of it.
Gap == \E j \in 1 .. widget - 1 : j \notin ActiveSlots(TimerGroupWidgets)

\* At most one widget has overtaken the walk, and that left a gap behind it.
WalkKept ==
    /\ widget = 0 => \A w \in Widgets : updates[w] = 0
    /\ \A w \in Widgets : updates[w] \in 0..2 /\ (updates[w] = 2 => ~Ahead(w))
    /\ \A v, w \in Widgets : Twice(v) /\ Twice(w) => v = w
    /\ (\E w \in Widgets : Twice(w)) => Gap

\* From the table of widgets T to table P, the entry in slot was taken out or stays, and
\* its widget w may have been added again in the first inactive slot.
Updated(T, P, slot, w) ==
    \/ /\ ActiveSlots(P) \subseteq ActiveSlots(T)
       /\ \A j \in ActiveSlots(P) : P[j].widget = T[j].widget
    \/ \E k :
          /\ \A j \in Nat \ {0} : j \notin ActiveSlots(T) => k <= j
          /\ slot \notin ActiveSlots(P) /\ ActiveSlots(P) \subseteq ActiveSlots(T) \cup {k}
          /\ \A j \in ActiveSlots(P) : P[j].widget = IF j = k THEN w ELSE T[j].widget

\* A widget's update does no more to the table.
LEMMA UpdateSlots ==
    ASSUME GWInv, GroupUpdate
    PROVE  \E slot \in ActiveSlots(TimerGroupWidgets), w \in Widgets :
               /\ slot \in Nat \ {0} /\ slot >= widget /\ w = TimerGroupWidgets[slot].widget
               /\ widget' = slot + 1 /\ updates' = [updates EXCEPT ![w] = @ + 1]
               /\ Updated(TimerGroupWidgets, TimerGroupWidgets', slot, w)
<1>1. PICK slot : slot = FirstSlot(WalkFrom(widget))
  OBVIOUS
<1>2. TimerGroupWidgets \in Seq(GroupWidget)
  BY TablesKept
<1>3. /\ slot \in ActiveSlots(TimerGroupWidgets) /\ slot >= widget /\ slot \in Nat \ {0}
  <2>1. /\ WalkFrom(widget) \in SUBSET ActiveSlots(TimerGroupWidgets)
        /\ \A j \in WalkFrom(widget) : j >= widget
    BY DEF WalkFrom, WithInterval
  <2>2. WalkFrom(widget) # {} /\ WalkFrom(widget) \in SUBSET Nat
    BY <1>2, <2>1, SlotsOfTable DEF GroupUpdate
  <2>3. slot \in WalkFrom(widget)
    BY <1>1, <2>2, FirstSlotIsLeast
  <2> QED BY <1>2, <2>1, <2>3, SlotsOfTable
<1>4. PICK w : w = TimerGroupWidgets[slot].widget
  OBVIOUS
<1>5. w \in Widgets
  BY <1>2, <1>3, <1>4, WidgetSlots
<1>6. /\ widget' = slot + 1 /\ updates' = [updates EXCEPT ![w] = @ + 1]
      /\ \/ SetTables(Retired(Tables, slot))
         \/ /\ w \in Rearming
            /\ \E i \in Asks(w) : SetTables(Retired(AddWidget(Tables, w, i, TRUE), slot))
  BY <1>1, <1>4 DEF GroupUpdate
<1>7. /\ TypeOK /\ Tables \in Bundle /\ Len(Tables.groups) <= MaxGroups
      /\ Tables.widgets = TimerGroupWidgets
      /\ Apart(Tables.groups) /\ Homed(Tables.groups, Tables.widgets)
  BY TablesKept
<1>8. Updated(TimerGroupWidgets, TimerGroupWidgets', slot, w)
  <2>1. CASE SetTables(Retired(Tables, slot))
    <3>1. PICK r : r = Retired(Tables, slot)
      OBVIOUS
    <3>2. TimerGroupWidgets' = r.widgets
      BY <2>1, <3>1 DEF SetTables
    <3>3. /\ ActiveSlots(r.widgets) \subseteq ActiveSlots(TimerGroupWidgets)
          /\ \A j \in ActiveSlots(r.widgets) : r.widgets[j] = TimerGroupWidgets[j]
      BY <1>3, <1>7, <3>1, RetiredGroups
    <3> QED BY <3>2, <3>3 DEF Updated
  <2>2. ASSUME w \in Rearming, NEW i \in Asks(w),
               SetTables(Retired(AddWidget(Tables, w, i, TRUE), slot))
        PROVE  Updated(TimerGroupWidgets, TimerGroupWidgets', slot, w)
    <3>1. i \in Intervals /\ TRUE \in BOOLEAN
      BY <1>5, <2>2, AsksIntervals
    <3>2. PICK q : q = AddWidget(Tables, w, i, TRUE)
      OBVIOUS
    <3>3. q \in Bundle
      BY <1>5, <1>7, <3>1, <3>2, AddWidgetGrows DEF Grown
    <3>4. Added(Tables, q, w, i, TRUE)
      BY <1>5, <1>7, <3>1, <3>2, AddWidgetGroups
    <3>5. PICK r : r = Retired(q, slot)
      OBVIOUS
    <3>6. TimerGroupWidgets' = r.widgets
      BY <2>2, <3>2, <3>5 DEF SetTables
    <3>7. Apart(q.groups) /\ Homed(q.groups, q.widgets)
      BY <3>4 DEF Added
    <3>8. CASE q.widgets = TimerGroupWidgets
      <4>1. /\ ActiveSlots(r.widgets) \subseteq ActiveSlots(TimerGroupWidgets)
            /\ \A j \in ActiveSlots(r.widgets) : r.widgets[j] = TimerGroupWidgets[j]
        BY <1>3, <3>3, <3>5, <3>7, <3>8, RetiredGroups
      <4> QED BY <3>6, <4>1 DEF Updated
    <3>9. CASE q.widgets # TimerGroupWidgets
      <4>1. PICK k : /\ ActiveSlots(q.widgets) = ActiveSlots(TimerGroupWidgets) \cup {k}
                     /\ \A j \in Nat \ {0} : j \notin ActiveSlots(TimerGroupWidgets) => k <= j
                     /\ k \notin ActiveSlots(TimerGroupWidgets) /\ q.widgets[k].widget = w
                     /\ \A j \in ActiveSlots(TimerGroupWidgets) : q.widgets[j] = TimerGroupWidgets[j]
        BY <1>7, <3>4, <3>9 DEF Added
      <4>2. slot \in ActiveSlots(q.widgets) /\ q.widgets[slot].one_shot
        BY <1>3, <1>4, <2>2, <4>1 DEF GWInv, GroupsKept, Marked
      <4>3. /\ ActiveSlots(r.widgets) \subseteq ActiveSlots(q.widgets)
            /\ slot \notin ActiveSlots(r.widgets)
            /\ \A j \in ActiveSlots(r.widgets) : r.widgets[j] = q.widgets[j]
        BY <3>3, <3>5, <3>7, <4>2, RetiredGroups
      <4> QED BY <3>6, <4>1, <4>3 DEF Updated
    <3> QED BY <3>8, <3>9
  <2> QED BY <1>6, <2>1, <2>2
<1> QED BY <1>3, <1>4, <1>5, <1>6, <1>8

\* A walk's next step: a widget that is added ahead of it is the first one that is, since
\* the slot it leaves is the first free one for all that follow.
LEMMA UpdateKeepsWalk ==
    ASSUME GWInv, WalkKept, GroupUpdate
    PROVE  WalkKept'
<1>1. PICK slot \in ActiveSlots(TimerGroupWidgets), w \in Widgets :
         /\ slot \in Nat \ {0} /\ slot >= widget /\ w = TimerGroupWidgets[slot].widget
         /\ widget' = slot + 1 /\ updates' = [updates EXCEPT ![w] = @ + 1]
         /\ Updated(TimerGroupWidgets, TimerGroupWidgets', slot, w)
  BY UpdateSlots
<1>2. /\ updates \in [Widgets -> Nat] /\ widget \in Nat
      /\ TimerGroupWidgets \in Seq(GroupWidget) /\ ActiveSlots(TimerGroupWidgets) \in SUBSET Nat
  <2>1. TimerGroupWidgets \in Seq(GroupWidget)
    BY TablesKept
  <2> QED BY <2>1, SlotsOfTable DEF GWInv, GInv, GroupTypeOK
<1>3. /\ updates'[w] = updates[w] + 1
      /\ \A u \in Widgets : u # w => updates'[u] = updates[u]
  BY <1>1, <1>2
<1>4. Ahead(w) /\ updates[w] \in {0, 1}
  <2>1. Ahead(w)
    BY <1>1 DEF Ahead
  <2> QED BY <2>1 DEF WalkKept
<1>5. \A j \in ActiveSlots(TimerGroupWidgets) : TimerGroupWidgets[j].widget = w => j = slot
  <2>1. OnceBeside(TimerGroupWidgets, 0) /\ 0 \notin ActiveSlots(TimerGroupWidgets)
    BY <1>2, WidgetSlots DEF GWInv, GroupsKept
  <2> QED BY <1>1, <2>1 DEF OnceBeside
<1>6. \A u \in Widgets : u # w /\ Ahead(u)' => Ahead(u)
  <2> SUFFICES ASSUME NEW u \in Widgets, u # w, NEW j \in ActiveSlots(TimerGroupWidgets'),
                      j >= widget', TimerGroupWidgets'[j].widget = u
               PROVE  Ahead(u)
    BY DEF Ahead
  <2>1. j \in ActiveSlots(TimerGroupWidgets) /\ TimerGroupWidgets[j].widget = u
    BY <1>1 DEF Updated
  <2> QED BY <1>1, <1>2, <2>1 DEF Ahead
<1>7. \A u \in Widgets : u # w /\ Twice(u)' => Twice(u)
  BY <1>3, <1>6 DEF Twice
<1>8. \A u \in Widgets : u # w => updates'[u] \in 0..2 /\ (updates'[u] = 2 => ~Ahead(u)')
  BY <1>3, <1>6 DEF WalkKept
<1>9. CASE ~Ahead(w)'
  <2>1. Twice(w)' => Twice(w)
    BY <1>3, <1>4, <1>9 DEF Twice
  <2>2. \A u \in Widgets : Twice(u)' => Twice(u)
    BY <1>7, <2>1
  <2>3. Gap => Gap'
    <3> SUFFICES ASSUME NEW j \in Nat \ {0}, j < widget, j \notin ActiveSlots(TimerGroupWidgets)
                 PROVE  Gap'
      BY <1>2 DEF Gap
    <3>1. j < slot /\ j \in 1 .. widget' - 1 /\ slot \in 1 .. widget' - 1
      BY <1>1, <1>2
    <3>2. CASE j \notin ActiveSlots(TimerGroupWidgets')
      BY <3>1, <3>2 DEF Gap
    <3>3. CASE j \in ActiveSlots(TimerGroupWidgets')
      <4>1. slot \notin ActiveSlots(TimerGroupWidgets')
        BY <1>1, <3>3 DEF Updated
      <4> QED BY <1>1, <3>1, <4>1 DEF Gap
    <3> QED BY <3>2, <3>3
  <2>4. \A u, v \in Widgets : Twice(u)' /\ Twice(v)' => u = v
    BY <2>2 DEF WalkKept
  <2>5. (\E u \in Widgets : Twice(u)') => Gap'
    BY <2>2, <2>3 DEF WalkKept
  <2>6. \A u \in Widgets : updates'[u] \in 0..2 /\ (updates'[u] = 2 => ~Ahead(u)')
    BY <1>3, <1>4, <1>8, <1>9
  <2>7. widget' # 0
    BY <1>1
  <2> QED BY <2>4, <2>5, <2>6, <2>7 DEF WalkKept
<1>10. CASE Ahead(w)'
  <2>1. PICK j \in ActiveSlots(TimerGroupWidgets') :
           j >= slot + 1 /\ TimerGroupWidgets'[j].widget = w
    BY <1>1, <1>10 DEF Ahead
  <2>2. \A l \in Nat \ {0} : l \notin ActiveSlots(TimerGroupWidgets) => j <= l
    BY <1>1, <1>5, <2>1 DEF Updated
  <2>3. slot \notin ActiveSlots(TimerGroupWidgets')
    BY <1>1, <1>5, <2>1 DEF Updated
  <2>4. ~Gap
    <3> SUFFICES ASSUME NEW l \in Nat \ {0}, l < widget, l \notin ActiveSlots(TimerGroupWidgets)
                 PROVE  FALSE
      BY <1>2 DEF Gap
    <3>1. j \in Nat
      <4>1. j \notin ActiveSlots(TimerGroupWidgets) => j \in Nat
        <5>1. TimerGroupWidgets' \in Seq(GroupWidget)
          BY GroupStep DEF GWInv, GInv, GroupTypeOK, GroupNext
        <5> QED BY <5>1, SlotsOfTable
      <4> QED BY <1>2, <4>1
    <3> QED BY <1>1, <1>2, <2>1, <2>2, <3>1
  <2>5. \A u \in Widgets : ~Twice(u)
    BY <2>4 DEF WalkKept
  <2>6. updates'[w] = 1
    BY <1>3, <1>4, <2>5 DEF Twice
  <2>7. \A u \in Widgets : Twice(u)' => u = w
    BY <1>7, <2>5
  <2>8. Gap'
    BY <1>1, <2>3 DEF Gap
  <2>9. \A u, v \in Widgets : Twice(u)' /\ Twice(v)' => u = v
    BY <2>7
  <2>10. \A u \in Widgets : updates'[u] \in 0..2 /\ (updates'[u] = 2 => ~Ahead(u)')
    BY <1>8, <2>6
  <2>11. widget' # 0
    BY <1>1
  <2> QED BY <2>8, <2>9, <2>10, <2>11 DEF WalkKept
<1> QED BY <1>9, <1>10

\* Every step keeps it: a walk starts with no updates, and ends with none.
LEMMA WalkStep == GWInv /\ WalkKept /\ [GroupNext]_allVars => WalkKept'
<1> SUFFICES ASSUME GWInv, WalkKept, [GroupNext]_allVars PROVE WalkKept'
  OBVIOUS
<1>1. CASE GroupUpdate
  BY <1>1, UpdateKeepsWalk
<1>2. CASE StartUp
  <2>1. widget = 0 /\ widget' = widget /\ updates' = updates
    BY <1>2 DEF StartUp, WidgetInit, WidgetUnused, GWInv, GInv, GroupTypeOK
  <2>2. \A w \in Widgets : updates'[w] = 0
    BY <2>1 DEF WalkKept
  <2> QED BY <2>2 DEF WalkKept, Twice
<1>3. CASE GroupEnter
  <2>1. \A w \in Widgets : updates'[w] = 0
    BY <1>3 DEF GroupEnter, WalkKept
  <2> QED BY <2>1 DEF WalkKept, Twice
<1>4. CASE GroupReturn
  <2>1. \A w \in Widgets : updates'[w] = 0
    BY <1>4 DEF GroupReturn
  <2> QED BY <2>1 DEF WalkKept, Twice
<1>5. CASE UNCHANGED groupVars
  BY <1>5 DEF groupVars, WalkKept, Twice, Ahead, Gap
<1> QED BY <1>1, <1>2, <1>3, <1>4, <1>5 DEF GroupNext, MainLoop, Time, allVars

-----------------------------------------------------------------------------
(* The theorems. *)

\* The inductive invariant holds of every behaviour of the timer groups.
THEOREM GroupInductive == GroupSpec => []GInv
<1>1. GroupInit => GInv
  BY GroupInitGInv
<1>2. GInv /\ [GroupNext]_allVars => GInv'
  BY GroupStep
<1> QED BY <1>1, <1>2, PTL DEF GroupSpec

\* Type correctness: in particular timer_process_group only ever reads the cell
\* of a group slot that exists, also for timers whose group was removed.
THEOREM GroupTypeCorrect == GroupSpec => []GroupTypeOK
<1>1. GInv => GroupTypeOK
  BY DEF GInv
<1> QED BY <1>1, GroupInductive, PTL

\* The timer groups are a client of the timer queue that its specification allows:
\* every call of timer_process_group, with all the calls it makes, is a step of the
\* queue or none at all, for any widgets and whichever memory runs out.
THEOREM GroupsUseQueue == GroupSpec => QueueSpec
<1>1. GroupInit => Init
  BY GroupInitGInv
<1>2. GInv /\ [GroupNext]_allVars => [Next]_vars
  BY GroupStep
<1>3. GroupSpec => Spec
  BY <1>1, <1>2, GroupInductive, PTL DEF GroupSpec, Spec
<1> QED BY <1>3 DEF QueueSpec

\* Hence no group's timer is scheduled further ahead than its interval.
THEOREM GroupHorizon == GroupSpec => []HorizonBound
<1>1. QueueSpec => Spec
  BY DEF QueueSpec
<1> QED BY <1>1, GroupsUseQueue, Horizon, PTL

\* The strengthened invariant holds of every behaviour of the timer groups.
THEOREM GroupsInductive == GroupSpec => []GWInv
<1>1. GroupInit => GWInv
  <2> SUFFICES ASSUME GroupInit PROVE GWInv
    OBVIOUS
  <2>1. GInv
    BY GroupInitGInv
  <2>2. TimerGroups = <<>> /\ TimerGroupWidgets = <<>>
    BY DEF GroupInit
  <2>3. ActiveSlots(TimerGroups) = {} /\ ActiveSlots(TimerGroupWidgets) = {}
    BY <2>2 DEF ActiveSlots
  <2> QED BY <2>1, <2>3 DEF GWInv, GroupsKept, Apart, Homed, OnceBeside, Marked, Linked, Peopled
<1>2. GWInv /\ [GroupNext]_allVars => GWInv'
  BY GroupsStep
<1> QED BY <1>1, <1>2, PTL DEF GroupSpec

\* Whatever the updates of a walk do to the tables, and whichever memory runs out, every
\* registered widget belongs to exactly one group and is registered once.
THEOREM WidgetsInOneGroup == GroupSpec => []WidgetsGrouped
<1>1. GWInv => WidgetsGrouped
  <2> SUFFICES ASSUME GWInv PROVE WidgetsGrouped
    OBVIOUS
  <2>1. /\ Apart(TimerGroups) /\ Homed(TimerGroups, TimerGroupWidgets)
        /\ OnceBeside(TimerGroupWidgets, 0)
    BY DEF GWInv, GroupsKept
  <2>2. ASSUME NEW j \in ActiveSlots(TimerGroupWidgets)
        PROVE  \E g \in ActiveSlots(TimerGroups) :
                  WithInterval(TimerGroups, TimerGroupWidgets[j].interval) = {g}
    <3>1. PICK g \in ActiveSlots(TimerGroups) :
             TimerGroups[g].interval = TimerGroupWidgets[j].interval
      BY <2>1 DEF Homed, Home
    <3>2. WithInterval(TimerGroups, TimerGroupWidgets[j].interval) = {g}
      BY <2>1, <3>1 DEF WithInterval, Apart
    <3> QED BY <3>2
  <2>3. 0 \notin ActiveSlots(TimerGroupWidgets)
    BY TablesKept, WidgetSlots
  <2>4. \A j, k \in ActiveSlots(TimerGroupWidgets) :
           TimerGroupWidgets[j].widget = TimerGroupWidgets[k].widget => j = k
    BY <2>1, <2>3 DEF OnceBeside
  <2> QED BY <2>2, <2>4 DEF WidgetsGrouped
<1> QED BY <1>1, GroupsInductive, PTL

\* While memory lasts, every group has a generic timer of its own interval that nothing
\* retires.
THEOREM GroupsHaveTimers == Plentiful => (GroupSpec => []GroupsLinked)
<1> SUFFICES ASSUME Plentiful PROVE GroupSpec => []GroupsLinked
  OBVIOUS
<1>1. GWInv => GroupsLinked
  BY DEF GWInv, GroupsKept, Linked, LinkedTo, GroupsLinked
<1> QED BY <1>1, GroupsInductive, PTL

\* While memory lasts, a group goes with its last widget: timer_remove_empty_group is called
\* wherever a widget leaves.
THEOREM GroupsPeopled == Plentiful => (GroupSpec => []NoEmptyGroup)
<1> SUFFICES ASSUME Plentiful PROVE GroupSpec => []NoEmptyGroup
  OBVIOUS
<1>1. GWInv => NoEmptyGroup
  <2> SUFFICES ASSUME GWInv, NEW g \in ActiveSlots(TimerGroups)
               PROVE  WithInterval(TimerGroupWidgets, TimerGroups[g].interval) # {}
    BY DEF NoEmptyGroup
  <2>1. PICK j \in ActiveSlots(TimerGroupWidgets) :
           TimerGroupWidgets[j].interval = TimerGroups[g].interval
    BY DEF GWInv, GroupsKept, Peopled
  <2> QED BY <2>1 DEF WithInterval
<1> QED BY <1>1, GroupsInductive, PTL

\* timer_process_group comes to an end although updates add widgets to the table it walks:
\* one widget at most is updated twice, and none more often.
THEOREM WalksEnd == GroupSpec => []WalkBounded
<1>1. GroupInit => WalkKept
  BY DEF GroupInit, WalkKept, Twice
<1>2. GWInv /\ WalkKept /\ [GroupNext]_allVars => WalkKept'
  BY WalkStep
<1>3. WalkKept => WalkBounded
  BY DEF WalkKept, WalkBounded, Twice
<1> QED BY <1>1, <1>2, <1>3, GroupsInductive, PTL DEF GroupSpec
=============================================================================
