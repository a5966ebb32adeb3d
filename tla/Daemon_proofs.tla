----------------------------- MODULE Daemon_proofs -----------------------------
(***************************************************************************)
(* What the daemon's pid file, its event table and its threads keep, for   *)
(* any number of processes, watches, descriptors, changes, commands and    *)
(* faults and arrays of any length.  The pid file names every running      *)
(* daemon until the pid file of a live process is removed.  The table      *)
(* holds the registered watches between the calls of a client, though      *)
(* event_del takes the first entry of the descriptor, which may be another *)
(* watch's; and a pass never calls an entry for what ppoll reported of     *)
(* another descriptor, though callbacks move entries.  A text of exec() is *)
(* copied from the shared buffer only while nobody writes to it, the       *)
(* array's pids are those of the commands' processes, and a command has    *)
(* one thread per setback of the clock.  The Teak LCM shows what widgets   *)
(* wrote once both sides are connected and nothing is under way, however   *)
(* reads cut frames and the display restarts.                              *)
(***************************************************************************)
EXTENDS PidFile, EventTable, ExecThreads, TeakLCM, SequenceTheorems, FunctionTheorems, FiniteSetTheorems, Recursion_proofs

-----------------------------------------------------------------------------
(* The pid file.  LockHeld is inductive together with the types. *)

PInv == PidTypeOK /\ LockHeld

LEMMA PidInitial == PidInit => PInv
  <1> SUFFICES ASSUME PidInit PROVE PInv
    OBVIOUS
  <1>1. \A p \in Pids : pc[p] = "off"
    BY DEF PidInit
  <1>2. pc \in [Pids -> Starting \cup {"off", "loop", "leaving", "other"}]
    BY DEF PidInit
  <1>3. seen \in [Pids -> Pids \cup {NoPid}]
    BY DEF PidInit
  <1>4. starts \in 0 .. MaxStarts
    BY PidAssumption DEF PidInit
  <1>5. PidTypeOK
    BY <1>1, <1>2, <1>3, <1>4 DEF PidInit, PidTypeOK
  <1>6. LockHeld
    BY <1>1 DEF LockHeld, Daemons
  <1> QED
    BY <1>5, <1>6 DEF PInv

\* What a move of one process does to pc, without the rest of its action.
LEMMA PidMoves ==
    ASSUME PidTypeOK, NEW p \in Pids, NEW from, NEW to, Goes(p, from, to),
           to \in Starting \cup {"off", "loop", "leaving", "other"}
    PROVE  /\ pc' \in [Pids -> Starting \cup {"off", "loop", "leaving", "other"}]
           /\ pc[p] = from /\ pc'[p] = to
           /\ \A q \in Pids \ {p} : pc'[q] = pc[q]
  BY DEF PidTypeOK, Goes


LEMMA LinkKeeps ==
    ASSUME PInv, NEW p \in Pids, Link(p)
    PROVE  PInv'
  <1> USE DEF PInv
  <1>1. CASE /\ file = NoPid
             /\ file' = p
             /\ Goes(p, "link", "loop")
    <2>1. UNCHANGED <<seen, starts, robbed>>
      BY DEF Link
    <2>2. /\ pc' \in [Pids -> Starting \cup {"off", "loop", "leaving", "other"}]
          /\ pc'[p] = "loop"
          /\ \A q \in Pids \ {p} : pc'[q] = pc[q]
      BY <1>1, PidMoves
    <2>3. PidTypeOK'
      BY <1>1, <2>1, <2>2 DEF PidTypeOK
    <2>4. ~robbed => Daemons = {}
      BY <1>1, PidAssumption DEF LockHeld, Daemons
    <2>5. Daemons' \subseteq Daemons \cup {p}
      BY <2>2 DEF Daemons
    <2>6. LockHeld'
      BY <1>1, <2>1, <2>4, <2>5 DEF LockHeld
    <2> QED
      BY <2>3, <2>6
  <1>2. CASE /\ file # NoPid
             /\ Goes(p, "link", "open")
             /\ UNCHANGED file
    <2>1. UNCHANGED <<seen, starts, robbed>>
      BY DEF Link
    <2>2. /\ pc' \in [Pids -> Starting \cup {"off", "loop", "leaving", "other"}]
          /\ pc'[p] = "open"
          /\ \A q \in Pids \ {p} : pc'[q] = pc[q]
      BY <1>2, PidMoves DEF Starting
    <2>3. PidTypeOK'
      BY <1>2, <2>1, <2>2 DEF PidTypeOK
    <2>4. Daemons' \subseteq Daemons
      BY <2>2 DEF Daemons
    <2>5. LockHeld'
      BY <1>2, <2>1, <2>4 DEF LockHeld
    <2> QED
      BY <2>3, <2>5
  <1> QED
    BY <1>1, <1>2 DEF Link

LEMMA OpenKeeps ==
    ASSUME PInv, NEW p \in Pids, Open(p)
    PROVE  PInv'
  <1> USE DEF PInv
  <1>0. UNCHANGED <<file, starts, robbed>>
    BY DEF Open
  <1>1. CASE file = NoPid /\ Goes(p, "open", "link") /\ UNCHANGED seen
    <2>1. /\ pc' \in [Pids -> Starting \cup {"off", "loop", "leaving", "other"}]
          /\ pc'[p] = "link"
          /\ \A q \in Pids \ {p} : pc'[q] = pc[q]
      BY <1>1, PidMoves DEF Starting
    <2>2. PidTypeOK'
      BY <1>0, <1>1, <2>1 DEF PidTypeOK
    <2>3. Daemons' \subseteq Daemons
      BY <2>1 DEF Daemons
    <2>4. LockHeld'
      BY <1>0, <2>3 DEF LockHeld
    <2> QED
      BY <2>2, <2>4
  <1>2. CASE file = p /\ Goes(p, "open", "loop") /\ UNCHANGED seen
    <2>1. /\ pc' \in [Pids -> Starting \cup {"off", "loop", "leaving", "other"}]
          /\ pc'[p] = "loop"
          /\ \A q \in Pids \ {p} : pc'[q] = pc[q]
      BY <1>2, PidMoves
    <2>2. PidTypeOK'
      BY <1>0, <1>2, <2>1 DEF PidTypeOK
    <2>3. Daemons' \subseteq Daemons \cup {p}
      BY <2>1 DEF Daemons
    <2>4. LockHeld'
      BY <1>0, <1>2, <2>3 DEF LockHeld
    <2> QED
      BY <2>2, <2>4
  <1>3. CASE /\ file \notin {NoPid, p}
             /\ Goes(p, "open", "kill")
             /\ seen' = [seen EXCEPT ![p] = file]
    <2>1. /\ pc' \in [Pids -> Starting \cup {"off", "loop", "leaving", "other"}]
          /\ pc'[p] = "kill"
          /\ \A q \in Pids \ {p} : pc'[q] = pc[q]
      BY <1>3, PidMoves DEF Starting
    <2>2. /\ seen' \in [Pids -> Pids \cup {NoPid}]
          /\ seen'[p] \in Pids \ {p}
          /\ \A q \in Pids \ {p} : seen'[q] = seen[q]
      BY <1>3 DEF PidTypeOK
    <2>3. PidTypeOK'
      BY <1>0, <2>1, <2>2 DEF PidTypeOK
    <2>4. Daemons' \subseteq Daemons
      BY <2>1 DEF Daemons
    <2>5. LockHeld'
      BY <1>0, <2>4 DEF LockHeld
    <2> QED
      BY <2>3, <2>5
  <1> QED
    BY <1>1, <1>2, <1>3 DEF Open

LEMMA KillKeeps ==
    ASSUME PInv, NEW p \in Pids, Kill(p)
    PROVE  PInv'
  <1> USE DEF PInv
  <1> DEFINE to == IF pc[seen[p]] = "off" THEN "unlink" ELSE "off"
  <1>1. /\ Goes(p, "kill", to)
        /\ UNCHANGED <<file, seen, starts, robbed>>
    BY DEF Kill
  <1>2. /\ pc' \in [Pids -> Starting \cup {"off", "loop", "leaving", "other"}]
        /\ pc[p] = "kill" /\ pc'[p] = to
        /\ \A q \in Pids \ {p} : pc'[q] = pc[q]
    BY <1>1, PidMoves DEF Starting
  <1>3. PidTypeOK'
    BY <1>1, <1>2 DEF PidTypeOK
  <1>4. Daemons' \subseteq Daemons
    BY <1>2 DEF Daemons
  <1>5. LockHeld'
    BY <1>1, <1>4 DEF LockHeld
  <1> QED
    BY <1>3, <1>5

\* Whoever removes the pid file robs every other daemon there is, so that
\* without a robbery none is left.
LEMMA RemoveKeeps ==
    ASSUME PInv, NEW p \in Pids, NEW from, NEW to, Goes(p, from, to), RemovePid(p),
           to \in {"link", "leaving"}, UNCHANGED <<seen, starts>>
    PROVE  PInv'
  <1> USE DEF PInv
  <1>1. /\ pc' \in [Pids -> Starting \cup {"off", "loop", "leaving", "other"}]
        /\ pc'[p] = to
        /\ \A q \in Pids \ {p} : pc'[q] = pc[q]
    BY PidMoves DEF Starting
  <1>2. PidTypeOK'
    BY <1>1 DEF PidTypeOK, RemovePid
  <1>3. Daemons' \subseteq Daemons \ {p}
    BY <1>1 DEF Daemons
  <1>4. ~robbed' => ~robbed /\ \A q \in Pids \ {p} : ~(file = q /\ pc[q] = "loop")
    BY DEF RemovePid, PidTypeOK
  <1>5. ~robbed' => Daemons' = {}
    BY <1>3, <1>4 DEF LockHeld, Daemons
  <1>6. LockHeld'
    BY <1>5 DEF LockHeld
  <1> QED
    BY <1>2, <1>6

LEMMA BeginKeeps ==
    ASSUME PInv, NEW p \in Pids, NEW from, Begin(p, from)
    PROVE  PInv'
  <1> USE DEF PInv
  <1> DEFINE to == IF p \in Foreground THEN "loop" ELSE "link"
  <1>1. /\ Goes(p, from, to)
        /\ UNCHANGED <<file, seen, robbed>>
        /\ starts < MaxStarts /\ starts' = starts + 1
    BY DEF Begin
  <1>2. /\ pc' \in [Pids -> Starting \cup {"off", "loop", "leaving", "other"}]
        /\ pc'[p] = to
        /\ \A q \in Pids \ {p} : pc'[q] = pc[q]
    BY <1>1, PidMoves DEF Starting
  <1>3. starts' \in 0 .. MaxStarts
    BY <1>1, PidAssumption DEF PidTypeOK
  <1>4. PidTypeOK'
    BY <1>1, <1>2, <1>3 DEF PidTypeOK
  <1>5. Daemons' \subseteq Daemons
    BY <1>2 DEF Daemons
  <1>6. LockHeld'
    BY <1>1, <1>5 DEF LockHeld
  <1> QED
    BY <1>4, <1>6

\* An end of a process, or of another program, leaves the pid file as it is.
LEMMA EndKeeps ==
    ASSUME PInv, NEW p \in Pids, NEW from, NEW to, Goes(p, from, to),
           to \in {"off", "other"}, UNCHANGED <<file, seen, starts, robbed>>
    PROVE  PInv'
  <1> USE DEF PInv
  <1>1. /\ pc' \in [Pids -> Starting \cup {"off", "loop", "leaving", "other"}]
        /\ pc'[p] = to
        /\ \A q \in Pids \ {p} : pc'[q] = pc[q]
    BY PidMoves
  <1>2. PidTypeOK'
    BY <1>1 DEF PidTypeOK
  <1>3. Daemons' \subseteq Daemons
    BY <1>1 DEF Daemons
  <1>4. LockHeld'
    BY <1>3 DEF LockHeld
  <1> QED
    BY <1>2, <1>4

LEMMA PidStep == PInv /\ [PidNext]_pidVars => PInv'
  <1> SUFFICES ASSUME PInv, [PidNext]_pidVars
               PROVE  PInv'
    OBVIOUS
  <1>1. CASE UNCHANGED pidVars
    BY <1>1 DEF pidVars, PInv, PidTypeOK, LockHeld, Daemons
  <1>2. ASSUME NEW p \in Pids, Link(p)
        PROVE  PInv'
    BY <1>2, LinkKeeps
  <1>3. ASSUME NEW p \in Pids, Open(p)
        PROVE  PInv'
    BY <1>3, OpenKeeps
  <1>4. ASSUME NEW p \in Pids, Kill(p)
        PROVE  PInv'
    BY <1>4, KillKeeps
  <1>5. ASSUME NEW p \in Pids, Unlink(p)
        PROVE  PInv'
    BY <1>5, RemoveKeeps DEF Unlink
  <1>6. ASSUME NEW p \in Pids, Leave(p)
        PROVE  PInv'
    BY <1>6, RemoveKeeps DEF Leave
  <1>7. ASSUME NEW p \in Pids, Start(p) \/ Restart(p)
        PROVE  PInv'
    BY <1>7, BeginKeeps DEF Start, Restart
  <1>8. ASSUME NEW p \in Pids, Exit(p) \/ Crash(p) \/ Reuse(p)
        PROVE  PInv'
    BY <1>8, EndKeeps DEF Exit, Crash, Reuse
  <1> QED
    BY <1>1, <1>2, <1>3, <1>4, <1>5, <1>6, <1>7, <1>8 DEF PidNext, InPidInit

\* The types and LockHeld hold in every reachable state, for any pids and starts.
THEOREM PidInductive == PidSpec => []PInv
  BY PidInitial, PidStep, PTL DEF PidSpec

\* pid_init: the processes are where main can be, and nobody acts on a pid that was
\* not read or is its own.
THEOREM PidTypeCorrect == PidSpec => []PidTypeOK
  BY PidInductive, PTL DEF PInv

\* pid_init: the pid file names every running daemon until a live process is robbed of it.
THEOREM Held == PidSpec => []LockHeld
  BY PidInductive, PTL DEF PInv

\* pid_init: and then there is only one of them.
THEOREM NeverTwo == PidSpec => []Alone
  <1>1. LockHeld => Alone
    BY DEF LockHeld, Alone
  <1> QED
    BY <1>1, Held, PTL

-----------------------------------------------------------------------------
(* Positions and sequences. *)

\* A non-empty set of positions has a first one.
LEMMA FirstPosition ==
    ASSUME NEW S \in SUBSET Nat, S # {}
    PROVE  \E m \in S : \A n \in S : m <= n
<1> DEFINE UpTo(m) == {n \in S : n <= m}
           T == {UpTo(m) : m \in S}
<1>1. T \subseteq FiniteSubsetsOf(S) /\ T # {}
  <2>1. ASSUME NEW m \in S PROVE IsFiniteSet(UpTo(m))
    <3>1. UpTo(m) \in SUBSET Nat /\ m \in Nat /\ \A s \in UpTo(m) : s <= m
      OBVIOUS
    <3> QED BY <3>1, FS_BoundedSetOfNaturals
  <2> QED BY <2>1 DEF FiniteSubsetsOf
<1>2. PICK x \in T : \A y \in T : ~ (<<y, x>> \in StrictSubsetOrdering(S))
  <2>1. IsWellFoundedOn(StrictSubsetOrdering(S), FiniteSubsetsOf(S))
    BY FS_StrictSubsetOrderingWellFounded
  <2> HIDE DEF T
  <2> QED BY <1>1, <2>1, WFMin
<1>3. PICK m \in S : x = UpTo(m)
  OBVIOUS
<1>4. ASSUME NEW n \in S, n < m PROVE FALSE
  <2>1. /\ UpTo(n) \subseteq UpTo(m)
        /\ m \in UpTo(m)
        /\ m \notin UpTo(n)
    <3>1. m \in Nat /\ n \in Nat /\ \A l \in S : l \in Nat
      BY <1>4
    <3>2. \A l \in S : l <= n => l <= m
      BY <1>4, <3>1
    <3>3. m <= m /\ ~(m <= n)
      BY <1>4, <3>1
    <3> QED BY <1>4, <3>2, <3>3
  <2>2. UpTo(n) \in SUBSET S /\ UpTo(m) \in SUBSET S /\ UpTo(n) # UpTo(m)
    BY <2>1
  <2>3. <<UpTo(n), UpTo(m)>> \in StrictSubsetOrdering(S)
    BY <2>1, <2>2 DEF StrictSubsetOrdering
  <2> QED BY <1>2, <1>3, <2>3
<1>5. ASSUME NEW n \in S PROVE m <= n
  <2>1. m \in Nat /\ n \in Nat /\ ~(n < m)
    BY <1>4
  <2> QED BY <2>1
<1> QED BY <1>5

\* A function over a table's slots is a table of that length.
LEMMA FunctionIsSeq ==
    ASSUME NEW E, NEW n \in Nat, NEW U \in [1..n -> E]
    PROVE  U \in Seq(E) /\ Len(U) = n
<1>1. U \in Seq(E)
  BY SeqDef
<1>2. PICK m \in Nat : m = Len(U) /\ 1..m = 1..n
  <2>1. DOMAIN U = 1..Len(U) /\ Len(U) \in Nat
    BY <1>1, LenProperties
  <2>2. DOMAIN U = 1..n
    OBVIOUS
  <2> QED BY <2>1, <2>2
<1>3. CASE m < n
  <2>1. n \in 1..n /\ n \notin 1..m
    BY <1>3
  <2> QED BY <1>2, <2>1
<1>4. CASE n < m
  <2>1. m \in 1..m /\ m \notin 1..n
    BY <1>4
  <2> QED BY <1>2, <2>1
<1> QED BY <1>1, <1>2, <1>3, <1>4

-----------------------------------------------------------------------------
(* The inductive invariant. *)

\* The watches that have an entry in a table, and those of a set that wait for f.
DataIn(T) == {T[s].data : s \in DOMAIN T}
Of(f, W) == {w \in W : Fd[w] = f}

\* No watch has two entries, and an entry is for its watch's descriptor.
Keyed(T) ==
    /\ \A s, t \in DOMAIN T : T[s].data = T[t].data => s = t
    /\ \A s \in DOMAIN T : T[s].fd = Fd[T[s].data]

\* An entry that is numbered has the poll entry of its number, with its descriptor.
Numbered(T, P) ==
    \A s \in DOMAIN T :
        T[s].fds_id # 0 => T[s].fds_id \in 1 .. Len(P) /\ P[T[s].fds_id].fd = T[s].fd

PassKept == where # "main" => Numbered(events, fds)

\* While a client removes its watches of a descriptor, the table has as many entries of
\* that descriptor as there are watches left, but maybe not theirs.
OneEach ==
    /\ \A f \in Fds : Cardinality(Of(f, DataIn(events))) = Cardinality(Of(f, registered))
    /\ \A f \in Fds \ closing : Of(f, DataIn(events)) = Of(f, registered)

\* The loop goes on only when the client is done.
ClosedInScan == where = "scan" => closing = {}

EInv ==
    /\ EventTypeOK
    /\ PassKept
    /\ ClosedInScan
    /\ IsFiniteSet(registered)
    /\ ~toggled => Keyed(events) /\ OneEach

-----------------------------------------------------------------------------
(* The functions of event.c. *)

\* The slots of the table, and the fields of an entry.
LEMMA Entries ==
    ASSUME NEW T \in Seq(Event)
    PROVE  /\ Len(T) \in Nat
           /\ DOMAIN T = 1 .. Len(T)
           /\ \A s \in 1 .. Len(T) :
                  /\ T[s] \in Event
                  /\ T[s].data \in Watches /\ T[s].fd \in Fds /\ T[s].kind \in Kinds
                  /\ T[s].active \in BOOLEAN /\ T[s].fds_id \in Nat
<1>1. /\ Len(T) \in Nat
      /\ DOMAIN T = 1 .. Len(T)
      /\ \A s \in 1 .. Len(T) : T[s] \in Event
  OBVIOUS
<1> QED BY <1>1 DEF Event

\* If no watch has two entries, a table has as many entries as watches.
LEMMA DataCount ==
    ASSUME NEW T \in Seq(Event)
    PROVE  /\ IsFiniteSet(DataIn(T))
           /\ Keyed(T) => Cardinality(DataIn(T)) = Len(T)
<1> DEFINE f == [s \in 1 .. Len(T) |-> T[s].data]
<1>1. Len(T) \in Nat /\ DOMAIN T = 1 .. Len(T)
  BY Entries
<1>2. f \in [1 .. Len(T) -> DataIn(T)]
  BY <1>1 DEF DataIn
<1>3. \A d \in DataIn(T) : \E s \in 1 .. Len(T) : f[s] = d
  BY <1>1 DEF DataIn
<1>4. IsFiniteSet(1 .. Len(T)) /\ Cardinality(1 .. Len(T)) = Len(T)
  BY <1>1, FS_Interval
<1>5. Keyed(T) => \A s, t \in 1 .. Len(T) : f[s] = f[t] => s = t
  BY <1>1 DEF Keyed
<1> HIDE DEF f
<1>6. f \in Surjection(1 .. Len(T), DataIn(T))
  BY <1>2, <1>3, Fun_IsSurj
<1>7. Keyed(T) => f \in Injection(1 .. Len(T), DataIn(T))
  BY <1>2, <1>5, Fun_IsInj
<1> QED BY <1>4, <1>6, <1>7, FS_Surjection

\* event_add appends an entry, which is not numbered, for a watch that has none.
LEMMA AddedTable ==
    ASSUME events \in Seq(Event), NEW w \in Watches, NEW active \in BOOLEAN
    PROVE  /\ Added(w, active) \in Seq(Event)
           /\ \A P : Numbered(events, P) => Numbered(Added(w, active), P)
           /\ DataIn(Added(w, active)) = DataIn(events) \cup {w}
           /\ Keyed(events) /\ w \notin DataIn(events) => Keyed(Added(w, active))
<1> DEFINE e == [data |-> w, fd |-> Fd[w], kind |-> Kind[w], active |-> active, fds_id |-> 0]
           T == Added(w, active)
<1>1. e \in Event
  BY EventAssumption DEF Event, Fds
<1>2. e.data = w /\ e.fd = Fd[w] /\ e.fds_id = 0
  OBVIOUS
<1>3. T = Append(events, e)
  BY DEF Added
<1> HIDE DEF e, T
<1>4. /\ T \in Seq(Event)
      /\ Len(T) = Len(events) + 1
      /\ \A s \in 1 .. Len(events) : T[s] = events[s]
      /\ T[Len(events) + 1] = e
  BY <1>1, <1>3, AppendProperties
<1>5. /\ Len(events) \in Nat /\ DOMAIN events = 1 .. Len(events)
      /\ DOMAIN T = 1 .. Len(events) + 1
  BY <1>4, Entries
<1>6. DataIn(T) = DataIn(events) \cup {w}
  BY <1>2, <1>4, <1>5 DEF DataIn
<1>7. \A P : Numbered(events, P) => Numbered(T, P)
  BY <1>2, <1>4, <1>5 DEF Numbered
<1>8. ASSUME Keyed(events), w \notin DataIn(events)
      PROVE  Keyed(T)
  <2>1. \A s \in 1 .. Len(events) : T[s].data # w
    BY <1>4, <1>5, <1>8 DEF DataIn
  <2> QED BY <1>2, <1>4, <1>5, <1>8, <2>1 DEF Keyed
<1> QED BY <1>4, <1>6, <1>7, <1>8 DEF T

\* event_del moves the last entry to a slot m, the first with the descriptor if one has it.
LEMMA DeletedTable ==
    ASSUME events \in Seq(Event), events # <<>>, NEW f
    PROVE  /\ Deleted(f) \in Seq(Event)
           /\ Len(Deleted(f)) = Len(events) - 1
           /\ \E m \in 1 .. Len(events) :
                  /\ SlotsWith(f) # {} => events[m].fd = f
                  /\ \A s \in 1 .. Len(events) - 1 :
                         Deleted(f)[s] = events[IF s = m THEN Len(events) ELSE s]
<1> DEFINE L == Len(events)
           T == Deleted(f)
<1>1. L \in Nat \ {0} /\ DOMAIN events = 1 .. L /\ \A s \in 1 .. L : events[s] \in Event
  BY Entries
<1>2. T \in [1 .. L - 1 -> Event]
  BY <1>1 DEF Deleted
<1>3. T \in Seq(Event) /\ Len(T) = L - 1
  BY <1>1, <1>2, FunctionIsSeq, L - 1 \in Nat
<1>4. CASE SlotsWith(f) = {}
  <2>1. \A s \in 1 .. L - 1 : T[s] = events[s]
    BY <1>4 DEF Deleted, IsFirst
  <2>2. \A s \in 1 .. L - 1 : T[s] = events[IF s = L THEN L ELSE s]
    BY <1>1, <2>1
  <2>3. L \in 1 .. L
    BY <1>1
  <2> HIDE DEF L, T
  <2>4. \E m \in 1 .. L :
            /\ SlotsWith(f) # {} => events[m].fd = f
            /\ \A s \in 1 .. L - 1 : T[s] = events[IF s = m THEN L ELSE s]
    BY <1>4, <2>2, <2>3
  <2> QED BY <1>3, <2>4 DEF L, T
<1>5. CASE SlotsWith(f) # {}
  <2>1. SlotsWith(f) \in SUBSET Nat /\ SlotsWith(f) \subseteq 1 .. L
    BY <1>1 DEF SlotsWith
  <2>2. PICK m : m \in SlotsWith(f) /\ \A t \in SlotsWith(f) : m <= t
    BY <1>5, <2>1, FirstPosition
  <2>3. \A s \in 1 .. L : IsFirst(s, SlotsWith(f)) <=> s = m
    BY <1>1, <2>1, <2>2 DEF IsFirst
  <2>4. \A s \in 1 .. L - 1 : T[s] = events[IF s = m THEN L ELSE s]
    BY <1>1, <2>3 DEF Deleted
  <2>5. m \in 1 .. L /\ events[m].fd = f
    BY <2>1, <2>2 DEF SlotsWith
  <2> QED BY <1>3, <2>4, <2>5
<1> QED BY <1>4, <1>5

\* What becomes of the entries: each that is left was one before, and one of the
\* descriptor is gone, if there was one.
LEMMA DeletedKeeps ==
    ASSUME events \in Seq(Event), events # <<>>, NEW f
    PROVE  /\ \A P : Numbered(events, P) => Numbered(Deleted(f), P)
           /\ Keyed(events) /\ SlotsWith(f) # {} =>
                  /\ Keyed(Deleted(f))
                  /\ \E x \in Of(f, DataIn(events)) :
                         DataIn(Deleted(f)) = DataIn(events) \ {x}
<1> DEFINE L == Len(events)
           T == Deleted(f)
           from(s, m) == IF s = m THEN L ELSE s
<1>1. PICK m \in 1 .. L :
          /\ SlotsWith(f) # {} => events[m].fd = f
          /\ \A s \in 1 .. L - 1 : T[s] = events[from(s, m)]
  BY DeletedTable
<1>2. L \in Nat \ {0} /\ DOMAIN events = 1 .. L
  BY Entries
<1>3. DOMAIN T = 1 .. L - 1
  BY DeletedTable, Entries
<1>4. /\ \A s \in 1 .. L - 1 : from(s, m) \in (1 .. L) \ {m}
      /\ \A s, t \in 1 .. L - 1 : from(s, m) = from(t, m) => s = t
      /\ \A t \in (1 .. L) \ {m} : \E s \in 1 .. L - 1 : from(s, m) = t
  <2> HIDE DEF L
  <2>1. \A s \in 1 .. L - 1 : s # L /\ L \in 1 .. L /\ s \in 1 .. L
    BY <1>2
  <2>2. \A t \in (1 .. L) \ {m} : (t = L => m \in 1 .. L - 1) /\ (t # L => t \in 1 .. L - 1)
    BY <1>2
  <2>3. \A s \in 1 .. L - 1 : from(s, m) \in (1 .. L) \ {m}
    BY <2>1
  <2>4. \A s, t \in 1 .. L - 1 : from(s, m) = from(t, m) => s = t
    BY <2>1
  <2>5. \A t \in (1 .. L) \ {m} : \E s \in 1 .. L - 1 : from(s, m) = t
    <3> SUFFICES ASSUME NEW t \in (1 .. L) \ {m}
                 PROVE  \E s \in 1 .. L - 1 : from(s, m) = t
      OBVIOUS
    <3>1. CASE t = L
      <4>1. m \in 1 .. L - 1 /\ from(m, m) = t
        BY <2>2, <3>1
      <4> QED BY <4>1
    <3>2. CASE t # L
      <4>1. t \in 1 .. L - 1 /\ from(t, m) = t
        BY <2>2, <3>2
      <4> QED BY <4>1
    <3> QED BY <3>1, <3>2
  <2> QED BY <2>3, <2>4, <2>5
<1> HIDE DEF L, T, from
<1>5. \A P : Numbered(events, P) => Numbered(T, P)
  BY <1>1, <1>2, <1>3, <1>4 DEF Numbered
<1>6. ASSUME Keyed(events), SlotsWith(f) # {}
      PROVE  /\ Keyed(T)
             /\ \E x \in Of(f, DataIn(events)) : DataIn(T) = DataIn(events) \ {x}
  <2>1. Keyed(T)
    BY <1>1, <1>2, <1>3, <1>4, <1>6 DEF Keyed
  <2>2. \A t \in 1 .. L : t # m => events[t].data # events[m].data
    BY <1>2, <1>6 DEF Keyed
  <2>3. DataIn(T) \subseteq DataIn(events) \ {events[m].data}
    BY <1>1, <1>2, <1>3, <1>4, <2>2 DEF DataIn
  <2>4. DataIn(events) \ {events[m].data} \subseteq DataIn(T)
    <3> SUFFICES ASSUME NEW t \in 1 .. L, events[t].data # events[m].data
                 PROVE  events[t].data \in DataIn(T)
      BY <1>2 DEF DataIn
    <3>1. PICK s \in 1 .. L - 1 : from(s, m) = t
      BY <1>4
    <3> QED BY <1>1, <1>3, <3>1 DEF DataIn
  <2>5. events[m].data \in Of(f, DataIn(events))
    BY <1>1, <1>2, <1>6 DEF Of, DataIn, Keyed
  <2> QED BY <2>1, <2>3, <2>4, <2>5
<1> QED BY <1>5, <1>6 DEF T

\* event_modify loses the last entry; those that are left keep descriptor and number.
LEMMA ModifiedTable ==
    ASSUME events \in Seq(Event), events # <<>>, NEW f, NEW kind \in Kinds, NEW active \in BOOLEAN
    PROVE  /\ Modified(f, kind, active) \in Seq(Event)
           /\ Len(Modified(f, kind, active)) = Len(events) - 1
           /\ \A P : Numbered(events, P) => Numbered(Modified(f, kind, active), P)
<1> DEFINE L == Len(events)
           T == Modified(f, kind, active)
           changed(e) == [e EXCEPT !.kind = kind, !.active = active]
<1>1. L \in Nat \ {0} /\ DOMAIN events = 1 .. L /\ \A s \in 1 .. L : events[s] \in Event
  BY Entries
<1>2. \A e \in Event : changed(e) \in Event /\ changed(e).fd = e.fd /\ changed(e).fds_id = e.fds_id
  BY DEF Event
<1>3. T = [s \in 1 .. L - 1 |-> IF IsFirst(s, SlotsWith(f)) THEN changed(events[s]) ELSE events[s]]
  BY DEF Modified
<1> HIDE DEF changed, T
<1>4. T \in [1 .. L - 1 -> Event]
  BY <1>1, <1>2, <1>3
<1>5. T \in Seq(Event) /\ Len(T) = L - 1
  BY <1>1, <1>4, FunctionIsSeq, L - 1 \in Nat
<1>6. \A s \in 1 .. L - 1 : s \in 1 .. L /\ T[s].fd = events[s].fd /\ T[s].fds_id = events[s].fds_id
  BY <1>1, <1>2, <1>3
<1>7. \A P : Numbered(events, P) => Numbered(T, P)
  BY <1>1, <1>4, <1>6 DEF Numbered
<1> QED BY <1>5, <1>7 DEF T

-----------------------------------------------------------------------------
(* event_process numbers the entries that it polls. *)

ActiveEntries == {s \in DOMAIN events : events[s].active}

\* Poll numbers tell the active entries apart, and every number has its entry.
LEMMA PollNumbers ==
    ASSUME events \in Seq(Event)
    PROVE  /\ IsFiniteSet(ActiveEntries)
           /\ Cardinality(ActiveEntries) \in Nat
           /\ \A s \in ActiveEntries : PollId(s) \in 1 .. Cardinality(ActiveEntries)
           /\ \A s, t \in ActiveEntries : PollId(s) = PollId(t) => s = t
           /\ \A n \in 1 .. Cardinality(ActiveEntries) :
                  \E s \in ActiveEntries : PollId(s) = n
<1> DEFINE A == ActiveEntries
           UpTo(s) == {t \in 1 .. s : events[t].active}
           number == [s \in A |-> PollId(s)]
<1>1. Len(events) \in Nat /\ DOMAIN events = 1 .. Len(events)
  BY Entries
<1>2. A \in SUBSET (1 .. Len(events))
  BY <1>1 DEF ActiveEntries
<1>3. IsFiniteSet(A) /\ Cardinality(A) \in Nat
  <2>1. IsFiniteSet(1 .. Len(events))
    BY <1>1, FS_Interval
  <2>2. IsFiniteSet(A)
    BY <1>2, <2>1, FS_Subset
  <2> QED BY <2>2, FS_CardinalityType
<1>4. ASSUME NEW s \in A
      PROVE  UpTo(s) \in SUBSET A /\ s \in UpTo(s)
  BY <1>1, <1>2 DEF ActiveEntries
<1>5. ASSUME NEW s \in A
      PROVE  /\ IsFiniteSet(UpTo(s))
             /\ PollId(s) = Cardinality(UpTo(s))
             /\ PollId(s) \in 1 .. Cardinality(A)
  <2>1. IsFiniteSet(UpTo(s)) /\ Cardinality(UpTo(s)) <= Cardinality(A)
    BY <1>3, <1>4, FS_Subset
  <2>2. Cardinality(UpTo(s)) \in Nat /\ Cardinality(UpTo(s)) # 0
    BY <1>4, <2>1, FS_CardinalityType, FS_EmptySet
  <2>3. PollId(s) = Cardinality(UpTo(s))
    BY DEF PollId
  <2> QED BY <1>3, <2>1, <2>2, <2>3
<1>6. ASSUME NEW s \in A, NEW t \in A, s < t
      PROVE  PollId(s) # PollId(t)
  <2>1. UpTo(s) \in SUBSET UpTo(t) /\ t \notin UpTo(s) /\ t \in UpTo(t)
    BY <1>2, <1>6, <1>4
  <2>2. Cardinality(UpTo(t)) # Cardinality(UpTo(s))
    BY <1>5, <2>1, FS_Subset
  <2> QED BY <1>5, <2>2
<1>7. \A s, t \in A : PollId(s) = PollId(t) => s = t
  <2>1. \A s, t \in A : s # t => s < t \/ t < s
    BY <1>2
  <2> QED BY <1>6, <2>1
<1> HIDE DEF A, UpTo
<1>8. number \in [A -> 1 .. Cardinality(A)] /\ \A s \in A : number[s] = PollId(s)
  BY <1>5
<1> HIDE DEF number
<1>9. number \in Injection(A, 1 .. Cardinality(A))
  BY <1>7, <1>8, Fun_IsInj
<1>10. IsFiniteSet(1 .. Cardinality(A)) /\ Cardinality(1 .. Cardinality(A)) = Cardinality(A)
  BY <1>3, FS_Interval
<1>11. number \in Surjection(A, 1 .. Cardinality(A))
  BY <1>9, <1>10, FS_Injection
<1>12. \A n \in 1 .. Cardinality(A) : \E s \in A : PollId(s) = n
  <2>1. \A n \in 1 .. Cardinality(A) : \E s \in A : number[s] = n
    BY <1>11 DEF Surjection
  <2> QED BY <1>8, <2>1
<1> QED BY <1>3, <1>5, <1>7, <1>12 DEF A

-----------------------------------------------------------------------------
(* The clients keep the invariant. *)

\* Nothing is in the table at first.
LEMMA EventInitial == EventInit => EInv
<1> SUFFICES ASSUME EventInit PROVE EInv
  OBVIOUS
<1>1. EventTypeOK
  <2>1. events \in Seq(Event) /\ fds \in Seq(Pollfd) /\ 0 \in 0 .. MaxChanges
    BY EventAssumption DEF EventInit
  <2>2. /\ registered \subseteq Watches /\ closing \subseteq Fds
        /\ ready \subseteq Fds \X Kinds
    BY DEF EventInit
  <2>3. i \in Nat \ {0} /\ j \in Nat \ {0}
    BY DEF EventInit
  <2>4. where = "main" /\ changes = 0 /\ toggled = FALSE
    BY DEF EventInit
  <2> QED BY <2>1, <2>2, <2>3, <2>4 DEF EventTypeOK
<1>2. DataIn(events) = {} /\ Keyed(events)
  BY DEF EventInit, DataIn, Keyed
<1>3. IsFiniteSet(registered) /\ OneEach
  BY <1>2, FS_EmptySet DEF EventInit, OneEach
<1>4. PassKept /\ ClosedInScan
  BY DEF EventInit, PassKept, ClosedInScan
<1> QED BY <1>1, <1>2, <1>3, <1>4 DEF EInv

\* The table of a client that is in no removal has just the registered watches.
LEMMA OnlyRegistered ==
    ASSUME EInv, ~toggled, closing = {}
    PROVE  DataIn(events) = registered
<1>1. /\ DataIn(events) \subseteq Watches
      /\ registered \subseteq Watches
  BY Entries DEF EInv, EventTypeOK, DataIn
<1>2. \A w \in Watches : Fd[w] \in Fds
  BY DEF Fds
<1>3. \A w \in Watches : Of(Fd[w], DataIn(events)) = Of(Fd[w], registered)
  BY <1>2 DEF EInv, OneEach
<1> QED BY <1>1, <1>3 DEF Of

\* What a client changes of the type invariant.
LEMMA ClientTypes ==
    ASSUME EInv, InClient, events' \in Seq(Event), registered' \subseteq Watches,
           closing' \subseteq Fds, changes' \in 0 .. MaxChanges, toggled' \in BOOLEAN
    PROVE  EventTypeOK'
BY DEF EInv, EventTypeOK, InClient, pass

\* event_add
LEMMA EventAddKeeps ==
    ASSUME EInv, NEW w \in Watches, NEW active \in BOOLEAN, EventAdd(w, active)
    PROVE  EInv'
<1>1. /\ InClient /\ closing = {} /\ closing' = {}
      /\ w \notin registered /\ registered' = registered \cup {w}
      /\ events' = Added(w, active)
      /\ toggled' = toggled
  BY DEF EventAdd, Changing
<1>2. /\ events \in Seq(Event) /\ registered \subseteq Watches /\ toggled \in BOOLEAN
      /\ IsFiniteSet(registered)
  BY DEF EInv, EventTypeOK
<1>3. changes' \in 0 .. MaxChanges
  BY EventAssumption DEF EventAdd, Changing, EInv, EventTypeOK
<1>4. EventTypeOK'
  BY <1>1, <1>2, <1>3, AddedTable, ClientTypes
<1>5. PassKept'
  BY <1>1, <1>2, AddedTable DEF EInv, PassKept, InClient, pass
<1>6. ClosedInScan' /\ IsFiniteSet(registered')
  BY <1>1, <1>2, FS_AddElement DEF ClosedInScan
<1>7. ASSUME ~toggled
      PROVE  Keyed(events') /\ OneEach'
  <2>1. DataIn(events) = registered /\ Keyed(events)
    BY <1>1, <1>7, OnlyRegistered DEF EInv
  <2>2. DataIn(events') = registered' /\ Keyed(events')
    BY <1>1, <1>2, <2>1, AddedTable
  <2> QED BY <2>2 DEF OneEach
<1> QED BY <1>1, <1>4, <1>5, <1>6, <1>7 DEF EInv

\* event_modify; from then on nothing is said of the entries' watches.
LEMMA EventModifyKeeps ==
    ASSUME EInv, NEW w \in Watches, NEW active \in BOOLEAN, EventModify(w, active)
    PROVE  EInv'
<1>1. /\ InClient /\ closing = {} /\ closing' = {}
      /\ registered' = registered
      /\ events # <<>> /\ events' = Modified(Fd[w], Kind[w], active)
      /\ toggled' = TRUE
  BY DEF EventModify, Changing
<1>2. events \in Seq(Event) /\ Kind[w] \in Kinds /\ IsFiniteSet(registered) /\ registered \subseteq Watches
  BY EventAssumption DEF EInv, EventTypeOK
<1>3. changes' \in 0 .. MaxChanges
  BY EventAssumption DEF EventModify, Changing, EInv, EventTypeOK
<1>4. EventTypeOK'
  BY <1>1, <1>2, <1>3, ModifiedTable, ClientTypes
<1>5. PassKept'
  BY <1>1, <1>2, ModifiedTable DEF EInv, PassKept, InClient, pass
<1> QED BY <1>1, <1>2, <1>4, <1>5 DEF EInv, ClosedInScan

\* One watch of a descriptor is removed, and one entry, maybe of another watch of it:
\* what is left is as many of each, and the same for every other descriptor.
LEMMA OneLess ==
    ASSUME EInv, ~toggled, NEW w \in registered, closing \subseteq {Fd[w]}
    PROVE  /\ SlotsWith(Fd[w]) # {}
           /\ \A x \in Of(Fd[w], DataIn(events)) :
                  LET D == DataIn(events) \ {x}
                      R == registered \ {w}
                  IN  /\ \A f \in Fds : Cardinality(Of(f, D)) = Cardinality(Of(f, R))
                      /\ \A f \in Fds \ {Fd[w]} : Of(f, D) = Of(f, R)
                      /\ Of(Fd[w], R) = {} => Of(Fd[w], D) = {}
<1> DEFINE d == Fd[w]
           D == DataIn(events)
<1>1. /\ events \in Seq(Event) /\ IsFiniteSet(registered) /\ registered \subseteq Watches
      /\ Keyed(events) /\ OneEach
  BY DEF EInv, EventTypeOK
<1>2. d \in Fds
  BY <1>1 DEF Fds
<1>3. IsFiniteSet(D) /\ DOMAIN events = 1 .. Len(events)
  BY <1>1, DataCount, Entries
<1>4. \A f : IsFiniteSet(Of(f, D)) /\ IsFiniteSet(Of(f, registered))
  <2> SUFFICES ASSUME NEW f
               PROVE  IsFiniteSet(Of(f, D)) /\ IsFiniteSet(Of(f, registered))
    OBVIOUS
  <2>1. Of(f, D) \in SUBSET D /\ Of(f, registered) \in SUBSET registered
    BY DEF Of
  <2> QED BY <1>1, <1>3, <2>1, FS_Subset
<1>5. Of(d, D) # {}
  <2>1. w \in Of(d, registered)
    BY DEF Of
  <2>2. Cardinality(Of(d, registered)) # 0
    BY <1>4, <2>1, FS_EmptySet
  <2>3. Cardinality(Of(d, D)) # 0
    BY <1>1, <1>2, <2>2 DEF OneEach
  <2> QED BY <2>3, FS_EmptySet
<1>6. SlotsWith(d) # {}
  BY <1>1, <1>5 DEF Of, DataIn, SlotsWith, Keyed
<1>7. ASSUME NEW x \in Of(d, D), NEW f \in Fds \ {d}
      PROVE  Of(f, D \ {x}) = Of(f, registered \ {w})
  <2>1. Of(f, D) = Of(f, registered)
    BY <1>1, <1>7 DEF OneEach
  <2> QED BY <1>7, <2>1 DEF Of
<1>8. ASSUME NEW x \in Of(d, D)
      PROVE  /\ Cardinality(Of(d, D \ {x})) = Cardinality(Of(d, registered \ {w}))
             /\ Of(d, registered \ {w}) = {} => Of(d, D \ {x}) = {}
  <2>1. Of(d, D \ {x}) = Of(d, D) \ {x} /\ Of(d, registered \ {w}) = Of(d, registered) \ {w}
    BY DEF Of
  <2>2. w \in Of(d, registered) /\ Cardinality(Of(d, D)) = Cardinality(Of(d, registered))
    BY <1>1, <1>2 DEF Of, OneEach
  <2>3. /\ IsFiniteSet(Of(d, D) \ {x})
        /\ Cardinality(Of(d, D) \ {x}) = Cardinality(Of(d, D)) - 1
    BY <1>4, <1>8, FS_RemoveElement
  <2>4. /\ IsFiniteSet(Of(d, registered) \ {w})
        /\ Cardinality(Of(d, registered) \ {w}) = Cardinality(Of(d, registered)) - 1
    BY <1>4, <2>2, FS_RemoveElement
  <2>5. Cardinality(Of(d, D \ {x})) = Cardinality(Of(d, registered \ {w}))
    BY <2>1, <2>2, <2>3, <2>4
  <2>6. Of(d, registered \ {w}) = {} => Cardinality(Of(d, D \ {x})) = 0
    BY <2>5, FS_EmptySet
  <2>7. Of(d, registered \ {w}) = {} => Of(d, D \ {x}) = {}
    BY <2>1, <2>3, <2>6, FS_EmptySet
  <2> QED BY <2>5, <2>7
<1> HIDE DEF d, D
<1>9. \A x \in Of(d, D), f \in Fds :
          Cardinality(Of(f, D \ {x})) = Cardinality(Of(f, registered \ {w}))
  BY <1>7, <1>8
<1> QED BY <1>6, <1>7, <1>8, <1>9 DEF d, D

\* event_del
LEMMA EventDelKeeps ==
    ASSUME EInv, NEW w \in Watches, EventDel(w)
    PROVE  EInv'
<1>1. /\ InClient /\ w \in registered /\ closing \subseteq {Fd[w]}
      /\ registered' = registered \ {w}
      /\ closing' = {Fd[v] : v \in registered \ {w}} \cap {Fd[w]}
      /\ events # <<>> /\ events' = Deleted(Fd[w])
      /\ changes' = changes /\ toggled' = toggled
  BY DEF EventDel
<1>2. /\ events \in Seq(Event) /\ IsFiniteSet(registered) /\ registered \subseteq Watches
      /\ changes \in 0 .. MaxChanges /\ toggled \in BOOLEAN
  BY DEF EInv, EventTypeOK
<1>3. closing' \subseteq Fds /\ closing' \subseteq {Fd[w]}
  BY <1>1 DEF Fds
<1>4. EventTypeOK'
  BY <1>1, <1>2, <1>3, DeletedTable, ClientTypes
<1>5. PassKept'
  BY <1>1, <1>2, DeletedKeeps DEF EInv, PassKept, InClient, pass
<1>6. ClosedInScan' /\ IsFiniteSet(registered')
  BY <1>1, <1>2, FS_RemoveElement DEF ClosedInScan, InClient, pass
<1>7. ASSUME ~toggled
      PROVE  Keyed(events') /\ OneEach'
  <2>1. SlotsWith(Fd[w]) # {}
    BY <1>1, <1>7, OneLess
  <2>2. PICK x \in Of(Fd[w], DataIn(events)) :
            Keyed(events') /\ DataIn(events') = DataIn(events) \ {x}
    BY <1>1, <1>2, <1>7, <2>1, DeletedKeeps DEF EInv
  <2> DEFINE D == DataIn(events) \ {x}
             R == registered \ {w}
  <2>6. /\ \A f \in Fds : Cardinality(Of(f, D)) = Cardinality(Of(f, R))
        /\ \A f \in Fds \ {Fd[w]} : Of(f, D) = Of(f, R)
        /\ Of(Fd[w], R) = {} => Of(Fd[w], D) = {}
    BY <1>1, <1>7, OneLess
  <2> HIDE DEF D, R
  <2>7. DataIn(events') = D /\ registered' = R
    BY <1>1, <2>2 DEF D, R
  <2>3. /\ \A f \in Fds : Cardinality(Of(f, DataIn(events'))) = Cardinality(Of(f, registered'))
        /\ \A f \in Fds \ {Fd[w]} : Of(f, DataIn(events')) = Of(f, registered')
        /\ Of(Fd[w], registered') = {} => Of(Fd[w], DataIn(events')) = {}
    BY <2>6, <2>7
  <2>4. Fd[w] \notin closing' => Of(Fd[w], registered') = {}
    BY <1>1 DEF Of
  <2>5. \A f \in Fds \ closing' : Of(f, DataIn(events')) = Of(f, registered')
    BY <1>3, <2>3, <2>4
  <2> QED BY <2>2, <2>3, <2>5 DEF OneEach
<1> QED BY <1>1, <1>4, <1>5, <1>6, <1>7 DEF EInv

-----------------------------------------------------------------------------
(* So does event_process. *)

\* Before ppoll every active entry gets a number, and the poll entry of that number is
\* its own; the entries are otherwise left as they are.
LEMMA PolledTable ==
    ASSUME events \in Seq(Event), EventProcess
    PROVE  /\ events' \in Seq(Event)
           /\ fds' \in Seq(Pollfd)
           /\ Numbered(events', fds')
           /\ DataIn(events') = DataIn(events)
           /\ Keyed(events) => Keyed(events')
<1> DEFINE L == Len(events)
           K == Cardinality(ActiveEntries)
           chosen(n) == CHOOSE s \in DOMAIN events : events[s].active /\ PollId(s) = n
           id(s) == IF events[s].active THEN PollId(s) ELSE 0
           polled(s) == [fd |-> events[s].fd, revents |-> Reported(events[s])]
<1>1. L \in Nat /\ DOMAIN events = 1 .. L /\ \A s \in 1 .. L : events[s] \in Event
  BY Entries
<1>2. /\ K \in Nat
      /\ \A s \in ActiveEntries : PollId(s) \in 1 .. K
      /\ \A s, t \in ActiveEntries : PollId(s) = PollId(t) => s = t
      /\ \A n \in 1 .. K : \E s \in ActiveEntries : PollId(s) = n
  BY PollNumbers
<1>3. events' = [s \in 1 .. L |-> [events[s] EXCEPT !.fds_id = id(s)]]
  BY <1>1 DEF EventProcess
<1>4. fds' = [n \in 1 .. K |-> polled(chosen(n))]
  BY DEF EventProcess, ActiveEntries
<1>5. \A n \in 1 .. K : chosen(n) \in ActiveEntries /\ PollId(chosen(n)) = n
  BY <1>2 DEF ActiveEntries
<1>6. \A s \in 1 .. L : id(s) \in Nat /\ (id(s) # 0 => s \in ActiveEntries /\ id(s) = PollId(s))
  BY <1>1, <1>2 DEF ActiveEntries
<1>7. \A s \in ActiveEntries : s \in 1 .. L
  BY <1>1 DEF ActiveEntries
<1>8. \A s \in 1 .. L : polled(s) \in Pollfd /\ polled(s).fd = events[s].fd
  <2>1. \A s \in 1 .. L : events[s].fd \in Fds /\ events[s].kind \in Kinds
    BY Entries
  <2>2. \A s \in 1 .. L : Reported(events[s]) \in SUBSET Kinds
    BY <2>1 DEF Reported
  <2> QED BY <2>1, <2>2 DEF Pollfd
<1> HIDE DEF L, K, chosen, id, polled
<1>9. events' \in [1 .. L -> Event]
  BY <1>1, <1>3, <1>6 DEF Event
<1>10. events' \in Seq(Event) /\ DOMAIN events' = 1 .. L
  BY <1>1, <1>9, FunctionIsSeq
<1>11. \A s \in 1 .. L : /\ events'[s].data = events[s].data
                         /\ events'[s].fd = events[s].fd
                         /\ events'[s].fds_id = id(s)
  BY <1>1, <1>3 DEF Event
<1>12. fds' \in [1 .. K -> Pollfd]
  BY <1>4, <1>5, <1>7, <1>8
<1>13. fds' \in Seq(Pollfd) /\ Len(fds') = K
  BY <1>2, <1>12, FunctionIsSeq
<1>14. Numbered(events', fds')
  <2> SUFFICES ASSUME NEW s \in 1 .. L, id(s) # 0
               PROVE  id(s) \in 1 .. K /\ fds'[id(s)].fd = events[s].fd
    BY <1>10, <1>11, <1>13 DEF Numbered
  <2>1. s \in ActiveEntries /\ id(s) = PollId(s) /\ PollId(s) \in 1 .. K
    BY <1>2, <1>6
  <2>2. chosen(PollId(s)) = s
    BY <1>2, <1>5, <2>1
  <2> QED BY <1>4, <1>8, <2>1, <2>2
<1>15. DataIn(events') = DataIn(events)
  BY <1>1, <1>10, <1>11 DEF DataIn
<1>16. Keyed(events) => Keyed(events')
  BY <1>1, <1>10, <1>11 DEF Keyed
<1> QED BY <1>10, <1>13, <1>14, <1>15, <1>16

\* event_process, up to the return of ppoll
LEMMA EventProcessKeeps ==
    ASSUME EInv, EventProcess
    PROVE  EInv'
<1>1. events \in Seq(Event) /\ IsFiniteSet(registered)
  BY DEF EInv, EventTypeOK
<1>2. /\ i' = 1 /\ j' = 1 /\ where' = "scan"
      /\ registered' = registered /\ closing = {} /\ closing' = {} /\ ready' = ready
      /\ changes' = changes /\ toggled' = toggled
  BY DEF EventProcess
<1>3. /\ events' \in Seq(Event) /\ fds' \in Seq(Pollfd)
      /\ Numbered(events', fds')
      /\ DataIn(events') = DataIn(events)
      /\ Keyed(events) => Keyed(events')
  BY <1>1, PolledTable
<1>4. EventTypeOK'
  <2>1. Len(fds') \in Nat
    BY <1>3
  <2>2. where' = "scan" => j' <= Len(fds') + 1
    BY <1>2, <2>1
  <2>3. i' \in Nat \ {0} /\ j' \in Nat \ {0}
    BY <1>2
  <2>4. where' \in {"main", "scan", "callback"} /\ where' # "callback"
    BY <1>2
  <2> QED BY <1>2, <1>3, <2>2, <2>3, <2>4 DEF EInv, EventTypeOK
<1>5. PassKept' /\ ClosedInScan'
  BY <1>2, <1>3 DEF PassKept, ClosedInScan
<1>6. ~toggled => OneEach'
  BY <1>2, <1>3 DEF EInv, OneEach
<1> QED BY <1>1, <1>2, <1>3, <1>4, <1>5, <1>6 DEF EInv

\* What the steps of the scan leave alone.
LEMMA ScanKeeps ==
    ASSUME EInv, UNCHANGED table,
           EventTypeOK', PassKept', where' = "scan" => closing = {}
    PROVE  EInv'
<1>1. events' = events /\ registered' = registered /\ closing' = closing /\ toggled' = toggled
  BY DEF table
<1> QED BY <1>1 DEF EInv, ClosedInScan, OneEach

\* The entries that the scan meets have a poll entry if they are numbered like j.
LEMMA ScanTypes ==
    ASSUME EInv, Scanning
    PROVE  /\ i \in 1 .. Len(events) /\ i \in Nat /\ j \in Nat \ {0}
           /\ events[i].fds_id = j => j \in 1 .. Len(fds) /\ fds[j].fd = events[i].fd
<1>1. /\ events \in Seq(Event) /\ i \in Nat \ {0} /\ j \in Nat \ {0}
      /\ i <= Len(events) /\ where = "scan"
  BY DEF EInv, EventTypeOK, Scanning
<1>2. i \in 1 .. Len(events)
  BY <1>1
<1>3. Numbered(events, fds)
  BY <1>1 DEF EInv, PassKept
<1> QED BY <1>1, <1>2, <1>3, Entries DEF Numbered

\* Past an entry
LEMMA ScanPastKeeps ==
    ASSUME EInv, ScanPast
    PROVE  EInv'
<1>1. /\ Scanning /\ i' = i + 1 /\ UNCHANGED <<table, ready, fds, where>>
      /\ \/ j' = j
         \/ events[i].fds_id = j /\ j' = j + 1
  BY DEF ScanPast
<1>2. /\ fds \in Seq(Pollfd) /\ where = "scan" /\ j <= Len(fds) + 1 /\ closing = {}
  BY <1>1 DEF Scanning, EInv, EventTypeOK, ClosedInScan
<1>3. /\ i' \in Nat \ {0} /\ j' \in Nat \ {0} /\ j' <= Len(fds) + 1
  <2>1. Len(fds) \in Nat
    BY <1>2
  <2> QED BY <1>1, <1>2, <2>1, ScanTypes
<1>4. EventTypeOK'
  BY <1>1, <1>2, <1>3 DEF EInv, EventTypeOK, table
<1>5. PassKept'
  BY <1>1 DEF EInv, PassKept, table
<1> QED BY <1>1, <1>2, <1>4, <1>5, ScanKeeps

\* Up to a callback
LEMMA ScanCallKeeps ==
    ASSUME EInv, ScanCall
    PROVE  EInv'
<1>1. /\ Scanning /\ where' = "callback" /\ UNCHANGED <<table, ready, fds, i, j>>
      /\ events[i].fds_id = j
  BY DEF ScanCall
<1>2. j <= Len(fds)
  BY <1>1, ScanTypes
<1>3. EventTypeOK'
  BY <1>1, <1>2 DEF EInv, EventTypeOK, table
<1>4. PassKept'
  BY <1>1 DEF EInv, PassKept, table, Scanning
<1> QED BY <1>1, <1>3, <1>4, ScanKeeps

\* After a callback, whatever it did to the table
LEMMA CallbackReturnKeeps ==
    ASSUME EInv, CallbackReturn
    PROVE  EInv'
<1>1. /\ where = "callback" /\ closing = {} /\ where' = "scan"
      /\ ready' \subseteq ready /\ i' = i + 1 /\ j' = j + 1
      /\ UNCHANGED <<table, fds>>
  BY DEF CallbackReturn
<1>2. /\ fds \in Seq(Pollfd) /\ j <= Len(fds) /\ i \in Nat \ {0} /\ j \in Nat \ {0}
      /\ ready \subseteq Fds \X Kinds
  BY <1>1 DEF EInv, EventTypeOK
<1>3. i' \in Nat \ {0} /\ j' \in Nat \ {0} /\ j' <= Len(fds) + 1
  <2>1. Len(fds) \in Nat
    BY <1>2
  <2> QED BY <1>1, <1>2, <2>1
<1>4. ready' \subseteq Fds \X Kinds
  BY <1>1, <1>2
<1>5. EventTypeOK'
  BY <1>1, <1>3, <1>4 DEF EInv, EventTypeOK, table
<1>6. PassKept'
  BY <1>1 DEF EInv, PassKept, table
<1> QED BY <1>1, <1>5, <1>6, ScanKeeps

\* The end of the scan, and a descriptor that becomes ready
LEMMA OthersKeep ==
    ASSUME EInv, ScanEnd \/ BecomeReady
    PROVE  EInv'
<1>1. CASE ScanEnd
  <2>1. /\ where' = "main" /\ fds' = <<>> /\ i' = 1 /\ j' = 1
        /\ UNCHANGED <<table, ready>>
    BY <1>1 DEF ScanEnd
  <2>2. fds' \in Seq(Pollfd) /\ i' \in Nat \ {0} /\ j' \in Nat \ {0}
    BY <2>1
  <2>3. EventTypeOK'
    BY <2>1, <2>2 DEF EInv, EventTypeOK, table
  <2>4. PassKept'
    BY <2>1 DEF PassKept
  <2> QED BY <2>1, <2>3, <2>4, ScanKeeps
<1>2. CASE BecomeReady
  <2>1. PICK w \in Watches : ready' = ready \cup {<<Fd[w], Kind[w]>>}
    BY <1>2 DEF BecomeReady
  <2>2. UNCHANGED <<table, pass>>
    BY <1>2 DEF BecomeReady
  <2>3. <<Fd[w], Kind[w]>> \in Fds \X Kinds
    BY EventAssumption DEF Fds
  <2>4. ready' \subseteq Fds \X Kinds
    BY <2>1, <2>3 DEF EInv, EventTypeOK
  <2>5. EventTypeOK'
    BY <2>2, <2>4 DEF EInv, EventTypeOK, table, pass
  <2>6. PassKept' /\ (where' = "scan" => closing = {})
    BY <2>2 DEF EInv, PassKept, ClosedInScan, table, pass
  <2> QED BY <2>2, <2>5, <2>6, ScanKeeps
<1> QED BY <1>1, <1>2

\* Every step keeps the invariant.
LEMMA EventStep == EInv /\ [EventNext]_eventVars => EInv'
<1> SUFFICES ASSUME EInv, [EventNext]_eventVars PROVE EInv'
  OBVIOUS
<1>1. CASE Clients
  BY <1>1, EventAddKeeps, EventModifyKeeps, EventDelKeeps DEF Clients
<1>2. CASE Loop
  BY <1>2, EventProcessKeeps, ScanPastKeeps, ScanCallKeeps, CallbackReturnKeeps, OthersKeep
     DEF Loop
<1>3. CASE BecomeReady
  BY <1>3, OthersKeep
<1>4. CASE UNCHANGED eventVars
  BY <1>4 DEF eventVars, EInv, EventTypeOK, PassKept, ClosedInScan, OneEach
<1> QED BY <1>1, <1>2, <1>3, <1>4 DEF EventNext

-----------------------------------------------------------------------------
(* The theorems. *)

\* event.c, drv_TeakLCM.c and plugin_dbus.c: the types, the numbering of the poll
\* entries and the count of entries per descriptor are kept by every step.
THEOREM EventInductive == EventSpec => []EInv
<1>1. EventInit => EInv
  BY EventInitial
<1>2. EInv /\ [EventNext]_eventVars => EInv'
  BY EventStep
<1> QED BY <1>1, <1>2, PTL DEF EventSpec

\* event.c: the variables of the table and of a pass keep their types; in a callback j is
\* the index of a poll entry, so that nothing is read past the end of the array.
THEOREM EventTypeCorrect == EventSpec => []EventTypeOK
<1>1. EInv => EventTypeOK
  BY DEF EInv
<1> QED BY <1>1, EventInductive, PTL

\* event_add, event_del: between the calls of a client the table has one entry for every
\* registered watch and none for another, until event_modify drops an entry.
THEOREM TableKept == EventSpec => []WatchesKept
<1>1. EInv => WatchesKept
  <2> SUFFICES ASSUME EInv, closing = {}, ~toggled
               PROVE  /\ Len(events) = Cardinality(registered)
                      /\ \A w \in registered : \E s \in DOMAIN events : events[s].data = w
    BY DEF WatchesKept
  <2>1. DataIn(events) = registered
    BY OnlyRegistered
  <2>2. events \in Seq(Event) /\ Keyed(events)
    BY DEF EInv, EventTypeOK
  <2> QED BY <2>1, <2>2, DataCount DEF DataIn
<1> QED BY <1>1, EventInductive, PTL

\* event_process: a callback is called only with what ppoll reported for its own
\* descriptor, and until event_modify only for a watch that is still registered.
THEOREM CallsAsReported == EventSpec => OnlyReported
<1> DEFINE A == where = "scan" /\ where' = "callback" =>
                    /\ events[i].fd = fds[j].fd
                    /\ toggled \/ events[i].data \in registered
<1>1. EInv /\ [EventNext]_eventVars => A \/ UNCHANGED eventVars
  <2> SUFFICES ASSUME EInv, EventNext, where = "scan", where' = "callback"
               PROVE  /\ events[i].fd = fds[j].fd
                      /\ toggled \/ events[i].data \in registered
    OBVIOUS
  <2>1. Scanning /\ events[i].fds_id = j
    BY DEF EventNext, Clients, EventAdd, EventModify, EventDel, Changing, InClient, BecomeReady,
           Loop, EventProcess, ScanPast, ScanCall, CallbackReturn, ScanEnd, pass
  <2>2. events[i].fd = fds[j].fd /\ i \in 1 .. Len(events)
    BY <2>1, ScanTypes
  <2>3. ~toggled => DataIn(events) = registered
    BY OnlyRegistered DEF EInv, ClosedInScan
  <2>4. events \in Seq(Event)
    BY DEF EInv, EventTypeOK
  <2>5. events[i].data \in DataIn(events)
    BY <2>2, <2>4, Entries DEF DataIn
  <2> QED BY <2>2, <2>3, <2>5
<1>2. EInv /\ [EventNext]_eventVars => [A]_eventVars
  BY <1>1
<1> QED BY <1>2, EventInductive, PTL DEF EventSpec, OnlyReported

-----------------------------------------------------------------------------
(* The threads of exec(). *)

ProcessSet == [is : {"free", "child", "zombie", "stranger"}, thread : Nat,
               place : {"-", "run", "lock", "write", "rewrite", "unlock"}, run : Runs]

\* A thread has the place in the array that it was created with; whoever works at a
\* thread finds it there.
Placed ==
    /\ \A p \in Processes : proc[p].is = "child" =>
           /\ proc[p].place # "-"
           /\ proc[p].thread \in 1 .. Len(Thread)
           /\ Thread[proc[p].thread].pid = p
    /\ main \in {"lock", "copy", "unlock"} => at \in 1 .. Len(Thread)
    /\ main = "exit" => at # 0

\* The main process, or a thread, is between semop and semop.
MainHolds(u) == main \in {"copy", "unlock"} /\ at = u
ChildHolds(p, u) ==
    /\ proc[p].is = "child" /\ proc[p].thread = u
    /\ proc[p].place \in {"write", "rewrite", "unlock"}

\* The two halves of the text in the buffer are of different runs.
Torn(thread) == thread.ret[1] # thread.ret[2]

\* One process at most is between semop and semop.  A torn text is in the buffer only while
\* the semaphore is down and the main process is not: one who died held it.
BufferKept(u) ==
    /\ Thread[u].sem <= 1
    /\ MainHolds(u) \/ Torn(Thread[u]) => Thread[u].sem = 0
    /\ MainHolds(u) => ~Torn(Thread[u])
    /\ main = "unlock" /\ at = u => half = Thread[u].ret[1]
    /\ \A p \in Processes : ChildHolds(p, u) =>
           /\ Thread[u].sem = 0 /\ ~MainHolds(u)
           /\ IF proc[p].place = "rewrite" THEN Thread[u].ret[1] = proc[p].run
                                           ELSE ~Torn(Thread[u])

BuffersKept == usable /\ ~interrupted => \A u \in 1 .. Len(Thread) : BufferKept(u)

\* The system may have given the pid of a thread that is still in the array to others.
PidsFreed == massacre \/ (sigchld /\ faults.deaths > 0)

\* Unless it has, the pids of the threads that are still to be killed are theirs.
PidsKept ==
    ~PidsFreed =>
        /\ ~stranger
        /\ \A u \in 1 .. Len(Thread) :
               (main \in {"exit", "exited"} => at <= u)
                   => proc[Thread[u].pid].is \in {"child", "zombie"}
        /\ \A u, v \in 1 .. Len(Thread) : Thread[u].pid = Thread[v].pid => u = v

\* A command whose text is of a negative age has yet to use up the last setback.
ThreadsOf(k) == {u \in DOMAIN Thread : Thread[u].key = k}
Counted ==
    \A k \in Keys :
        Cardinality(ThreadsOf(k)) <= faults.setbacks + (IF EXEC[k].age = "known" THEN 1 ELSE 0)

ExecInv ==
    /\ ExecTypeOK
    /\ Placed
    /\ BuffersKept
    /\ WholeTexts
    /\ PidsKept
    /\ Counted

-----------------------------------------------------------------------------
(* The array and the semaphores. *)

\* The fields of the threads, of the processes and of the faults.
LEMMA ExecFields ==
    ASSUME ExecTypeOK
    PROVE  /\ Len(Thread) \in Nat /\ DOMAIN Thread = 1 .. Len(Thread)
           /\ \A u \in 1 .. Len(Thread) :
                  /\ Thread[u] \in ThreadSet
                  /\ Thread[u].key \in Keys /\ Thread[u].pid \in Processes
                  /\ Thread[u].ret \in Runs \X Runs /\ Thread[u].sem \in 0 .. 2
           /\ proc \in [Processes -> ProcessSet]
           /\ \A p \in Processes : proc[p] \in ProcessSet
           /\ at \in Nat /\ at <= Len(Thread) + 1
           /\ faults.deaths \in 0 .. MaxFaults /\ faults.setbacks \in 0 .. MaxFaults
           /\ faults.failures \in 0 .. MaxFaults /\ MaxFaults \in Nat
<1>1. Thread \in Seq(ThreadSet)
  BY DEF ExecTypeOK
<1>2. Len(Thread) \in Nat /\ DOMAIN Thread = 1 .. Len(Thread)
  BY <1>1
<1>3. \A u \in 1 .. Len(Thread) : Thread[u] \in ThreadSet
  BY <1>1
<1>4. \A t \in ThreadSet : /\ t.key \in Keys /\ t.pid \in Processes
                           /\ t.ret \in Runs \X Runs /\ t.sem \in 0 .. 2
  BY DEF ThreadSet
<1>5. proc \in [Processes -> ProcessSet]
  BY DEF ExecTypeOK, ProcessSet
<1>6. at \in Nat /\ at <= Len(Thread) + 1
  BY <1>2 DEF ExecTypeOK
<1>7. /\ faults.deaths \in 0 .. MaxFaults /\ faults.setbacks \in 0 .. MaxFaults
      /\ faults.failures \in 0 .. MaxFaults /\ MaxFaults \in Nat
  BY ExecAssumption DEF ExecTypeOK
<1> QED BY <1>2, <1>3, <1>4, <1>5, <1>6, <1>7

\* A fault is counted within its bound.
LEMMA FaultCounted ==
    ASSUME ExecTypeOK, NEW kind \in {"failures", "deaths", "setbacks"}, Fault(kind)
    PROVE  /\ faults' \in [failures : 0 .. MaxFaults, deaths : 0 .. MaxFaults, setbacks : 0 .. MaxFaults]
           /\ faults'[kind] = faults[kind] + 1
           /\ \A other \in {"failures", "deaths", "setbacks"} :
                  other # kind => faults'[other] = faults[other]
<1>1. /\ faults \in [failures : 0 .. MaxFaults, deaths : 0 .. MaxFaults, setbacks : 0 .. MaxFaults]
      /\ faults.failures + faults.deaths + faults.setbacks < MaxFaults
      /\ faults' = [faults EXCEPT ![kind] = @ + 1] /\ MaxFaults \in Nat
  BY ExecAssumption DEF ExecTypeOK, Fault
<1>2. faults.failures < MaxFaults /\ faults.deaths < MaxFaults /\ faults.setbacks < MaxFaults
  BY <1>1
<1>3. faults.failures + 1 \in 0 .. MaxFaults /\ faults.deaths + 1 \in 0 .. MaxFaults
      /\ faults.setbacks + 1 \in 0 .. MaxFaults
  BY <1>1, <1>2
<1>4. CASE kind = "failures"
  BY <1>1, <1>3, <1>4
<1>5. CASE kind = "deaths"
  BY <1>1, <1>3, <1>5
<1>6. CASE kind = "setbacks"
  BY <1>1, <1>3, <1>6
<1> QED BY <1>4, <1>5, <1>6

\* Taking the semaphore and giving it back.
LEMMA SemaphoreMoves ==
    ASSUME NEW t \in ThreadSet, usable \in BOOLEAN
    PROVE  /\ ~Waits(t) => Locked(t) \in ThreadSet
           /\ Unlocked(t) \in ThreadSet
           /\ Locked(t).key = t.key /\ Locked(t).pid = t.pid /\ Locked(t).ret = t.ret
           /\ Unlocked(t).key = t.key /\ Unlocked(t).pid = t.pid /\ Unlocked(t).ret = t.ret
           /\ usable => Locked(t).sem = t.sem - 1
           /\ usable => Unlocked(t).sem = IF t.sem < 2 THEN t.sem + 1 ELSE 2
<1>1. t.sem \in 0 .. 2 /\ t.key \in Keys /\ t.pid \in Processes /\ t.ret \in Runs \X Runs
  BY DEF ThreadSet
<1>2. CASE usable
  <2>1. Locked(t) = [t EXCEPT !.sem = t.sem - 1]
    BY <1>2 DEF Locked
  <2>2. Unlocked(t) = [t EXCEPT !.sem = IF t.sem < 2 THEN t.sem + 1 ELSE 2]
    BY <1>2 DEF Unlocked
  <2>3. ~Waits(t) => t.sem - 1 \in 0 .. 2
    BY <1>1, <1>2 DEF Waits
  <2>4. (IF t.sem < 2 THEN t.sem + 1 ELSE 2) \in 0 .. 2
    BY <1>1
  <2> QED BY <1>1, <1>2, <2>1, <2>2, <2>3, <2>4 DEF ThreadSet
<1>3. CASE ~usable
  BY <1>3 DEF Locked, Unlocked
<1> QED BY <1>2, <1>3

\* Writing one half of the text.
LEMMA HalfWritten ==
    ASSUME NEW t \in ThreadSet, NEW r \in Runs, NEW h \in {1, 2}
    PROVE  LET w == [t EXCEPT !.ret[h] = r]
           IN  /\ w \in ThreadSet /\ w.key = t.key /\ w.pid = t.pid /\ w.sem = t.sem
               /\ w.ret[h] = r
               /\ h = 2 => w.ret[1] = t.ret[1]
<1> DEFINE w == [t EXCEPT !.ret[h] = r]
           f == [t.ret EXCEPT ![h] = r]
<1>1. PICK x \in Runs, y \in Runs : t.ret = <<x, y>>
  BY DEF ThreadSet
<1>2. f = IF h = 1 THEN <<r, y>> ELSE <<x, r>>
  BY <1>1
<1>3. f \in Runs \X Runs /\ f[h] = r /\ (h = 2 => f[1] = t.ret[1])
  BY <1>1, <1>2
<1>4. w = [t EXCEPT !.ret = f]
  OBVIOUS
<1> HIDE DEF f, w
<1>5. w = [key |-> t.key, pid |-> t.pid, ret |-> f, sem |-> t.sem]
  BY <1>4 DEF ThreadSet
<1>6. t.key \in Keys /\ t.pid \in Processes /\ t.sem \in 0 .. 2
  BY DEF ThreadSet
<1>7. w \in ThreadSet /\ w.key = t.key /\ w.pid = t.pid /\ w.sem = t.sem /\ w.ret = f
  BY <1>3, <1>5, <1>6 DEF ThreadSet
<1> QED BY <1>3, <1>7 DEF w

\* One entry of the array changes.
LEMMA ThreadChange ==
    ASSUME ExecTypeOK, NEW u \in 1 .. Len(Thread), NEW t \in ThreadSet,
           Thread' = [Thread EXCEPT ![u] = t]
    PROVE  /\ Thread' \in Seq(ThreadSet)
           /\ Len(Thread') = Len(Thread)
           /\ Thread'[u] = t
           /\ \A v \in 1 .. Len(Thread) : v # u => Thread'[v] = Thread[v]
<1>1. Thread \in Seq(ThreadSet)
  BY DEF ExecTypeOK
<1> QED BY <1>1, ExceptSeq

\* How often a command has a thread depends on the keys only.
LEMMA CountedKept ==
    ASSUME ExecTypeOK, Thread' \in Seq(ThreadSet), Len(Thread') = Len(Thread),
           \A v \in 1 .. Len(Thread) : Thread'[v].key = Thread[v].key
    PROVE  \A k \in Keys : ThreadsOf(k)' = ThreadsOf(k)
<1>1. DOMAIN Thread = 1 .. Len(Thread) /\ DOMAIN Thread' = 1 .. Len(Thread)
  BY ExecFields
<1> QED BY <1>1 DEF ThreadsOf

\* At first no thread has been created.
LEMMA ExecInitial == ExecInit => ExecInv
<1> SUFFICES ASSUME ExecInit PROVE ExecInv
  OBVIOUS
<1>1. Len(Thread) = 0 /\ DOMAIN Thread = {} /\ MaxFaults \in Nat
  BY ExecAssumption DEF ExecInit
<1>2. ExecTypeOK
  <2>1. Thread \in Seq(ThreadSet) /\ at \in 0 .. Len(Thread) + 1
    BY <1>1 DEF ExecInit
  <2>2. /\ proc \in [Processes -> [is : {"free", "child", "zombie", "stranger"}, thread : Nat,
                          place : {"-", "run", "lock", "write", "rewrite", "unlock"}, run : Runs]]
        /\ EXEC \in [Keys -> [text : Runs \X Runs, age : {"none", "known", "negative"}]]
    BY DEF ExecInit, Free, Runs, Empty
  <2>3. /\ faults \in [failures : 0..MaxFaults, deaths : 0..MaxFaults, setbacks : 0..MaxFaults]
        /\ half \in Runs
    BY <1>1 DEF ExecInit, Runs
  <2> QED BY <2>1, <2>2, <2>3 DEF ExecInit, ExecTypeOK
<1>3. Placed /\ BuffersKept /\ PidsKept
  BY <1>1 DEF ExecInit, Placed, BuffersKept, PidsKept, Free
<1>4. WholeTexts
  BY DEF ExecInit, WholeTexts, Empty
<1>5. Counted
  <2>1. \A k \in Keys : ThreadsOf(k) = {}
    BY <1>1 DEF ThreadsOf
  <2>2. faults.setbacks = 0 /\ Cardinality({}) = 0 /\ \A k \in Keys : EXEC[k].age = "none"
    BY FS_EmptySet DEF ExecInit
  <2> QED BY <2>1, <2>2 DEF Counted
<1> QED BY <1>2, <1>3, <1>4, <1>5 DEF ExecInv

-----------------------------------------------------------------------------
(* The steps of the threads. *)

\* A step of the thread p at its own buffer keeps the invariant if it keeps the buffer's.
LEMMA ChildMoves ==
    ASSUME ExecInv, NEW p \in Processes, proc[p].is = "child",
           NEW u \in 1 .. Len(Thread), u = proc[p].thread,
           NEW c \in ProcessSet, c.is = "child", c.thread = u, c.place # "-",
           proc' = [proc EXCEPT ![p] = c],
           Thread' \in Seq(ThreadSet), Len(Thread') = Len(Thread),
           Thread'[u].key = Thread[u].key, Thread'[u].pid = Thread[u].pid,
           \A v \in 1 .. Len(Thread) : v # u => Thread'[v] = Thread[v],
           UNCHANGED MainVars,
           usable /\ ~interrupted =>
               /\ Thread'[u].sem <= 1
               /\ MainHolds(u) \/ Torn(Thread'[u]) => Thread'[u].sem = 0
               /\ MainHolds(u) => ~Torn(Thread'[u])
               /\ main = "unlock" /\ at = u => half = Thread'[u].ret[1]
               /\ c.place \in {"write", "rewrite", "unlock"} =>
                      /\ Thread'[u].sem = 0 /\ ~MainHolds(u)
                      /\ IF c.place = "rewrite" THEN Thread'[u].ret[1] = c.run
                                                ELSE ~Torn(Thread'[u])
    PROVE  ExecInv'
<1>1. ExecTypeOK /\ Placed /\ BuffersKept /\ WholeTexts /\ PidsKept /\ Counted
  BY DEF ExecInv
<1>2. proc \in [Processes -> ProcessSet] /\ Len(Thread) \in Nat
  BY <1>1, ExecFields
<1>3. /\ proc' \in [Processes -> ProcessSet] /\ proc'[p] = c
      /\ \A q \in Processes : q # p => proc'[q] = proc[q]
  BY <1>2
<1>4. UNCHANGED <<usable, EXEC, main, at, half, sigchld, faults, massacre, stranger, interrupted>>
  BY DEF MainVars
<1>5. \A q \in Processes : proc[q].is = "child" /\ proc[q].thread = u => q = p
  BY <1>1 DEF Placed
<1>6. ExecTypeOK'
  BY <1>1, <1>3, <1>4 DEF ExecTypeOK, ProcessSet
<1>7. Placed'
  <2>1. ASSUME NEW q \in Processes, proc'[q].is = "child"
        PROVE  /\ proc'[q].place # "-"
               /\ proc'[q].thread \in 1 .. Len(Thread)
               /\ Thread'[proc'[q].thread].pid = q
    <3>1. CASE q = p
      BY <1>1, <1>3, <3>1 DEF Placed
    <3>2. CASE q # p
      <4>1. proc'[q] = proc[q] /\ proc[q].thread \in 1 .. Len(Thread) /\ proc[q].thread # u
        BY <1>1, <1>3, <1>5, <2>1, <3>2 DEF Placed
      <4> QED BY <1>1, <2>1, <4>1 DEF Placed
    <3> QED BY <3>1, <3>2
  <2> QED BY <1>1, <1>4, <2>1 DEF Placed
<1>8. BuffersKept'
  <2> SUFFICES ASSUME usable, ~interrupted, NEW v \in 1 .. Len(Thread)
               PROVE  BufferKept(v)'
    BY <1>4 DEF BuffersKept
  <2>1. MainHolds(v)' <=> MainHolds(v)
    BY <1>4 DEF MainHolds
  <2>2. CASE v # u
    <3>1. BufferKept(v) /\ Thread'[v] = Thread[v]
      BY <1>1, <2>2 DEF BuffersKept
    <3>2. \A q \in Processes : ChildHolds(q, v)' => ChildHolds(q, v) /\ proc'[q] = proc[q]
      BY <1>3, <2>2 DEF ChildHolds
    <3> QED BY <1>4, <2>1, <3>1, <3>2 DEF BufferKept, Torn
  <2>3. CASE v = u
    <3>1. \A q \in Processes : ChildHolds(q, u)' =>
              q = p /\ c.place \in {"write", "rewrite", "unlock"}
      BY <1>3, <1>5 DEF ChildHolds
    <3> QED BY <1>3, <1>4, <2>1, <2>3, <3>1 DEF BufferKept, Torn
  <2> QED BY <2>2, <2>3
<1>9. WholeTexts'
  BY <1>1, <1>4 DEF WholeTexts
<1>10. \A v \in 1 .. Len(Thread) : Thread'[v].pid = Thread[v].pid /\ Thread'[v].key = Thread[v].key
  OBVIOUS
<1>11. PidsKept'
  <2>1. \A q \in Processes : proc'[q].is = proc[q].is
    BY <1>3
  <2>2. \A v \in 1 .. Len(Thread) : Thread[v].pid \in Processes
    BY <1>1, ExecFields
  <2>3. PidsFreed' <=> PidsFreed
    BY <1>4 DEF PidsFreed
  <2> QED BY <1>1, <1>4, <1>10, <2>1, <2>2, <2>3 DEF PidsKept
<1>12. Counted'
  <2>1. \A k \in Keys : ThreadsOf(k)' = ThreadsOf(k)
    BY <1>1, <1>10, CountedKept
  <2> QED BY <1>1, <1>4, <2>1 DEF Counted
<1> QED BY <1>6, <1>7, <1>8, <1>9, <1>11, <1>12 DEF ExecInv

\* exec_thread: the command runs, the buffer is locked, written, and unlocked.
LEMMA ThreadKeeps ==
    ASSUME ExecInv, NEW p \in Processes, ExecThread(p)
    PROVE  ExecInv'
<1> DEFINE u == proc[p].thread
<1>1. ExecTypeOK /\ Placed /\ BuffersKept /\ usable \in BOOLEAN
  BY DEF ExecInv, ExecTypeOK
<1>2. proc[p].is = "child"
  BY DEF ExecThread, RunCommand, LockBuffer, WriteBuffer, UnlockBuffer, ChildAt
<1>3. /\ u \in 1 .. Len(Thread) /\ Thread[u].pid = p /\ proc[p] \in ProcessSet
      /\ Thread[u] \in ThreadSet /\ Thread[u].ret \in Runs \X Runs /\ Thread[u].sem \in 0 .. 2
      /\ proc \in [Processes -> ProcessSet] /\ Thread \in Seq(ThreadSet)
  BY <1>1, <1>2, ExecFields DEF Placed, ExecTypeOK
<1>4. /\ proc[p].is \in {"free", "child", "zombie", "stranger"} /\ u \in Nat
      /\ proc[p].run \in {0, 1}
  BY <1>3 DEF ProcessSet, Runs
<1>5. usable /\ ~interrupted => BufferKept(u)
  BY <1>1, <1>3 DEF BuffersKept
<1>6. CASE RunCommand(p)
  <2> DEFINE c == [proc[p] EXCEPT !.place = "lock", !.run = 1 - @]
  <2>1. /\ proc[p].place = "run" /\ proc' = [proc EXCEPT ![p] = c]
        /\ UNCHANGED <<Thread, MainVars>>
    BY <1>3, <1>6 DEF RunCommand, ChildAt
  <2>2. 1 - proc[p].run \in Runs
    BY <1>4 DEF Runs
  <2>3. c \in ProcessSet /\ c.is = "child" /\ c.thread = u /\ c.place = "lock"
    BY <1>2, <1>3, <2>2 DEF ProcessSet
  <2> HIDE DEF c
  <2>4. /\ usable /\ ~interrupted =>
               /\ Thread'[u].sem <= 1
               /\ MainHolds(u) \/ Torn(Thread'[u]) => Thread'[u].sem = 0
               /\ MainHolds(u) => ~Torn(Thread'[u])
               /\ main = "unlock" /\ at = u => half = Thread'[u].ret[1]
    BY <1>5, <2>1 DEF BufferKept
  <2> QED BY <1>2, <1>3, <2>1, <2>3, <2>4, ChildMoves
<1>7. CASE LockBuffer(p)
  <2> DEFINE c == [proc[p] EXCEPT !.place = "write"]
             t == Locked(Thread[u])
  <2>1. /\ proc[p].place = "lock" /\ proc' = [proc EXCEPT ![p] = c]
        /\ ~Waits(Thread[u]) /\ Thread' = [Thread EXCEPT ![u] = t]
        /\ UNCHANGED MainVars
    BY <1>3, <1>7 DEF LockBuffer, ChildAt, Moves
  <2>2. c \in ProcessSet /\ c.is = "child" /\ c.thread = u /\ c.place = "write"
    BY <1>2, <1>3 DEF ProcessSet
  <2>3. /\ t \in ThreadSet /\ t.key = Thread[u].key /\ t.pid = Thread[u].pid /\ t.ret = Thread[u].ret
        /\ usable => t.sem = Thread[u].sem - 1
    BY <1>1, <1>3, <2>1, SemaphoreMoves
  <2> HIDE DEF c, t
  <2>4. /\ Thread' \in Seq(ThreadSet) /\ Len(Thread') = Len(Thread) /\ Thread'[u] = t
        /\ \A v \in 1 .. Len(Thread) : v # u => Thread'[v] = Thread[v]
    BY <1>1, <1>3, <2>1, <2>3, ThreadChange
  <2>5. ASSUME usable, ~interrupted
        PROVE  t.sem = 0 /\ ~MainHolds(u) /\ ~Torn(Thread[u])
    BY <1>3, <1>5, <2>1, <2>3, <2>5 DEF BufferKept, Waits
  <2>6. Torn(t) <=> Torn(Thread[u])
    BY <2>3 DEF Torn
  <2>7. usable /\ ~interrupted =>
               /\ Thread'[u].sem <= 1
               /\ MainHolds(u) \/ Torn(Thread'[u]) => Thread'[u].sem = 0
               /\ MainHolds(u) => ~Torn(Thread'[u])
               /\ main = "unlock" /\ at = u => half = Thread'[u].ret[1]
               /\ Thread'[u].sem = 0 /\ ~MainHolds(u) /\ ~Torn(Thread'[u])
    BY <1>5, <2>3, <2>4, <2>5, <2>6 DEF BufferKept
  <2> QED BY <1>2, <1>3, <2>1, <2>2, <2>3, <2>4, <2>7, ChildMoves
<1>8. CASE WriteBuffer(p) /\ proc[p].place = "write"
  <2> DEFINE c == [proc[p] EXCEPT !.place = "rewrite"]
             t == [Thread[u] EXCEPT !.ret[1] = proc[p].run]
  <2>1. /\ proc' = [proc EXCEPT ![p] = c] /\ Thread' = [Thread EXCEPT ![u] = t]
        /\ UNCHANGED MainVars
    BY <1>3, <1>8 DEF WriteBuffer, ChildAt, Moves
  <2>2. c \in ProcessSet /\ c.is = "child" /\ c.thread = u /\ c.place = "rewrite" /\ c.run = proc[p].run
    BY <1>2, <1>3 DEF ProcessSet
  <2>3. /\ t \in ThreadSet /\ t.key = Thread[u].key /\ t.pid = Thread[u].pid
        /\ t.sem = Thread[u].sem /\ t.ret[1] = proc[p].run
    BY <1>3, <1>4, HalfWritten DEF Runs
  <2> HIDE DEF c, t
  <2>4. /\ Thread' \in Seq(ThreadSet) /\ Len(Thread') = Len(Thread) /\ Thread'[u] = t
        /\ \A v \in 1 .. Len(Thread) : v # u => Thread'[v] = Thread[v]
    BY <1>1, <1>3, <2>1, <2>3, ThreadChange
  <2>5. ASSUME usable, ~interrupted
        PROVE  Thread[u].sem = 0 /\ ~MainHolds(u)
    BY <1>2, <1>5, <1>8, <2>5 DEF BufferKept, ChildHolds
  <2>6. usable /\ ~interrupted =>
               /\ Thread'[u].sem <= 1
               /\ MainHolds(u) \/ Torn(Thread'[u]) => Thread'[u].sem = 0
               /\ MainHolds(u) => ~Torn(Thread'[u])
               /\ main = "unlock" /\ at = u => half = Thread'[u].ret[1]
               /\ Thread'[u].sem = 0 /\ ~MainHolds(u) /\ Thread'[u].ret[1] = c.run
    BY <2>2, <2>3, <2>4, <2>5 DEF MainHolds
  <2> QED BY <1>2, <1>3, <2>1, <2>2, <2>3, <2>4, <2>6, ChildMoves
<1>9. CASE WriteBuffer(p) /\ proc[p].place # "write"
  <2> DEFINE c == [proc[p] EXCEPT !.place = "unlock"]
             t == [Thread[u] EXCEPT !.ret[2] = proc[p].run]
  <2>1. /\ proc[p].place = "rewrite"
        /\ proc' = [proc EXCEPT ![p] = c] /\ Thread' = [Thread EXCEPT ![u] = t]
        /\ UNCHANGED MainVars
    BY <1>3, <1>9 DEF WriteBuffer, ChildAt, Moves
  <2>2. c \in ProcessSet /\ c.is = "child" /\ c.thread = u /\ c.place = "unlock"
    BY <1>2, <1>3 DEF ProcessSet
  <2>3. /\ t \in ThreadSet /\ t.key = Thread[u].key /\ t.pid = Thread[u].pid
        /\ t.sem = Thread[u].sem /\ t.ret[2] = proc[p].run /\ t.ret[1] = Thread[u].ret[1]
    BY <1>3, <1>4, HalfWritten DEF Runs
  <2> HIDE DEF c, t
  <2>4. /\ Thread' \in Seq(ThreadSet) /\ Len(Thread') = Len(Thread) /\ Thread'[u] = t
        /\ \A v \in 1 .. Len(Thread) : v # u => Thread'[v] = Thread[v]
    BY <1>1, <1>3, <2>1, <2>3, ThreadChange
  <2>5. ASSUME usable, ~interrupted
        PROVE  Thread[u].sem = 0 /\ ~MainHolds(u) /\ Thread[u].ret[1] = proc[p].run
    BY <1>2, <1>5, <2>1, <2>5 DEF BufferKept, ChildHolds
  <2>6. usable /\ ~interrupted =>
               /\ Thread'[u].sem <= 1
               /\ MainHolds(u) \/ Torn(Thread'[u]) => Thread'[u].sem = 0
               /\ MainHolds(u) => ~Torn(Thread'[u])
               /\ main = "unlock" /\ at = u => half = Thread'[u].ret[1]
               /\ Thread'[u].sem = 0 /\ ~MainHolds(u) /\ ~Torn(Thread'[u])
    BY <2>3, <2>4, <2>5 DEF MainHolds, Torn
  <2> QED BY <1>2, <1>3, <2>1, <2>2, <2>3, <2>4, <2>6, ChildMoves
<1>10. CASE UnlockBuffer(p)
  <2> DEFINE c == [proc[p] EXCEPT !.place = "run"]
             t == Unlocked(Thread[u])
  <2>1. /\ proc[p].place = "unlock" /\ proc' = [proc EXCEPT ![p] = c]
        /\ Thread' = [Thread EXCEPT ![u] = t]
        /\ UNCHANGED MainVars
    BY <1>3, <1>10 DEF UnlockBuffer, ChildAt, Moves
  <2>2. c \in ProcessSet /\ c.is = "child" /\ c.thread = u /\ c.place = "run"
    BY <1>2, <1>3 DEF ProcessSet
  <2>3. /\ t \in ThreadSet /\ t.key = Thread[u].key /\ t.pid = Thread[u].pid /\ t.ret = Thread[u].ret
        /\ usable => t.sem = IF Thread[u].sem < 2 THEN Thread[u].sem + 1 ELSE 2
    BY <1>1, <1>3, SemaphoreMoves
  <2> HIDE DEF c, t
  <2>4. /\ Thread' \in Seq(ThreadSet) /\ Len(Thread') = Len(Thread) /\ Thread'[u] = t
        /\ \A v \in 1 .. Len(Thread) : v # u => Thread'[v] = Thread[v]
    BY <1>1, <1>3, <2>1, <2>3, ThreadChange
  <2>5. ASSUME usable, ~interrupted
        PROVE  t.sem = 1 /\ ~MainHolds(u) /\ ~Torn(t)
    <3>1. Thread[u].sem = 0 /\ ~MainHolds(u) /\ ~Torn(Thread[u])
      BY <1>2, <1>5, <2>1, <2>5 DEF BufferKept, ChildHolds
    <3> QED BY <2>3, <2>5, <3>1 DEF Torn
  <2>6. usable /\ ~interrupted =>
               /\ Thread'[u].sem <= 1
               /\ MainHolds(u) \/ Torn(Thread'[u]) => Thread'[u].sem = 0
               /\ MainHolds(u) => ~Torn(Thread'[u])
               /\ main = "unlock" /\ at = u => half = Thread'[u].ret[1]
    BY <2>4, <2>5 DEF MainHolds
  <2> QED BY <1>2, <1>3, <2>1, <2>2, <2>3, <2>4, <2>6, ChildMoves
<1> QED BY <1>6, <1>7, <1>8, <1>9, <1>10 DEF ExecThread

-----------------------------------------------------------------------------
(* Processes are killed, and their pids used again. *)

\* What is left of a process.
LEMMA KilledFields ==
    ASSUME NEW x \in ProcessSet
    PROVE  /\ Killed(x) \in ProcessSet
           /\ Killed(x).is # "child"
           /\ x.is = "zombie" => Killed(x) = x
           /\ x.is = "child" /\ ~sigchld => Killed(x).is = "zombie"
BY DEF Killed, Free, ProcessSet, Runs

\* Killing keeps what is known of the threads that go on.
LEMMA KillingKeeps ==
    ASSUME ExecInv, proc' \in [Processes -> ProcessSet],
           \A q \in Processes : proc'[q] = proc[q] \/ proc'[q] = Killed(proc[q]),
           UNCHANGED <<usable, Thread, half, interrupted>>,
           \/ UNCHANGED <<main, at>>
           \/ main = "exit" /\ main' \in {"exit", "exited"} /\ at' # 0
    PROVE  Placed' /\ BuffersKept'
<1>1. ExecTypeOK /\ Placed /\ BuffersKept /\ \A q \in Processes : proc[q] \in ProcessSet
  BY ExecFields DEF ExecInv
<1>2. \A q \in Processes : proc'[q].is = "child" => proc'[q] = proc[q]
  BY <1>1, KilledFields
<1>3. Placed'
  BY <1>1, <1>2 DEF Placed
<1>4. BuffersKept'
  <2>1. \A q \in Processes : \A v : ChildHolds(q, v)' => ChildHolds(q, v) /\ proc'[q] = proc[q]
    BY <1>2 DEF ChildHolds
  <2>2. \A v : MainHolds(v)' <=> MainHolds(v)
    BY DEF MainHolds
  <2>3. \A v \in 1 .. Len(Thread) : BufferKept(v) => BufferKept(v)'
    BY <2>1, <2>2 DEF BufferKept, Torn
  <2> QED BY <1>1, <2>3 DEF BuffersKept
<1> QED BY <1>3, <1>4

\* A text is put in the hash.
LEMMA PutFields ==
    ASSUME ExecTypeOK, NEW k \in Keys, NEW text \in Runs \X Runs, Put(k, text)
    PROVE  /\ EXEC' \in [Keys -> [text : Runs \X Runs, age : {"none", "known", "negative"}]]
           /\ EXEC'[k].text = text /\ EXEC'[k].age = "known"
           /\ \A other \in Keys : other # k => EXEC'[other] = EXEC[other]
BY DEF ExecTypeOK, Put

\* A first call is counted also if it creates no thread.
LEMMA FirstCallKeeps ==
    ASSUME ExecInv, NEW k \in Keys, FirstCall(k), Put(k, Empty), UNCHANGED Thread,
           faults'.setbacks = faults.setbacks, UNCHANGED <<usable, interrupted>>
    PROVE  Counted' /\ WholeTexts'
<1>1. ExecTypeOK /\ WholeTexts /\ Counted /\ faults.setbacks \in Nat
  BY ExecFields DEF ExecInv
<1>2. /\ EXEC'[k].text = Empty /\ EXEC'[k].age = "known"
      /\ \A other \in Keys : other # k => EXEC'[other] = EXEC[other]
  <2>1. Empty \in Runs \X Runs
    BY DEF Empty, Runs
  <2> QED BY <1>1, <2>1, PutFields
<1>3. WholeTexts'
  BY <1>1, <1>2 DEF WholeTexts, Empty
<1>4. \A q \in Keys : ThreadsOf(q)' = ThreadsOf(q)
  BY DEF ThreadsOf
<1>5. Counted'
  <2>1. Cardinality(ThreadsOf(k)) <= faults.setbacks
    BY <1>1 DEF Counted, FirstCall
  <2>2. ThreadsOf(k) = {n \in 1 .. Len(Thread) : Thread[n].key = k} /\ Len(Thread) \in Nat
    BY <1>1, ExecFields DEF ThreadsOf
  <2>3. Cardinality(ThreadsOf(k)) \in Nat
    <3>1. IsFiniteSet(1 .. Len(Thread))
      BY <2>2, FS_Interval
    <3>2. ThreadsOf(k) \in SUBSET (1 .. Len(Thread))
      BY <2>2
    <3> QED BY <3>1, <3>2, FS_Subset, FS_CardinalityType
  <2>4. Cardinality(ThreadsOf(k)) <= faults.setbacks + 1
    BY <1>1, <2>1, <2>3
  <2> QED BY <1>1, <1>2, <1>4, <2>4 DEF Counted
<1> QED BY <1>3, <1>5

\* thread_create fails: everybody is killed.
LEMMA CreateFailsKeeps ==
    ASSUME ExecInv, NEW k \in Keys, CreateFails(k)
    PROVE  ExecInv'
<1>1. ExecTypeOK /\ proc \in [Processes -> ProcessSet]
  BY ExecFields DEF ExecInv
<1>2. /\ FirstCall(k) /\ Fault("failures") /\ Put(k, Empty)
      /\ proc' = [q \in Processes |-> Killed(proc[q])]
      /\ massacre' = TRUE /\ stranger' = TRUE
      /\ UNCHANGED <<usable, Thread, main, at, half, sigchld, interrupted>>
  BY DEF CreateFails, KillEverybody
<1>3. proc' \in [Processes -> ProcessSet] /\ \A q \in Processes : proc'[q] = Killed(proc[q])
  BY <1>1, <1>2, KilledFields
<1>4. Placed' /\ BuffersKept'
  BY <1>2, <1>3, KillingKeeps
<1>5. /\ faults' \in [failures : 0 .. MaxFaults, deaths : 0 .. MaxFaults, setbacks : 0 .. MaxFaults]
      /\ faults'.setbacks = faults.setbacks
  BY <1>1, <1>2, FaultCounted
<1>6. ExecTypeOK'
  <2>1. Empty \in Runs \X Runs
    BY DEF Empty, Runs
  <2>2. EXEC' \in [Keys -> [text : Runs \X Runs, age : {"none", "known", "negative"}]]
    BY <1>1, <1>2, <2>1, PutFields
  <2> QED BY <1>1, <1>2, <1>3, <1>5, <2>2 DEF ExecTypeOK, ProcessSet
<1>7. Counted' /\ WholeTexts'
  BY <1>2, <1>5, FirstCallKeeps
<1>8. PidsKept'
  BY <1>2 DEF PidsKept, PidsFreed
<1> QED BY <1>4, <1>6, <1>7, <1>8 DEF ExecInv

\* A thread dies: unless SIGCHLD is ignored it keeps its pid.
LEMMA DiesKeeps ==
    ASSUME ExecInv, NEW p \in Processes, Dies(p)
    PROVE  ExecInv'
<1>1. /\ ExecTypeOK /\ WholeTexts /\ PidsKept /\ Counted /\ MaxFaults \in Nat
      /\ proc \in [Processes -> ProcessSet] /\ faults.deaths \in 0 .. MaxFaults
      /\ \A v \in 1 .. Len(Thread) : Thread[v].pid \in Processes
  BY ExecFields DEF ExecInv
<1>2. /\ proc[p].is = "child" /\ Fault("deaths")
      /\ proc' = [proc EXCEPT ![p] = Killed(proc[p])]
      /\ UNCHANGED <<usable, Thread, EXEC, main, at, half, sigchld, massacre, stranger, interrupted>>
  BY DEF Dies
<1>3. /\ proc' \in [Processes -> ProcessSet] /\ proc'[p] = Killed(proc[p])
      /\ \A q \in Processes : q # p => proc'[q] = proc[q]
  BY <1>1, <1>2, KilledFields
<1>4. Placed' /\ BuffersKept'
  BY <1>2, <1>3, KillingKeeps
<1>5. /\ faults' \in [failures : 0 .. MaxFaults, deaths : 0 .. MaxFaults, setbacks : 0 .. MaxFaults]
      /\ faults'.setbacks = faults.setbacks /\ faults'.deaths = faults.deaths + 1
  BY <1>1, <1>2, FaultCounted
<1>6. ExecTypeOK'
  BY <1>1, <1>2, <1>3, <1>5 DEF ExecTypeOK, ProcessSet
<1>7. WholeTexts'
  BY <1>1, <1>2 DEF WholeTexts
<1>8. Counted'
  BY <1>1, <1>2, <1>5 DEF Counted, ThreadsOf
<1>9. PidsKept'
  <2> SUFFICES ASSUME ~PidsFreed' PROVE PidsKept'
    BY DEF PidsKept
  <2>1. faults'.deaths > 0
    BY <1>1, <1>5
  <2>2. ~sigchld /\ ~PidsFreed
    BY <1>2, <2>1 DEF PidsFreed
  <2>3. proc'[p].is = "zombie"
    BY <1>1, <1>2, <1>3, <2>2, KilledFields
  <2> QED BY <1>1, <1>2, <1>3, <2>2, <2>3 DEF PidsKept
<1> QED BY <1>4, <1>6, <1>7, <1>8, <1>9 DEF ExecInv

\* destroy_exec_thread kills the process of its thread; the others' pids are different.
LEMMA DestroyKeeps ==
    ASSUME ExecInv, DestroyExecThread
    PROVE  ExecInv'
<1>1. /\ ExecTypeOK /\ Placed /\ WholeTexts /\ PidsKept /\ Counted
      /\ proc \in [Processes -> ProcessSet] /\ Len(Thread) \in Nat
      /\ at \in Nat /\ at <= Len(Thread) + 1
      /\ \A v \in 1 .. Len(Thread) : Thread[v].pid \in Processes
  BY ExecFields DEF ExecInv
<1>2. /\ main = "exit"
      /\ UNCHANGED <<usable, Thread, EXEC, half, sigchld, faults, interrupted>>
  BY DEF DestroyExecThread
<1>3. at # 0
  BY <1>1, <1>2 DEF Placed
<1>4. WholeTexts' /\ Counted'
  BY <1>1, <1>2 DEF WholeTexts, Counted, ThreadsOf
<1>5. CASE at <= Len(Thread)
  <2> DEFINE pid == Thread[at].pid
  <2>1. /\ proc' = [proc EXCEPT ![pid] = Killed(proc[pid])]
        /\ stranger' = (stranger \/ proc[pid].is = "stranger")
        /\ massacre' = massacre /\ at' = at + 1 /\ main' = main
    BY <1>1, <1>3, <1>5 DEF DestroyExecThread, KillThread
  <2>2. at \in 1 .. Len(Thread) /\ pid \in Processes
    BY <1>1, <1>3, <1>5
  <2> HIDE DEF pid
  <2>3. /\ proc' \in [Processes -> ProcessSet]
        /\ \A q \in Processes : proc'[q] = proc[q] \/ proc'[q] = Killed(proc[q])
        /\ \A q \in Processes : q # pid => proc'[q] = proc[q]
    BY <1>1, <2>1, <2>2, KilledFields
  <2>4. Placed' /\ BuffersKept'
    BY <1>1, <1>2, <2>1, <2>3, KillingKeeps
  <2>5. ExecTypeOK'
    <3>1. at' \in 0 .. Len(Thread) + 1
      BY <1>1, <2>1, <2>2
    <3>2. stranger' \in BOOLEAN
      BY <2>1
    <3> QED BY <1>1, <1>2, <2>1, <2>3, <3>1, <3>2 DEF ExecTypeOK, ProcessSet
  <2>6. PidsKept'
    <3> SUFFICES ASSUME ~PidsFreed' PROVE PidsKept'
      BY DEF PidsKept
    <3>1. ~PidsFreed
      BY <1>2, <2>1 DEF PidsFreed
    <3>2. ~stranger'
      <4>1. at <= at
        BY <1>1
      <4>2. ~stranger /\ proc[pid].is # "stranger"
        BY <1>1, <2>2, <3>1, <4>1 DEF PidsKept, pid
      <4> QED BY <2>1, <4>2
    <3>3. \A v \in 1 .. Len(Thread) : at' <= v => at <= v /\ v # at
      BY <1>1, <2>1
    <3>4. \A v \in 1 .. Len(Thread) : v # at => Thread[v].pid # pid
      BY <1>1, <2>2, <3>1 DEF PidsKept, pid
    <3>5. \A v \in 1 .. Len(Thread) : at' <= v => proc'[Thread[v].pid].is \in {"child", "zombie"}
      BY <1>1, <2>3, <3>1, <3>3, <3>4 DEF PidsKept
    <3> QED BY <1>1, <1>2, <2>1, <3>1, <3>2, <3>5 DEF PidsKept
  <2> QED BY <1>4, <2>4, <2>5, <2>6 DEF ExecInv
<1>6. CASE ~(at <= Len(Thread))
  <2>1. main' = "exited" /\ UNCHANGED <<proc, stranger, massacre, at>>
    BY <1>6 DEF DestroyExecThread
  <2>2. Placed' /\ BuffersKept'
    BY <1>1, <1>2, <1>3, <2>1, KillingKeeps
  <2>3. ExecTypeOK'
    BY <1>1, <1>2, <2>1 DEF ExecTypeOK
  <2>4. PidsKept'
    BY <1>1, <1>2, <2>1 DEF PidsKept, PidsFreed
  <2> QED BY <1>4, <2>2, <2>3, <2>4 DEF ExecInv
<1> QED BY <1>5, <1>6

\* A pid is used again: it was free, so it is of no thread that is still to be killed.
LEMMA ReusedKeeps ==
    ASSUME ExecInv, NEW p \in Processes, PidReused(p)
    PROVE  ExecInv'
<1>1. /\ ExecTypeOK /\ Placed /\ BuffersKept /\ WholeTexts /\ PidsKept /\ Counted
      /\ proc \in [Processes -> ProcessSet]
      /\ \A v \in 1 .. Len(Thread) : Thread[v].pid \in Processes
  BY ExecFields DEF ExecInv
<1>2. /\ proc[p].is = "free" /\ proc' = [proc EXCEPT ![p] = [proc[p] EXCEPT !.is = "stranger"]]
      /\ UNCHANGED <<Thread, usable, EXEC, main, at, half, sigchld, faults, massacre, stranger, interrupted>>
  BY DEF PidReused, MainVars
<1>3. /\ proc' \in [Processes -> ProcessSet] /\ proc'[p].is = "stranger"
      /\ \A q \in Processes : q # p => proc'[q] = proc[q]
  BY <1>1, <1>2 DEF ProcessSet
<1>4. ExecTypeOK'
  BY <1>1, <1>2, <1>3 DEF ExecTypeOK, ProcessSet
<1>5. \A q \in Processes : proc'[q].is = "child" => proc'[q] = proc[q]
  BY <1>3
<1>6. Placed'
  BY <1>1, <1>2, <1>5 DEF Placed
<1>7. BuffersKept'
  <2>1. \A q \in Processes : \A v : ChildHolds(q, v)' => ChildHolds(q, v) /\ proc'[q] = proc[q]
    BY <1>5 DEF ChildHolds
  <2>2. \A v \in 1 .. Len(Thread) : BufferKept(v) => BufferKept(v)'
    BY <1>2, <2>1 DEF BufferKept, Torn, MainHolds
  <2> QED BY <1>1, <1>2, <2>2 DEF BuffersKept
<1>8. WholeTexts' /\ Counted'
  BY <1>1, <1>2 DEF WholeTexts, Counted, ThreadsOf
<1>9. PidsKept'
  BY <1>1, <1>2, <1>3 DEF PidsKept, PidsFreed
<1> QED BY <1>4, <1>6, <1>7, <1>8, <1>9 DEF ExecInv

-----------------------------------------------------------------------------
(* The steps of the main process. *)

\* thread_create: a new thread has a place in the array of its own, and a pid of its own.
LEMMA CreateKeeps ==
    ASSUME ExecInv, NEW k \in Keys, CreateExecThread(k)
    PROVE  ExecInv'
<1> DEFINE L == Len(Thread)
<1>1. /\ ExecTypeOK /\ Placed /\ BuffersKept /\ WholeTexts /\ PidsKept /\ Counted
      /\ proc \in [Processes -> ProcessSet] /\ L \in Nat /\ DOMAIN Thread = 1 .. L
      /\ \A v \in 1 .. L : Thread[v] \in ThreadSet /\ Thread[v].pid \in Processes
      /\ faults.setbacks \in Nat
  BY ExecFields DEF ExecInv
<1>2. PICK p \in Processes :
          /\ proc[p].is = "free"
          /\ Thread' = Append(Thread, [key |-> k, pid |-> p, ret |-> Empty, sem |-> 1])
          /\ proc' = [proc EXCEPT ![p] = Child(Len(Thread) + 1)]
  BY DEF CreateExecThread
<1> DEFINE t == [key |-> k, pid |-> p, ret |-> Empty, sem |-> 1]
           c == Child(L + 1)
<1>3. /\ main = "loop" /\ FirstCall(k) /\ Put(k, Empty)
      /\ UNCHANGED <<usable, main, at, half, sigchld, faults, massacre, stranger, interrupted>>
  BY DEF CreateExecThread
<1>4. /\ t \in ThreadSet /\ t.pid = p /\ t.key = k /\ t.sem = 1 /\ ~Torn(t)
  BY DEF ThreadSet, Empty, Runs, Torn
<1>5. c \in ProcessSet /\ c.is = "child" /\ c.thread = L + 1 /\ c.place = "run"
  BY <1>1 DEF Child, ProcessSet, Runs
<1>6. Thread' = Append(Thread, t) /\ proc' = [proc EXCEPT ![p] = c]
  BY <1>2
<1> HIDE DEF t, c
<1>7. /\ Thread' \in Seq(ThreadSet) /\ Len(Thread') = L + 1
      /\ Thread'[L + 1] = t
      /\ \A v \in 1 .. L : Thread'[v] = Thread[v]
  <2>1. Thread \in Seq(ThreadSet)
    BY <1>1 DEF ExecTypeOK
  <2> QED BY <1>4, <1>6, <2>1, AppendProperties
<1> HIDE DEF L
<1>8. /\ proc' \in [Processes -> ProcessSet] /\ proc'[p] = c
      /\ \A q \in Processes : q # p => proc'[q] = proc[q]
  BY <1>1, <1>5, <1>6
<1>9. /\ \A v \in 1 .. L + 1 : v \in 1 .. L \/ v = L + 1
      /\ \A v \in 1 .. L : v \in 1 .. L + 1 /\ v # L + 1
      /\ L + 1 \in 1 .. L + 1
  BY <1>1
<1>10. ExecTypeOK'
  <2>1. Empty \in Runs \X Runs
    BY DEF Empty, Runs
  <2>2. EXEC' \in [Keys -> [text : Runs \X Runs, age : {"none", "known", "negative"}]]
    BY <1>1, <1>3, <2>1, PutFields
  <2>3. at' \in 0 .. Len(Thread') + 1
    <3>1. at \in Nat /\ at <= L + 1
      BY <1>1, ExecFields DEF L
    <3> QED BY <1>1, <1>3, <1>7, <3>1
  <2> QED BY <1>1, <1>3, <1>7, <1>8, <2>2, <2>3 DEF ExecTypeOK, ProcessSet
<1>11. Placed'
  <2>1. ASSUME NEW q \in Processes, proc'[q].is = "child"
        PROVE  /\ proc'[q].place # "-"
               /\ proc'[q].thread \in 1 .. L + 1
               /\ Thread'[proc'[q].thread].pid = q
    <3>1. CASE q = p
      BY <1>4, <1>5, <1>7, <1>8, <1>9, <3>1
    <3>2. CASE q # p
      BY <1>1, <1>7, <1>8, <1>9, <2>1, <3>2 DEF Placed, L
    <3> QED BY <3>1, <3>2
  <2> QED BY <1>3, <1>7, <2>1 DEF Placed
<1>12. BuffersKept'
  <2> SUFFICES ASSUME usable, ~interrupted, NEW v \in 1 .. L + 1
               PROVE  BufferKept(v)'
    BY <1>3, <1>7 DEF BuffersKept
  <2>1. ~MainHolds(v)' /\ main' = "loop"
    BY <1>3 DEF MainHolds
  <2>2. CASE v \in 1 .. L
    <3>1. BufferKept(v) /\ Thread'[v] = Thread[v]
      BY <1>1, <1>7, <2>2 DEF BuffersKept, L
    <3>2. \A q \in Processes : ChildHolds(q, v)' => ChildHolds(q, v) /\ proc'[q] = proc[q]
      BY <1>5, <1>8 DEF ChildHolds
    <3>3. ~MainHolds(v)
      BY <1>3 DEF MainHolds
    <3> QED BY <2>1, <3>1, <3>2, <3>3 DEF BufferKept, Torn
  <2>3. CASE v = L + 1
    <3>1. ASSUME NEW q \in Processes PROVE ~ChildHolds(q, v)'
      <4>1. CASE q = p
        BY <1>5, <1>8, <4>1 DEF ChildHolds
      <4>2. CASE q # p
        <5>1. proc[q].is = "child" => proc[q].thread # v
          BY <1>1, <1>9, <2>3 DEF Placed, L
        <5> QED BY <1>8, <4>2, <5>1 DEF ChildHolds
      <4> QED BY <4>1, <4>2
    <3>2. Thread'[v].sem = 1 /\ Thread'[v].ret[1] = Thread'[v].ret[2]
      BY <1>4, <1>7, <2>3 DEF Torn
    <3> QED BY <2>1, <3>1, <3>2 DEF BufferKept, Torn
  <2> QED BY <1>9, <2>2, <2>3
<1>13. WholeTexts'
  <2>1. Empty \in Runs \X Runs
    BY DEF Empty, Runs
  <2>2. EXEC'[k].text = Empty /\ \A other \in Keys : other # k => EXEC'[other] = EXEC[other]
    BY <1>1, <1>3, <2>1, PutFields
  <2> QED BY <1>1, <1>3, <2>2 DEF WholeTexts, Empty
<1>14. PidsKept'
  <2> SUFFICES ASSUME ~PidsFreed' PROVE PidsKept'
    BY DEF PidsKept
  <2>1. ~PidsFreed
    BY <1>3 DEF PidsFreed
  <2>2. /\ ~stranger
        /\ \A v \in 1 .. L : proc[Thread[v].pid].is \in {"child", "zombie"}
        /\ \A u, v \in 1 .. L : Thread[u].pid = Thread[v].pid => u = v
    BY <1>1, <1>3, <2>1 DEF PidsKept, L
  <2>3. \A v \in 1 .. L : Thread'[v].pid # p /\ Thread'[v].pid = Thread[v].pid
    BY <1>2, <1>7, <2>2
  <2>4. \A v \in 1 .. L + 1 : proc'[Thread'[v].pid].is \in {"child", "zombie"}
    BY <1>1, <1>4, <1>5, <1>7, <1>8, <1>9, <2>2, <2>3 DEF L
  <2>5. \A u, v \in 1 .. L + 1 : Thread'[u].pid = Thread'[v].pid => u = v
    BY <1>4, <1>7, <1>9, <2>2, <2>3
  <2> QED BY <1>3, <1>7, <2>2, <2>4, <2>5 DEF PidsKept
<1>15. Counted'
  <2>1. DOMAIN Thread' = 1 .. L + 1
    BY <1>7
  <2>2. ThreadsOf(k)' = ThreadsOf(k) \cup {L + 1}
    BY <1>1, <1>4, <1>7, <1>9, <2>1 DEF ThreadsOf, L
  <2>3. \A other \in Keys : other # k => ThreadsOf(other)' = ThreadsOf(other)
    BY <1>1, <1>4, <1>7, <1>9, <2>1 DEF ThreadsOf, L
  <2>4. IsFiniteSet(ThreadsOf(k)) /\ L + 1 \notin ThreadsOf(k)
    <3>1. IsFiniteSet(1 .. L)
      BY <1>1, FS_Interval
    <3>2. ThreadsOf(k) \in SUBSET (1 .. L)
      BY <1>1 DEF ThreadsOf, L
    <3> QED BY <1>9, <3>1, <3>2, FS_Subset
  <2>5. Cardinality(ThreadsOf(k)) \in Nat
    BY <2>4, FS_CardinalityType
  <2>6. Cardinality(ThreadsOf(k)') = Cardinality(ThreadsOf(k)) + 1
    BY <2>2, <2>4, FS_AddElement
  <2>7. Cardinality(ThreadsOf(k)) <= faults.setbacks
    BY <1>1, <1>3 DEF Counted, FirstCall
  <2>8. Cardinality(ThreadsOf(k)') <= faults.setbacks + 1
    BY <1>1, <2>5, <2>6, <2>7
  <2>9. EXEC'[k].age = "known" /\ \A other \in Keys : other # k => EXEC'[other] = EXEC[other]
    <3>1. Empty \in Runs \X Runs
      BY DEF Empty, Runs
    <3> QED BY <1>1, <1>3, <3>1, PutFields
  <2> QED BY <1>1, <1>3, <2>3, <2>8, <2>9 DEF Counted
<1> QED BY <1>10, <1>11, <1>12, <1>13, <1>14, <1>15 DEF ExecInv

\* Steps of the main process between two texts keep the invariant if they keep the hash's.
LEMMA QuietKeeps ==
    ASSUME ExecInv, ExecTypeOK', WholeTexts', Counted',
           UNCHANGED <<usable, Thread, proc, massacre, stranger>>,
           PidsFreed => PidsFreed', interrupted => interrupted',
           \/ UNCHANGED <<main, at, half>>
           \/ main = "loop" /\ main' = "lock" /\ at' \in 1 .. Len(Thread)
           \/ main = "loop" /\ main' = "exit" /\ at' # 0
           \/ main = "lock" /\ main' = "copy" /\ interrupted' /\ UNCHANGED at
    PROVE  ExecInv'
<1>1. Placed /\ BuffersKept /\ PidsKept /\ Len(Thread) \in Nat
  BY ExecFields DEF ExecInv
<1>2. Placed'
  BY <1>1 DEF Placed
<1>3. BuffersKept'
  <2> SUFFICES ASSUME usable, ~interrupted', NEW v \in 1 .. Len(Thread)
               PROVE  BufferKept(v)'
    BY DEF BuffersKept
  <2>1. BufferKept(v)
    BY <1>1 DEF BuffersKept
  <2>2. \A q \in Processes : ChildHolds(q, v)' <=> ChildHolds(q, v)
    BY DEF ChildHolds
  <2>3. (MainHolds(v)' => MainHolds(v)) /\ (main' = "unlock" /\ at' = v => main = "unlock" /\ at = v /\ half' = half)
    BY DEF MainHolds
  <2> QED BY <2>1, <2>2, <2>3 DEF BufferKept, Torn
<1>4. PidsKept'
  BY <1>1 DEF PidsKept
<1> QED BY <1>2, <1>3, <1>4 DEF ExecInv

\* The array is full, a text is read again, a wait is broken off, a button runs a
\* program, lcd4linux ends, and the clock goes one way or the other.
LEMMA OtherThreadsKeep ==
    ASSUME ExecInv,
           \/ \E k \in Keys : CreateRefused(k) \/ Reread(k)
           \/ LockInterrupted \/ ButtonExec \/ ExitExec \/ SetBack \/ TimePasses
    PROVE  ExecInv'
<1>1. /\ ExecTypeOK /\ WholeTexts /\ Counted /\ Len(Thread) \in Nat /\ DOMAIN Thread = 1 .. Len(Thread)
      /\ faults.setbacks \in 0 .. MaxFaults /\ MaxFaults \in Nat
  BY ExecFields DEF ExecInv
<1>2. ASSUME NEW k \in Keys, CreateRefused(k)
      PROVE  ExecInv'
  <2>1. /\ FirstCall(k) /\ Put(k, Empty)
        /\ UNCHANGED <<usable, Thread, proc, main, at, half, sigchld, faults, massacre, stranger, interrupted>>
    BY <1>2 DEF CreateRefused
  <2>2. Counted' /\ WholeTexts'
    BY <2>1, FirstCallKeeps
  <2>3. ExecTypeOK'
    <3>1. Empty \in Runs \X Runs
      BY DEF Empty, Runs
    <3>2. EXEC' \in [Keys -> [text : Runs \X Runs, age : {"none", "known", "negative"}]]
      BY <1>1, <2>1, <3>1, PutFields
    <3> QED BY <1>1, <2>1, <3>2 DEF ExecTypeOK
  <2> QED BY <2>1, <2>2, <2>3, QuietKeeps DEF PidsFreed
<1>3. ASSUME NEW k \in Keys, Reread(k)
      PROVE  ExecInv'
  <2>1. /\ main = "loop" /\ main' = "lock" /\ at' \in 1 .. Len(Thread)
        /\ UNCHANGED <<usable, Thread, proc, EXEC, half, sigchld, faults, massacre, stranger, interrupted>>
    BY <1>1, <1>3 DEF Reread, FindThread
  <2>2. ExecTypeOK' /\ WholeTexts' /\ Counted'
    BY <1>1, <2>1 DEF ExecTypeOK, WholeTexts, Counted, ThreadsOf
  <2> QED BY <2>1, <2>2, QuietKeeps DEF PidsFreed
<1>4. CASE LockInterrupted
  <2>1. /\ main = "lock" /\ main' = "copy" /\ interrupted' = TRUE
        /\ UNCHANGED <<usable, Thread, proc, EXEC, at, half, sigchld, faults, massacre, stranger>>
    BY <1>4 DEF LockInterrupted
  <2>2. ExecTypeOK' /\ WholeTexts' /\ Counted'
    BY <1>1, <2>1 DEF ExecTypeOK, WholeTexts, Counted, ThreadsOf
  <2> QED BY <2>1, <2>2, QuietKeeps DEF PidsFreed
<1>5. CASE ButtonExec
  <2>1. /\ sigchld' = TRUE
        /\ UNCHANGED <<usable, Thread, proc, EXEC, main, at, half, faults, massacre, stranger, interrupted>>
    BY <1>5 DEF ButtonExec
  <2>2. ExecTypeOK' /\ WholeTexts' /\ Counted'
    BY <1>1, <2>1 DEF ExecTypeOK, WholeTexts, Counted, ThreadsOf
  <2> QED BY <2>1, <2>2, QuietKeeps DEF PidsFreed
<1>6. CASE ExitExec
  <2>1. /\ main = "loop" /\ main' = "exit" /\ at' = 1
        /\ UNCHANGED <<usable, Thread, proc, EXEC, half, sigchld, faults, massacre, stranger, interrupted>>
    BY <1>6 DEF ExitExec
  <2>2. ExecTypeOK' /\ WholeTexts' /\ Counted'
    BY <1>1, <2>1 DEF ExecTypeOK, WholeTexts, Counted, ThreadsOf
  <2> QED BY <2>1, <2>2, QuietKeeps DEF PidsFreed
<1>7. CASE SetBack
  <2>1. /\ Fault("setbacks")
        /\ EXEC' = [k \in Keys |-> [EXEC[k] EXCEPT !.age = IF EXEC[k].age = "none" THEN EXEC[k].age ELSE "negative"]]
        /\ UNCHANGED <<usable, Thread, proc, main, at, half, sigchld, massacre, stranger, interrupted>>
    BY <1>7 DEF SetBack
  <2>2. /\ faults' \in [failures : 0 .. MaxFaults, deaths : 0 .. MaxFaults, setbacks : 0 .. MaxFaults]
        /\ faults'.setbacks = faults.setbacks + 1 /\ faults'.deaths = faults.deaths
    BY <1>1, <2>1, FaultCounted
  <2>3. /\ EXEC' \in [Keys -> [text : Runs \X Runs, age : {"none", "known", "negative"}]]
        /\ \A k \in Keys : EXEC'[k].text = EXEC[k].text /\ EXEC'[k].age # "known"
    BY <1>1, <2>1 DEF ExecTypeOK
  <2>4. ExecTypeOK' /\ WholeTexts'
    BY <1>1, <2>1, <2>2, <2>3 DEF ExecTypeOK, WholeTexts
  <2>5. Counted'
    <3>1. \A k \in Keys : Cardinality(ThreadsOf(k)) <= faults.setbacks + (IF EXEC[k].age = "known" THEN 1 ELSE 0)
      BY <1>1 DEF Counted
    <3>2. \A k \in Keys : Cardinality(ThreadsOf(k)) \in Nat
      <4>1. IsFiniteSet(1 .. Len(Thread))
        BY <1>1, FS_Interval
      <4>2. \A k \in Keys : ThreadsOf(k) \in SUBSET (1 .. Len(Thread))
        BY <1>1 DEF ThreadsOf
      <4> QED BY <4>1, <4>2, FS_Subset, FS_CardinalityType
    <3>3. \A k \in Keys : Cardinality(ThreadsOf(k)) <= faults.setbacks + 1
      BY <1>1, <3>1, <3>2
    <3>4. \A k \in Keys : ThreadsOf(k)' = ThreadsOf(k)
      BY <2>1 DEF ThreadsOf
    <3>5. \A k \in Keys : Cardinality(ThreadsOf(k)) <= faults'.setbacks + 0
      BY <1>1, <2>2, <3>2, <3>3
    <3> QED BY <2>3, <3>4, <3>5 DEF Counted
  <2> QED BY <2>1, <2>2, <2>4, <2>5, QuietKeeps DEF PidsFreed
<1>8. CASE TimePasses
  <2>1. /\ EXEC' = [k \in Keys |-> [EXEC[k] EXCEPT !.age = IF EXEC[k].age = "none" THEN EXEC[k].age ELSE "known"]]
        /\ UNCHANGED <<usable, Thread, proc, main, at, half, sigchld, faults, massacre, stranger, interrupted>>
    BY <1>8 DEF TimePasses
  <2>2. /\ EXEC' \in [Keys -> [text : Runs \X Runs, age : {"none", "known", "negative"}]]
        /\ \A k \in Keys : EXEC'[k].text = EXEC[k].text /\ (EXEC[k].age = "known" => EXEC'[k].age = "known")
    BY <1>1, <2>1 DEF ExecTypeOK
  <2>3. ExecTypeOK' /\ WholeTexts'
    BY <1>1, <2>1, <2>2 DEF ExecTypeOK, WholeTexts
  <2>4. Counted'
    <3>1. \A k \in Keys : ThreadsOf(k)' = ThreadsOf(k) /\ Cardinality(ThreadsOf(k)) \in Nat
      <4>1. IsFiniteSet(1 .. Len(Thread))
        BY <1>1, FS_Interval
      <4>2. \A k \in Keys : ThreadsOf(k) \in SUBSET (1 .. Len(Thread))
        BY <1>1 DEF ThreadsOf
      <4> QED BY <2>1, <4>1, <4>2, FS_Subset, FS_CardinalityType DEF ThreadsOf
    <3>2. ASSUME NEW k \in Keys
          PROVE  Cardinality(ThreadsOf(k)) <= faults.setbacks + (IF EXEC'[k].age = "known" THEN 1 ELSE 0)
      <4>1. /\ Cardinality(ThreadsOf(k)) <= faults.setbacks + (IF EXEC[k].age = "known" THEN 1 ELSE 0)
            /\ Cardinality(ThreadsOf(k)) \in Nat
        BY <1>1, <3>1 DEF Counted
      <4> QED BY <1>1, <2>2, <4>1
    <3> QED BY <2>1, <3>1, <3>2 DEF Counted
  <2> QED BY <2>1, <2>3, <2>4, QuietKeeps DEF PidsFreed
<1> QED BY <1>2, <1>3, <1>4, <1>5, <1>6, <1>7, <1>8

\* do_exec takes the semaphore: nobody has it, and the text is whole.
LEMMA LockKeeps ==
    ASSUME ExecInv, LockForCopy
    PROVE  ExecInv'
<1> DEFINE t == Locked(Thread[at])
<1>1. /\ ExecTypeOK /\ Placed /\ BuffersKept /\ WholeTexts /\ PidsKept /\ Counted
      /\ usable \in BOOLEAN
  BY DEF ExecInv, ExecTypeOK
<1>2. /\ main = "lock" /\ main' = "copy" /\ ~Waits(Thread[at])
      /\ Thread' = [Thread EXCEPT ![at] = t]
      /\ UNCHANGED <<usable, proc, EXEC, at, half, sigchld, faults, massacre, stranger, interrupted>>
  BY DEF LockForCopy
<1>3. at \in 1 .. Len(Thread) /\ Thread[at] \in ThreadSet /\ Thread[at].sem \in 0 .. 2
  BY <1>1, <1>2, ExecFields DEF Placed
<1>4. /\ t \in ThreadSet /\ t.key = Thread[at].key /\ t.pid = Thread[at].pid /\ t.ret = Thread[at].ret
      /\ usable => t.sem = Thread[at].sem - 1
  BY <1>1, <1>2, <1>3, SemaphoreMoves
<1> HIDE DEF t
<1>5. /\ Thread' \in Seq(ThreadSet) /\ Len(Thread') = Len(Thread) /\ Thread'[at] = t
      /\ \A v \in 1 .. Len(Thread) : v # at => Thread'[v] = Thread[v]
  BY <1>1, <1>2, <1>3, <1>4, ThreadChange
<1>6. \A v \in 1 .. Len(Thread) : /\ Thread'[v].key = Thread[v].key /\ Thread'[v].pid = Thread[v].pid
                                  /\ Thread'[v].ret = Thread[v].ret
  BY <1>4, <1>5
<1>7. ExecTypeOK'
  BY <1>1, <1>2, <1>5 DEF ExecTypeOK
<1>8. Placed'
  BY <1>1, <1>2, <1>3, <1>5, <1>6 DEF Placed
<1>9. BuffersKept'
  <2> SUFFICES ASSUME usable, ~interrupted, NEW v \in 1 .. Len(Thread)
               PROVE  BufferKept(v)'
    BY <1>2, <1>5 DEF BuffersKept
  <2>1. BufferKept(v)
    BY <1>1 DEF BuffersKept
  <2>2. \A q \in Processes : ChildHolds(q, v)' <=> ChildHolds(q, v)
    BY <1>2 DEF ChildHolds
  <2>3. CASE v = at
    <3>1. ~Torn(Thread[v]) /\ Thread'[v].sem = 0 /\ \A q \in Processes : ~ChildHolds(q, v)
      BY <1>2, <1>3, <1>4, <1>5, <2>1, <2>3 DEF BufferKept, Waits
    <3>2. Thread'[v].ret[1] = Thread'[v].ret[2]
      BY <1>6, <2>3, <3>1 DEF Torn
    <3> QED BY <1>2, <2>2, <3>1, <3>2 DEF BufferKept, Torn
  <2>4. CASE v # at
    <3>1. Thread'[v] = Thread[v] /\ ~MainHolds(v)'
      BY <1>2, <1>5, <2>4 DEF MainHolds
    <3>2. at' # v
      BY <1>2, <2>4
    <3> QED BY <1>2, <2>1, <2>2, <3>1, <3>2 DEF BufferKept, Torn
  <2> QED BY <2>3, <2>4
<1>10. WholeTexts'
  BY <1>1, <1>2 DEF WholeTexts
<1>11. PidsKept'
  BY <1>1, <1>2, <1>5, <1>6 DEF PidsKept, PidsFreed
<1>12. Counted'
  <2>1. \A k \in Keys : ThreadsOf(k)' = ThreadsOf(k)
    BY <1>1, <1>5, <1>6, CountedKept
  <2> QED BY <1>1, <1>2, <2>1 DEF Counted
<1> QED BY <1>7, <1>8, <1>9, <1>10, <1>11, <1>12 DEF ExecInv

\* hash_put copies the first half of the text ...
LEMMA CopyFirstKeeps ==
    ASSUME ExecInv, CopyText, main = "copy"
    PROVE  ExecInv'
<1>1. /\ ExecTypeOK /\ Placed /\ BuffersKept /\ WholeTexts /\ PidsKept /\ Counted
  BY DEF ExecInv
<1>2. /\ half' = Thread[at].ret[1] /\ main' = "unlock"
      /\ UNCHANGED <<usable, Thread, proc, EXEC, at, sigchld, faults, massacre, stranger, interrupted>>
  BY DEF CopyText
<1>3. at \in 1 .. Len(Thread) /\ Thread[at].ret \in Runs \X Runs
  BY <1>1, ExecFields DEF Placed
<1>4. ExecTypeOK'
  BY <1>1, <1>2, <1>3 DEF ExecTypeOK
<1>5. Placed' /\ WholeTexts' /\ Counted' /\ PidsKept'
  BY <1>1, <1>2 DEF Placed, WholeTexts, Counted, ThreadsOf, PidsKept, PidsFreed
<1>6. BuffersKept'
  <2>1. \A v : MainHolds(v)' <=> MainHolds(v)
    BY <1>2 DEF MainHolds
  <2>2. \A q \in Processes : \A v : ChildHolds(q, v)' <=> ChildHolds(q, v)
    BY <1>2 DEF ChildHolds
  <2>3. \A v \in 1 .. Len(Thread) : BufferKept(v) => BufferKept(v)'
    BY <1>2, <2>1, <2>2 DEF BufferKept, Torn
  <2> QED BY <1>1, <1>2, <2>3 DEF BuffersKept
<1> QED BY <1>4, <1>5, <1>6 DEF ExecInv

\* ... and the second, which is of the same run, and the semaphore is given back.
LEMMA CopySecondKeeps ==
    ASSUME ExecInv, CopyText, main = "unlock"
    PROVE  ExecInv'
<1> DEFINE t == Unlocked(Thread[at])
           k == Thread[at].key
           text == <<half, Thread[at].ret[2]>>
<1>1. /\ ExecTypeOK /\ Placed /\ BuffersKept /\ WholeTexts /\ PidsKept /\ Counted
      /\ usable \in BOOLEAN /\ half \in Runs /\ Len(Thread) \in Nat
  BY ExecFields DEF ExecInv, ExecTypeOK
<1>2. /\ Put(k, text) /\ Thread' = [Thread EXCEPT ![at] = t]
      /\ half' = 0 /\ at' = 0 /\ main' = "loop"
      /\ UNCHANGED <<usable, proc, sigchld, faults, massacre, stranger, interrupted>>
  BY DEF CopyText
<1>3. /\ at \in 1 .. Len(Thread) /\ Thread[at] \in ThreadSet /\ Thread[at].sem \in 0 .. 2
      /\ k \in Keys /\ Thread[at].ret \in Runs \X Runs
  BY <1>1, ExecFields DEF Placed
<1>4. /\ t \in ThreadSet /\ t.key = Thread[at].key /\ t.pid = Thread[at].pid /\ t.ret = Thread[at].ret
      /\ usable => t.sem = IF Thread[at].sem < 2 THEN Thread[at].sem + 1 ELSE 2
  BY <1>1, <1>3, SemaphoreMoves
<1>5. text \in Runs \X Runs /\ text[1] = half /\ text[2] = Thread[at].ret[2]
  BY <1>1, <1>3
<1> HIDE DEF t, k, text
<1>6. /\ Thread' \in Seq(ThreadSet) /\ Len(Thread') = Len(Thread) /\ Thread'[at] = t
      /\ \A v \in 1 .. Len(Thread) : v # at => Thread'[v] = Thread[v]
  BY <1>1, <1>2, <1>3, <1>4, ThreadChange
<1>7. \A v \in 1 .. Len(Thread) : /\ Thread'[v].key = Thread[v].key /\ Thread'[v].pid = Thread[v].pid
                                  /\ Thread'[v].ret = Thread[v].ret
  BY <1>4, <1>6
<1>8. /\ EXEC' \in [Keys -> [text : Runs \X Runs, age : {"none", "known", "negative"}]]
      /\ EXEC'[k].text = text /\ EXEC'[k].age = "known"
      /\ \A other \in Keys : other # k => EXEC'[other] = EXEC[other]
  BY <1>1, <1>2, <1>3, <1>5, PutFields
<1>9. ASSUME usable, ~interrupted
      PROVE  /\ Thread[at].sem = 0 /\ Thread[at].ret[1] = Thread[at].ret[2]
             /\ half = Thread[at].ret[1]
             /\ \A q \in Processes : ~ChildHolds(q, at)
  <2>1. BufferKept(at) /\ MainHolds(at)
    BY <1>1, <1>3, <1>9 DEF BuffersKept, MainHolds
  <2> QED BY <2>1 DEF BufferKept, Torn
<1>10. ExecTypeOK'
  <2>1. at' \in 0 .. Len(Thread') + 1 /\ half' \in Runs
    BY <1>1, <1>2, <1>6 DEF Runs
  <2> QED BY <1>1, <1>2, <1>6, <1>8, <2>1 DEF ExecTypeOK
<1>11. Placed'
  BY <1>1, <1>2, <1>6, <1>7 DEF Placed
<1>12. BuffersKept'
  <2> SUFFICES ASSUME usable, ~interrupted, NEW v \in 1 .. Len(Thread)
               PROVE  BufferKept(v)'
    BY <1>2, <1>6 DEF BuffersKept
  <2>1. BufferKept(v) /\ ~MainHolds(v)' /\ main' = "loop"
    BY <1>1, <1>2 DEF BuffersKept, MainHolds
  <2>2. \A q \in Processes : ChildHolds(q, v)' <=> ChildHolds(q, v)
    BY <1>2 DEF ChildHolds
  <2>3. CASE v = at
    <3>1. Thread'[v].sem = 1
      BY <1>4, <1>6, <1>9, <2>3
    <3>2. Thread'[v].ret[1] = Thread'[v].ret[2] /\ \A q \in Processes : ~ChildHolds(q, v)
      BY <1>7, <1>9, <2>3
    <3> QED BY <2>1, <2>2, <3>1, <3>2 DEF BufferKept, Torn
  <2>4. CASE v # at
    <3>1. Thread'[v] = Thread[v] /\ ~MainHolds(v)
      BY <1>6, <2>4 DEF MainHolds
    <3> QED BY <1>2, <2>1, <2>2, <3>1 DEF BufferKept, Torn
  <2> QED BY <2>3, <2>4
<1>13. WholeTexts'
  <2>1. usable /\ ~interrupted => text[1] = text[2]
    BY <1>5, <1>9
  <2> QED BY <1>1, <1>2, <1>8, <2>1 DEF WholeTexts
<1>14. PidsKept'
  BY <1>1, <1>2, <1>6, <1>7 DEF PidsKept, PidsFreed
<1>15. Counted'
  <2>1. \A q \in Keys : ThreadsOf(q)' = ThreadsOf(q)
    BY <1>1, <1>6, <1>7, CountedKept
  <2>2. EXEC[k].age = "known" => Cardinality(ThreadsOf(k)) <= faults.setbacks + 1
    BY <1>1, <1>3 DEF Counted
  <2>3. Cardinality(ThreadsOf(k)) <= faults.setbacks + 1
    <3>1. IsFiniteSet(1 .. Len(Thread))
      BY <1>1, FS_Interval
    <3>2. ThreadsOf(k) \in SUBSET (1 .. Len(Thread))
      BY <1>1, ExecFields DEF ThreadsOf
    <3>3. Cardinality(ThreadsOf(k)) \in Nat /\ faults.setbacks \in Nat
      BY <1>1, <3>1, <3>2, FS_Subset, FS_CardinalityType, ExecFields
    <3>4. EXEC[k].age # "known" => Cardinality(ThreadsOf(k)) <= faults.setbacks + 0
      BY <1>1, <1>3 DEF Counted
    <3> QED BY <2>2, <3>3, <3>4
  <2> QED BY <1>1, <1>2, <1>8, <2>1, <2>3 DEF Counted
<1> QED BY <1>10, <1>11, <1>12, <1>13, <1>14, <1>15 DEF ExecInv

\* Every step keeps the invariant.
LEMMA ExecStep ==
    ASSUME ExecInv, [ExecNext]_execVars
    PROVE  ExecInv'
<1>1. CASE \E p \in Processes : ExecThread(p)
  BY <1>1, ThreadKeeps
<1>2. CASE \E p \in Processes : Dies(p)
  BY <1>2, DiesKeeps
<1>3. CASE \E p \in Processes : PidReused(p)
  BY <1>3, ReusedKeeps
<1>4. CASE \E k \in Keys : CreateExecThread(k)
  BY <1>4, CreateKeeps
<1>5. CASE \E k \in Keys : CreateFails(k)
  BY <1>5, CreateFailsKeeps
<1>6. CASE \/ \E k \in Keys : CreateRefused(k) \/ Reread(k)
           \/ LockInterrupted \/ ButtonExec \/ ExitExec \/ SetBack \/ TimePasses
  BY <1>6, OtherThreadsKeep
<1>7. CASE LockForCopy
  BY <1>7, LockKeeps
<1>8. CASE CopyText
  <2>1. main = "copy" \/ main = "unlock"
    BY <1>8 DEF CopyText
  <2> QED BY <1>8, <2>1, CopyFirstKeeps, CopySecondKeeps
<1>9. CASE DestroyExecThread
  BY <1>9, DestroyKeeps
<1>10. CASE UNCHANGED execVars
  <2>1. UNCHANGED <<usable, Thread, proc, EXEC, main, at, half, sigchld, faults, massacre, stranger, interrupted>>
    BY <1>10 DEF execVars
  <2>2. ExecTypeOK' /\ WholeTexts' /\ Counted'
    BY <2>1 DEF ExecInv, ExecTypeOK, WholeTexts, Counted, ThreadsOf
  <2> QED BY <2>1, <2>2, QuietKeeps DEF PidsFreed
<1> QED BY <1>1, <1>2, <1>3, <1>4, <1>5, <1>6, <1>7, <1>8, <1>9, <1>10 DEF ExecNext

\* plugin_exec.c and thread.c keep the invariant: one process at most works at a buffer,
\* and pids and threads are as many as there should be.
THEOREM ExecInductive == ExecSpec => []ExecInv
<1>1. ExecInit => ExecInv
  BY ExecInitial
<1>2. ExecInv /\ [ExecNext]_execVars => ExecInv'
  BY ExecStep
<1> QED BY <1>1, <1>2, PTL DEF ExecSpec

\* The state of the threads is what the variables are declared to be.
THEOREM ExecTypeCorrect == ExecSpec => []ExecTypeOK
<1>1. ExecInv => ExecTypeOK
  BY DEF ExecInv
<1> QED BY <1>1, ExecInductive, PTL

\* do_exec puts in the hash only texts that a command printed in one run, also when
\* threads die while they write (with usable semaphores and no wait broken off).
THEOREM TextsWhole == ExecSpec => []WholeTexts
<1>1. ExecInv => WholeTexts
  BY DEF ExecInv
<1> QED BY <1>1, ExecInductive, PTL

\* thread_destroy kills none but threads, and a command has one thread and one more for
\* each setback of the clock, with the exceptions that ThreadsOwned names.
THEOREM OwnThreads == ExecSpec => []ThreadsOwned
<1>1. ASSUME ExecInv
      PROVE  ThreadsOwned
  <2>1. OnlyOwnKilled
    BY <1>1 DEF ExecInv, PidsKept, PidsFreed, OnlyOwnKilled
  <2>2. ASSUME NEW k \in Keys
        PROVE  Cardinality({n \in DOMAIN Thread : Thread[n].key = k}) <= 1 + faults.setbacks
    <3>1. /\ Len(Thread) \in Nat /\ DOMAIN Thread = 1 .. Len(Thread) /\ faults.setbacks \in 0 .. MaxFaults
          /\ MaxFaults \in Nat
      BY <1>1, ExecFields DEF ExecInv
    <3>2. Cardinality(ThreadsOf(k)) <= faults.setbacks + (IF EXEC[k].age = "known" THEN 1 ELSE 0)
      BY <1>1 DEF ExecInv, Counted
    <3>3. Cardinality(ThreadsOf(k)) \in Nat
      <4>1. IsFiniteSet(1 .. Len(Thread))
        BY <3>1, FS_Interval
      <4>2. ThreadsOf(k) \in SUBSET (1 .. Len(Thread))
        BY <3>1 DEF ThreadsOf
      <4> QED BY <4>1, <4>2, FS_Subset, FS_CardinalityType
    <3>4. Cardinality(ThreadsOf(k)) <= 1 + faults.setbacks
      BY <3>1, <3>2, <3>3
    <3> QED BY <3>4 DEF ThreadsOf
  <2> QED BY <2>1, <2>2 DEF ThreadsOwned, OneThreadPerKey
<1> QED BY <1>1, ExecInductive, PTL

-----------------------------------------------------------------------------
(* The Teak LCM.  What the driver has sent, and the display has not taken, *)
(* makes up for all that the display does not show yet.                    *)

\* The commands, and all bytes; the states of the driver.
LcmCmd == {"ACK", "NACK", "CONFIRM", "CONNECT", "DISCONNECT", "RESET", "PRINT1", "PRINT2"}
LcmByte == LcmCmd \cup {"MASK", "WRITE", "length", "key", "crc", "other"}
LcmState == {"IDLE", "COMMAND", "CONNECTED"}
LcmLine == Lines \cup {"blank", "none"}
LcmFrame == [cmd : LcmCmd, line : LcmLine]
LcmType ==
    /\ fsm \in [state : LcmState, reset_rx : BOOLEAN]
    /\ shadow \in [1..2 -> LcmLine] /\ lcd \in [1..2 -> LcmLine]
    /\ toHost \in Seq(LcmByte) /\ toLCM \in Seq(LcmFrame)
    /\ mode \in {"boot", "idle", "asked", "acked", "connected"} /\ astray \in BOOLEAN

PrintOf(r) == IF r = 1 THEN "PRINT1" ELSE "PRINT2"

\* The last frame for a line carries what is wanted there.
LastPrints(frames, wanted) ==
    \A x \in 1..Len(frames), r \in 1..2 :
        frames[x].cmd = PrintOf(r) /\ (\A y \in x + 1..Len(frames) : frames[y].cmd # PrintOf(r)) => frames[x].line = wanted[r]

\* Behind the first x frames both lines are sent, or the connection is confirmed first.
PrintsBehind(frames, x) == \A r \in 1..2 : \E y \in x + 1..Len(frames) : frames[y].cmd = PrintOf(r)
ConfirmBehind(frames, x) == \E y \in x + 1..Len(frames) : frames[y].cmd = "CONFIRM" /\ PrintsBehind(frames, y)

\* What a connected driver has under way for a display in mode m that shows the lines shown.
Promised(frames, m, wanted, shown) ==
    /\ LastPrints(frames, wanted)
    /\ \A x \in 1..Len(frames) : frames[x].cmd = "CONNECT" => ConfirmBehind(frames, x)
    /\ m = "acked" => ConfirmBehind(frames, 0)
    /\ \A x \in 1..Len(frames) : frames[x].cmd = "ACK" => PrintsBehind(frames, x)
    /\ m = "connected" =>
          \A r \in 1..2 : (\A x \in 1..Len(frames) : frames[x].cmd # PrintOf(r)) => shown[r] = wanted[r]

\* What the display asked last has no earlier answer under way, and its last reset came before.
AskedLast(bytes, frames) ==
    /\ \A y \in 1..Len(bytes) : \A x \in 1..y - 1 : bytes[x] = "CONNECT" => bytes[y] \notin {"RESET", "CONNECT"}
    /\ \A x \in 1..Len(frames) : frames[x].cmd = "ACK" =>
          /\ \A y \in x + 1..Len(frames) : frames[y].cmd # "CONNECT"
          /\ \A y \in 1..Len(bytes) : bytes[y] \notin {"RESET", "CONNECT"}
ConfirmedLast(bytes, frames, m) ==
    \A y \in 1..Len(bytes) : bytes[y] = "CONFIRM" =>
        /\ m # "acked"
        /\ \A x \in 1..y - 1 : bytes[x] # "RESET"
        /\ \A x \in 1..Len(frames) : frames[x].cmd # "CONNECT"
AskedOnce(bytes, frames, m) ==
    /\ m = "asked" => AskedLast(bytes, frames)
    /\ ConfirmedLast(bytes, frames, m)
    /\ \A x \in 1..Len(bytes) : bytes[x] # "DISCONNECT"

\* Both hold unless something went astray.
Mended ==
    /\ AskedOnce(toHost, toLCM, mode)
    /\ fsm.state = "CONNECTED" => Promised(toLCM, mode, shadow, lcd)
LcmInv ==
    /\ LcmType
    /\ ~astray => Mended

-----------------------------------------------------------------------------
(* Frames that are sent. *)

\* What stands in two sequences that are joined.
LEMMA Joined ==
    ASSUME NEW S, NEW s \in Seq(S), NEW t \in Seq(S)
    PROVE  /\ s \o t \in Seq(S) /\ Len(s \o t) = Len(s) + Len(t)
           /\ \A x \in 1..Len(s) : (s \o t)[x] = s[x]
           /\ \A x \in 1..Len(t) : (s \o t)[Len(s) + x] = t[x]
           /\ \A x \in 1..Len(s \o t) : x \in 1..Len(s) \/ (x - Len(s) \in 1..Len(t) /\ (s \o t)[x] = t[x - Len(s)])
<1>1. Len(s) \in Nat /\ Len(t) \in Nat
  OBVIOUS
<1> QED BY <1>1

\* Frames that ask for nothing change nothing about what was asked.
LEMMA AskedOfMore ==
    ASSUME NEW bytes \in Seq(LcmByte), NEW frames \in Seq(LcmFrame), NEW more \in Seq(LcmFrame), NEW m,
           AskedOnce(bytes, frames, m),
           \A x \in 1..Len(more) : more[x].cmd \notin {"ACK", "CONNECT"}
    PROVE  AskedOnce(bytes, frames \o more, m)
<1> DEFINE all == frames \o more
<1>1. /\ Len(all) = Len(frames) + Len(more) /\ Len(frames) \in Nat /\ Len(more) \in Nat
      /\ \A x \in 1..Len(frames) : all[x] = frames[x]
      /\ \A x \in 1..Len(all) : x \in 1..Len(frames) \/ (x - Len(frames) \in 1..Len(more) /\ all[x] = more[x - Len(frames)])
  BY Joined
<1> HIDE DEF all
<1>2. \A x \in 1..Len(all) : (x \in 1..Len(frames) /\ all[x] = frames[x]) \/ all[x].cmd \notin {"ACK", "CONNECT"}
  BY <1>1
<1>4. m = "asked" => AskedLast(bytes, all)
  <2> SUFFICES ASSUME m = "asked" PROVE AskedLast(bytes, all)
    OBVIOUS
  <2>1. AskedLast(bytes, frames)
    BY DEF AskedOnce
  <2>2. ASSUME NEW x \in 1..Len(all), all[x].cmd = "ACK", NEW y \in x + 1..Len(all) PROVE all[y].cmd # "CONNECT"
    <3>1. x \in 1..Len(frames) /\ frames[x].cmd = "ACK" /\ y \in 1..Len(all)
      BY <1>1, <1>2, <2>2
    <3>2. y \in x + 1..Len(frames) => frames[y].cmd # "CONNECT"
      BY <2>1, <3>1 DEF AskedLast
    <3> QED BY <1>2, <3>1, <3>2
  <2>3. ASSUME NEW x \in 1..Len(all), all[x].cmd = "ACK" PROVE \A y \in 1..Len(bytes) : bytes[y] \notin {"RESET", "CONNECT"}
    BY <1>2, <2>1, <2>3 DEF AskedLast
  <2> QED BY <2>1, <2>2, <2>3 DEF AskedLast
<1>5. ConfirmedLast(bytes, all, m)
  BY <1>2 DEF AskedOnce, ConfirmedLast
<1> QED BY <1>4, <1>5 DEF AskedOnce, all

\* What is behind a frame stays behind it.
LEMMA BehindMore ==
    ASSUME NEW frames \in Seq(LcmFrame), NEW more \in Seq(LcmFrame), NEW x \in 0..Len(frames)
    PROVE  /\ PrintsBehind(frames, x) => PrintsBehind(frames \o more, x)
           /\ ConfirmBehind(frames, x) => ConfirmBehind(frames \o more, x)
<1> DEFINE all == frames \o more
<1>1. /\ Len(all) = Len(frames) + Len(more) /\ Len(frames) \in Nat /\ Len(more) \in Nat
      /\ \A k \in 1..Len(frames) : all[k] = frames[k]
  BY Joined
<1> HIDE DEF all
<1>2. \A n \in 0..Len(frames) : \A k \in n + 1..Len(frames) : k \in n + 1..Len(all) /\ k \in 1..Len(frames) /\ all[k] = frames[k]
  BY <1>1
<1>3. \A n \in 0..Len(frames) : PrintsBehind(frames, n) => PrintsBehind(all, n)
  <2> SUFFICES ASSUME NEW n \in 0..Len(frames), PrintsBehind(frames, n), NEW r \in 1..2
               PROVE  \E y \in n + 1..Len(all) : all[y].cmd = PrintOf(r)
    BY DEF PrintsBehind
  <2>1. PICK y \in n + 1..Len(frames) : frames[y].cmd = PrintOf(r)
    BY DEF PrintsBehind
  <2> QED BY <1>2, <2>1
<1>4. ASSUME ConfirmBehind(frames, x) PROVE ConfirmBehind(all, x)
  <2>1. PICK y \in x + 1..Len(frames) : frames[y].cmd = "CONFIRM" /\ PrintsBehind(frames, y)
    BY <1>4 DEF ConfirmBehind
  <2>2. y \in 0..Len(frames) /\ y \in x + 1..Len(all) /\ all[y] = frames[y]
    BY <1>1, <1>2
  <2>3. PrintsBehind(all, y)
    BY <1>3, <2>1, <2>2
  <2> QED BY <2>1, <2>2, <2>3 DEF ConfirmBehind
<1> QED BY <1>3, <1>4 DEF all

\* A connected driver may send what is neither a line nor an answer to be followed by one.
LEMMA PromisedOfMore ==
    ASSUME NEW frames \in Seq(LcmFrame), NEW more \in Seq(LcmFrame), NEW m, NEW wanted, NEW shown,
           Promised(frames, m, wanted, shown),
           \A x \in 1..Len(more) : more[x].cmd \notin {"ACK", "CONNECT", "PRINT1", "PRINT2"}
    PROVE  Promised(frames \o more, m, wanted, shown)
<1> DEFINE all == frames \o more
<1>1. /\ Len(all) = Len(frames) + Len(more) /\ Len(frames) \in Nat /\ Len(more) \in Nat
      /\ \A x \in 1..Len(frames) : all[x] = frames[x]
      /\ \A x \in 1..Len(all) : x \in 1..Len(frames) \/ (x - Len(frames) \in 1..Len(more) /\ all[x] = more[x - Len(frames)])
  BY Joined
<1>0. \A x \in 0..Len(frames) : /\ PrintsBehind(frames, x) => PrintsBehind(all, x)
                                /\ ConfirmBehind(frames, x) => ConfirmBehind(all, x)
  BY BehindMore
<1> HIDE DEF all
<1>2. \A x \in 1..Len(all) : (x \in 1..Len(frames) /\ all[x] = frames[x])
                             \/ all[x].cmd \notin {"ACK", "CONNECT", "PRINT1", "PRINT2"}
  BY <1>1
<1>3. \A r \in 1..2 : PrintOf(r) \in {"PRINT1", "PRINT2"}
  BY DEF PrintOf
<1>4. LastPrints(all, wanted)
  <2> SUFFICES ASSUME NEW x \in 1..Len(all), NEW r \in 1..2, all[x].cmd = PrintOf(r),
                      \A y \in x + 1..Len(all) : all[y].cmd # PrintOf(r)
               PROVE  all[x].line = wanted[r]
    BY DEF LastPrints
  <2>1. x \in 1..Len(frames) /\ all[x] = frames[x]
    BY <1>2, <1>3
  <2>2. \A y \in x + 1..Len(frames) : frames[y].cmd # PrintOf(r)
    BY <1>1, <2>1
  <2>3. LastPrints(frames, wanted) /\ frames[x].cmd = PrintOf(r)
    BY <2>1 DEF Promised
  <2>4. frames[x].line = wanted[r]
    BY <2>1, <2>2, <2>3 DEF LastPrints
  <2> QED BY <2>1, <2>4
<1>5. \A x \in 1..Len(all) : all[x].cmd = "CONNECT" => ConfirmBehind(all, x)
  BY <1>0, <1>1, <1>2 DEF Promised
<1>6. m = "acked" => ConfirmBehind(all, 0)
  BY <1>0, <1>1 DEF Promised
<1>7. \A x \in 1..Len(all) : all[x].cmd = "ACK" => PrintsBehind(all, x)
  BY <1>0, <1>1, <1>2 DEF Promised
<1>8. ASSUME m = "connected", NEW r \in 1..2, \A x \in 1..Len(all) : all[x].cmd # PrintOf(r) PROVE shown[r] = wanted[r]
  <2>1. \A x \in 1..Len(frames) : frames[x].cmd # PrintOf(r)
    BY <1>1, <1>8
  <2> QED BY <1>8, <2>1 DEF Promised
<1> QED BY <1>4, <1>5, <1>6, <1>7, <1>8 DEF Promised, all

\* Both lines at the end, after the confirmation where the connection is awaited, promise all.
LEMMA PromisedByFlush ==
    ASSUME NEW frames \in Seq(LcmFrame), NEW more \in Seq(LcmFrame), NEW m, NEW wanted, NEW shown,
           \A r \in 1..2 : \E y \in 1..Len(more) : more[y].cmd = PrintOf(r),
           \A x \in 1..Len(more) : more[x].cmd \notin {"ACK", "CONNECT"},
           LastPrints(more, wanted),
           (more[1].cmd = "CONFIRM" /\ PrintsBehind(more, 1)) \/ (m # "acked" /\ \A x \in 1..Len(frames) : frames[x].cmd # "CONNECT")
    PROVE  Promised(frames \o more, m, wanted, shown)
<1> DEFINE all == frames \o more
           L == Len(frames)
<1>1. /\ Len(all) = L + Len(more) /\ L \in Nat /\ Len(more) \in Nat
      /\ \A x \in 1..L : all[x] = frames[x]
      /\ \A x \in 1..Len(more) : all[L + x] = more[x]
      /\ \A x \in 1..Len(all) : x \in 1..L \/ (x - L \in 1..Len(more) /\ all[x] = more[x - L])
  BY Joined
<1> HIDE DEF all, L
<1>2. \A n \in 0..Len(more) : PrintsBehind(more, n) => \A x \in 0..L + n : PrintsBehind(all, x)
  <2> SUFFICES ASSUME NEW n \in 0..Len(more), PrintsBehind(more, n), NEW x \in 0..L + n, NEW r \in 1..2
               PROVE  \E y \in x + 1..Len(all) : all[y].cmd = PrintOf(r)
    BY DEF PrintsBehind
  <2>1. PICK y \in n + 1..Len(more) : more[y].cmd = PrintOf(r)
    BY DEF PrintsBehind
  <2>2. y \in 1..Len(more) /\ L + y \in x + 1..Len(all)
    <3>1. Len(all) = L + Len(more) /\ L \in Nat /\ Len(more) \in Nat
      BY <1>1
    <3> QED BY <3>1
  <2> QED BY <1>1, <2>1, <2>2
<1>3. PrintsBehind(more, 0)
  BY DEF PrintsBehind
<1>4. LastPrints(all, wanted)
  <2> SUFFICES ASSUME NEW x \in 1..Len(all), NEW r \in 1..2, all[x].cmd = PrintOf(r),
                      \A y \in x + 1..Len(all) : all[y].cmd # PrintOf(r)
               PROVE  all[x].line = wanted[r]
    BY DEF LastPrints
  <2>1. x \notin 1..L
    <3> SUFFICES ASSUME x \in 1..L PROVE FALSE
      OBVIOUS
    <3>1. x \in 0..L + 0 /\ 0 \in 0..Len(more)
      BY <1>1
    <3>2. PrintsBehind(all, x)
      BY <1>2, <1>3, <3>1
    <3> QED BY <3>2 DEF PrintsBehind
  <2>2. x - L \in 1..Len(more) /\ all[x] = more[x - L]
    BY <1>1, <2>1
  <2>3. \A y \in x - L + 1..Len(more) : more[y].cmd # PrintOf(r)
    <3> SUFFICES ASSUME NEW y \in x - L + 1..Len(more) PROVE more[y].cmd # PrintOf(r)
      OBVIOUS
    <3>1. y \in 1..Len(more) /\ L + y \in x + 1..Len(all)
      <4>1. Len(all) = L + Len(more) /\ L \in Nat /\ Len(more) \in Nat /\ x - L \in 1..Len(more)
        BY <1>1, <2>2
      <4> QED BY <4>1
    <3> QED BY <1>1, <3>1
  <2> QED BY <2>2, <2>3 DEF LastPrints
<1>5. ASSUME more[1].cmd = "CONFIRM", PrintsBehind(more, 1), NEW x \in 0..L PROVE ConfirmBehind(all, x)
  <2>1. 1 \in 1..Len(more) /\ 1 \in 0..Len(more) /\ L + 1 \in x + 1..Len(all) /\ L + 1 \in 0..L + 1
    BY <1>1
  <2>2. all[L + 1].cmd = "CONFIRM"
    BY <1>1, <1>5, <2>1
  <2>3. PrintsBehind(all, L + 1)
    BY <1>2, <1>5, <2>1
  <2> QED BY <2>1, <2>2, <2>3 DEF ConfirmBehind
<1>6. \A x \in 1..Len(all) : all[x].cmd \in {"ACK", "CONNECT"} => x \in 1..L /\ x \in 0..L /\ x \in 0..L + 0 /\ all[x] = frames[x]
  <2> SUFFICES ASSUME NEW x \in 1..Len(all), all[x].cmd \in {"ACK", "CONNECT"}, x \notin 1..L PROVE FALSE
    BY <1>1
  <2>1. x - L \in 1..Len(more) /\ all[x] = more[x - L]
    BY <1>1
  <2>2. more[x - L].cmd \notin {"ACK", "CONNECT"}
    BY <2>1
  <2> QED BY <2>1, <2>2
<1>7. \A x \in 1..Len(all) : all[x].cmd = "CONNECT" => ConfirmBehind(all, x)
  <2>1. (\A x \in 1..L : frames[x].cmd # "CONNECT") => \A x \in 1..Len(all) : all[x].cmd # "CONNECT"
    BY <1>6
  <2> QED BY <1>5, <1>6, <2>1 DEF L
<1>8. m = "acked" => ConfirmBehind(all, 0)
  <2>1. 0 \in 0..L
    BY <1>1
  <2> QED BY <1>5, <2>1
<1>9. \A x \in 1..Len(all) : all[x].cmd = "ACK" => PrintsBehind(all, x)
  <2>1. 0 \in 0..Len(more)
    BY <1>1
  <2> QED BY <1>2, <1>3, <1>6, <2>1
<1>10. ASSUME NEW r \in 1..2 PROVE ~(\A x \in 1..Len(all) : all[x].cmd # PrintOf(r))
  <2>1. 0 \in 0..Len(more) /\ 0 \in 0..L + 0
    BY <1>1
  <2>2. PrintsBehind(all, 0)
    BY <1>2, <1>3, <2>1
  <2> QED BY <2>2 DEF PrintsBehind
<1> QED BY <1>4, <1>7, <1>8, <1>9, <1>10 DEF Promised, all

-----------------------------------------------------------------------------
(* Bytes that are taken, and said. *)

From(bytes, n) == SubSeq(bytes, n + 1, Len(bytes))

LEMMA Rest ==
    ASSUME NEW S, NEW bytes \in Seq(S), NEW n \in 0..Len(bytes)
    PROVE  /\ From(bytes, n) \in Seq(S) /\ Len(From(bytes, n)) = Len(bytes) - n
           /\ \A x \in 1..Len(bytes) - n : From(bytes, n)[x] = bytes[n + x]
<1>1. Len(bytes) \in Nat
  OBVIOUS
<1> QED BY <1>1 DEF From

\* Bytes that are taken change nothing about what was asked.
LEMMA AskedOfRest ==
    ASSUME NEW bytes \in Seq(LcmByte), NEW n \in 0..Len(bytes), NEW frames, NEW m,
           AskedOnce(bytes, frames, m)
    PROVE  AskedOnce(From(bytes, n), frames, m)
<1> DEFINE rest == From(bytes, n)
<1>1. Len(bytes) \in Nat /\ Len(rest) = Len(bytes) - n /\ \A x \in 1..Len(rest) : rest[x] = bytes[n + x]
  BY Rest
<1> HIDE DEF rest
<1>2. \A x \in 1..Len(rest) : n + x \in 1..Len(bytes) /\ rest[x] = bytes[n + x]
  BY <1>1
<1>3. \A y \in 1..Len(rest) : \A x \in 1..y - 1 : n + x \in 1..n + y - 1 /\ rest[x] = bytes[n + x]
  BY <1>1
<1>5. m = "asked" => AskedLast(rest, frames)
  <2> SUFFICES ASSUME m = "asked" PROVE AskedLast(rest, frames)
    OBVIOUS
  <2>1. AskedLast(bytes, frames)
    BY DEF AskedOnce
  <2>2. ASSUME NEW y \in 1..Len(rest), NEW x \in 1..y - 1, rest[x] = "CONNECT" PROVE rest[y] \notin {"RESET", "CONNECT"}
    <3>1. n + y \in 1..Len(bytes) /\ rest[y] = bytes[n + y] /\ n + x \in 1..(n + y) - 1 /\ bytes[n + x] = "CONNECT"
      BY <1>2, <1>3, <2>2
    <3> QED BY <2>1, <3>1 DEF AskedLast
  <2>3. \A x \in 1..Len(frames) : frames[x].cmd = "ACK" =>
          /\ \A y \in x + 1..Len(frames) : frames[y].cmd # "CONNECT"
          /\ \A y \in 1..Len(rest) : rest[y] \notin {"RESET", "CONNECT"}
    BY <1>2, <2>1 DEF AskedLast
  <2> QED BY <2>2, <2>3 DEF AskedLast
<1>6. ConfirmedLast(rest, frames, m)
  <2> SUFFICES ASSUME NEW y \in 1..Len(rest), rest[y] = "CONFIRM"
               PROVE  /\ m # "acked"
                      /\ \A x \in 1..y - 1 : rest[x] # "RESET"
                      /\ \A x \in 1..Len(frames) : frames[x].cmd # "CONNECT"
    BY DEF ConfirmedLast
  <2>1. n + y \in 1..Len(bytes) /\ bytes[n + y] = "CONFIRM"
    BY <1>2
  <2>2. /\ m # "acked"
        /\ \A x \in 1..(n + y) - 1 : bytes[x] # "RESET"
        /\ \A x \in 1..Len(frames) : frames[x].cmd # "CONNECT"
    BY <2>1 DEF AskedOnce, ConfirmedLast
  <2>3. \A x \in 1..y - 1 : n + x \in 1..(n + y) - 1 /\ rest[x] = bytes[n + x]
    BY <1>3
  <2> QED BY <2>2, <2>3
<1>7. \A x \in 1..Len(rest) : rest[x] # "DISCONNECT"
  BY <1>2 DEF AskedOnce
<1> QED BY <1>5, <1>6, <1>7 DEF AskedOnce, rest

\* A reset, an acknowledgement and a key, of a display that has not asked.
LEMMA AskedOfSaid ==
    ASSUME NEW bytes \in Seq(LcmByte), NEW said \in Seq(LcmByte), NEW frames, NEW m,
           AskedOnce(bytes, frames, m), m # "asked",
           \A x \in 1..Len(said) : said[x] \notin {"CONNECT", "CONFIRM", "DISCONNECT"}
    PROVE  AskedOnce(bytes \o said, frames, m)
<1> DEFINE all == bytes \o said
<1>1. /\ Len(all) = Len(bytes) + Len(said) /\ Len(bytes) \in Nat /\ Len(said) \in Nat
      /\ \A x \in 1..Len(bytes) : all[x] = bytes[x]
      /\ \A x \in 1..Len(all) : x \in 1..Len(bytes) \/ (x - Len(bytes) \in 1..Len(said) /\ all[x] = said[x - Len(bytes)])
  BY Joined
<1> HIDE DEF all
<1>2. \A x \in 1..Len(all) : (x \in 1..Len(bytes) /\ all[x] = bytes[x])
                             \/ all[x] \notin {"CONNECT", "CONFIRM", "DISCONNECT"}
  BY <1>1
<1>4. ConfirmedLast(all, frames, m)
  <2> SUFFICES ASSUME NEW y \in 1..Len(all), all[y] = "CONFIRM"
               PROVE  /\ m # "acked"
                      /\ \A x \in 1..y - 1 : all[x] # "RESET"
                      /\ \A x \in 1..Len(frames) : frames[x].cmd # "CONNECT"
    BY DEF ConfirmedLast
  <2>1. y \in 1..Len(bytes) /\ bytes[y] = "CONFIRM"
    BY <1>2
  <2>2. /\ m # "acked"
        /\ \A x \in 1..y - 1 : bytes[x] # "RESET"
        /\ \A x \in 1..Len(frames) : frames[x].cmd # "CONNECT"
    BY <2>1 DEF AskedOnce, ConfirmedLast
  <2>3. \A x \in 1..y - 1 : all[x] = bytes[x]
    BY <1>1, <2>1
  <2> QED BY <2>2, <2>3
<1>5. \A x \in 1..Len(all) : all[x] # "DISCONNECT"
  BY <1>2 DEF AskedOnce
<1> QED BY <1>4, <1>5 DEF AskedOnce, all

-----------------------------------------------------------------------------
(* The state machine. *)

LcmFsm == [state : LcmState, reset_rx : BOOLEAN, sent : Seq(LcmFrame)]

\* What is under way while the driver handles what it has read: the bytes are still to come.
Kept(f, bytes) ==
    /\ AskedOnce(bytes, toLCM \o f.sent, mode)
    /\ f.state = "CONNECTED" => Promised(toLCM \o f.sent, mode, shadow, lcd)

\* What a command is answered with.
Answer(cmd, more) ==
    \A x \in 1..Len(more) :
        /\ more[x].cmd = "ACK" => cmd \in {"CONNECT", "DISCONNECT"} /\ Len(more) = 1
        /\ more[x].cmd = "CONNECT" => cmd = "RESET"
Quiet(more) == \A x \in 1..Len(more) : more[x].cmd \notin {"ACK", "CONNECT", "PRINT1", "PRINT2"}

Flushed(cmd, more) ==
    \/ cmd = "ACK" /\ more = <<Frame("CONFIRM")>> \o Flush
    \/ cmd = "CONFIRM" /\ more = Flush

LEMMA FrameTyped ==
    ASSUME LcmType
    PROVE  /\ \A cmd \in LcmCmd : Frame(cmd) \in LcmFrame /\ Frame(cmd).cmd = cmd
           /\ \A r \in 1..2 : PrintLine(r) \in LcmFrame /\ PrintLine(r).cmd = PrintOf(r) /\ PrintLine(r).line = shadow[r]
           /\ Flush \in Seq(LcmFrame)
<1>1. \A cmd \in LcmCmd : Frame(cmd) \in LcmFrame /\ Frame(cmd).cmd = cmd
  BY DEF Frame, LcmFrame, LcmLine
<1>2. ASSUME NEW r \in 1..2
      PROVE  PrintLine(r) \in LcmFrame /\ PrintLine(r).cmd = PrintOf(r) /\ PrintLine(r).line = shadow[r]
  <2>1. PrintOf(r) \in LcmCmd /\ shadow[r] \in LcmLine
    BY DEF LcmType, PrintOf, LcmCmd
  <2>2. PrintLine(r) = [cmd |-> PrintOf(r), line |-> shadow[r]]
    BY DEF PrintLine, PrintOf
  <2> QED BY <2>1, <2>2 DEF LcmFrame
<1>3. 1 \in 1..2 /\ 2 \in 1..2
  OBVIOUS
<1>4. Flush \in Seq(LcmFrame)
  BY <1>2, <1>3 DEF Flush
<1> QED BY <1>1, <1>2, <1>4

\* fsm_step goes on, or resets, or sends the shadow.
LEMMA StepOutcome ==
    ASSUME LcmType, NEW f \in LcmFsm, NEW next \in LcmState, NEW frames \in Seq(LcmFrame)
    PROVE  LET g == FsmStep(f, next, frames) IN
           \/ /\ next # "CONNECTED" \/ f.state = "CONNECTED"
              /\ g = [state |-> next, reset_rx |-> f.reset_rx, sent |-> f.sent \o frames]
           \/ /\ next = "CONNECTED" /\ f.state # "CONNECTED"
              /\ g = [state |-> "IDLE", reset_rx |-> f.reset_rx, sent |-> f.sent \o (frames \o <<Frame("RESET")>>)]
           \/ /\ next = "CONNECTED" /\ f.state # "CONNECTED"
              /\ g = [state |-> "CONNECTED", reset_rx |-> f.reset_rx, sent |-> f.sent \o (frames \o Flush)]
<1>1. Frame("RESET") \in LcmFrame /\ Flush \in Seq(LcmFrame)
  <2>1. "RESET" \in LcmCmd
    BY DEF LcmCmd
  <2> QED BY <2>1, FrameTyped
<1>2. PICK sent \in Seq(LcmFrame) : sent = f.sent
  BY DEF LcmFsm
<1>3. PICK reset \in LcmFrame : reset = Frame("RESET")
  BY <1>1
<1>4. PICK flush \in Seq(LcmFrame) : flush = Flush
  BY <1>1
<1>5. /\ sent \o frames \in Seq(LcmFrame)
      /\ Append(sent \o frames, reset) = sent \o (frames \o <<reset>>)
      /\ Append(sent \o frames, reset) \in Seq(LcmFrame)
      /\ (sent \o frames) \o flush = sent \o (frames \o flush)
      /\ (sent \o frames) \o flush \in Seq(LcmFrame)
  <2>1. <<reset>> \in Seq(LcmFrame) /\ sent \o frames \in Seq(LcmFrame)
    BY ConcatProperties
  <2>2. (sent \o frames) \o <<reset>> = sent \o (frames \o <<reset>>) /\ (sent \o frames) \o flush = sent \o (frames \o flush)
    BY <2>1, ConcatAssociative
  <2>3. (sent \o frames) \o flush \in Seq(LcmFrame)
    BY <2>1, ConcatProperties
  <2>4. Append(sent \o frames, reset) \in Seq(LcmFrame) /\ Append(sent \o frames, reset) = (sent \o frames) \o <<reset>>
    BY <2>1, AppendProperties, AppendIsConcat
  <2> QED BY <2>1, <2>2, <2>3, <2>4
<1>6. PICK all \in Seq(LcmFrame), rest \in Seq(LcmFrame), flushed \in Seq(LcmFrame) :
        /\ all = sent \o frames
        /\ rest = Append(all, reset) /\ rest = sent \o (frames \o <<reset>>)
        /\ flushed = all \o flush /\ flushed = sent \o (frames \o flush)
  BY <1>5
<1> HIDE DEF Flush
<1>7. f.state \in LcmState /\ f.reset_rx \in BOOLEAN
  BY DEF LcmFsm
<1>8. [f EXCEPT !.sent = f.sent \o frames] = [f EXCEPT !.sent = all]
  BY <1>2, <1>6
<1>9. PICK h \in LcmFsm : h = [f EXCEPT !.sent = all]
  BY DEF LcmFsm
<1>10. h.state = f.state /\ h.reset_rx = f.reset_rx /\ h.sent = all
  BY <1>9 DEF LcmFsm
<1>11. [h EXCEPT !.state = next] = [state |-> next, reset_rx |-> f.reset_rx, sent |-> all]
  <2>1. PICK g \in LcmFsm : g = [h EXCEPT !.state = next]
    BY DEF LcmFsm
  <2>2. g.state = next /\ g.reset_rx = f.reset_rx /\ g.sent = all
    BY <1>10, <2>1 DEF LcmFsm
  <2>3. g = [state |-> next, reset_rx |-> f.reset_rx, sent |-> all]
    BY <2>2 DEF LcmFsm
  <2> QED BY <2>1, <2>3
<1>12. TryReset(h) = [state |-> "IDLE", reset_rx |-> f.reset_rx, sent |-> rest]
  <2>1. TryReset(h) = [h EXCEPT !.state = "IDLE", !.sent = rest]
    BY <1>3, <1>6, <1>10 DEF TryReset
  <2> QED BY <1>10, <2>1 DEF LcmFsm
<1>13. [h EXCEPT !.state = "CONNECTED", !.sent = @ \o Flush]
         = [state |-> "CONNECTED", reset_rx |-> f.reset_rx, sent |-> flushed]
  <2>1. [h EXCEPT !.state = "CONNECTED", !.sent = @ \o Flush] = [h EXCEPT !.state = "CONNECTED", !.sent = h.sent \o Flush]
    OBVIOUS
  <2>2. h.sent \o Flush = flushed
    BY <1>4, <1>6, <1>10
  <2>3. PICK g \in LcmFsm : g = [h EXCEPT !.state = "CONNECTED", !.sent = flushed]
    BY DEF LcmFsm, LcmState
  <2>4. g.state = "CONNECTED" /\ g.reset_rx = f.reset_rx /\ g.sent = flushed
    BY <1>10, <2>3 DEF LcmFsm
  <2>5. g = [state |-> "CONNECTED", reset_rx |-> f.reset_rx, sent |-> flushed]
    BY <2>4 DEF LcmFsm
  <2> QED BY <2>1, <2>2, <2>3, <2>5
<1>14. FsmStep(f, next, frames) =
        IF next # "CONNECTED" \/ f.state = "CONNECTED" THEN [h EXCEPT !.state = next]
        ELSE IF ~f.reset_rx THEN TryReset(h)
        ELSE [h EXCEPT !.state = "CONNECTED", !.sent = @ \o Flush]
  BY <1>8, <1>9 DEF FsmStep
<1> QED BY <1>2, <1>3, <1>4, <1>6, <1>11, <1>12, <1>13, <1>14

\* What fsm_handle_cmd sends, and when it is connected.
LEMMA CmdOutcome ==
    ASSUME LcmType, NEW f \in LcmFsm, NEW cmd
    PROVE  \E more \in Seq(LcmFrame), state \in LcmState, reset_rx \in BOOLEAN :
              /\ FsmHandleCmd(f, cmd) = [state |-> state, reset_rx |-> reset_rx, sent |-> f.sent \o more]
              /\ Answer(cmd, more)
              /\ state = "CONNECTED" => \/ f.state = "CONNECTED" /\ (Quiet(more) \/ cmd = "DISCONNECT")
                                        \/ Flushed(cmd, more)
<1>1. PICK h \in LcmFsm : h = [f EXCEPT !.reset_rx = @ \/ cmd = "RESET"]
  BY DEF LcmFsm
<1>2. h.state = f.state /\ h.sent = f.sent /\ h.reset_rx \in BOOLEAN /\ f.state \in LcmState /\ f.sent \in Seq(LcmFrame)
  BY <1>1 DEF LcmFsm
<1> DEFINE Answers(next, frames) ==
             /\ Transition(f.state, cmd) = <<next, frames>>
             /\ Len(frames) <= 1
             /\ Answer(cmd, frames)
             /\ next = "CONNECTED" => \/ f.state = "CONNECTED" /\ (Quiet(frames) \/ cmd = "DISCONNECT")
                                      \/ f.state # "CONNECTED" /\ cmd = "ACK" /\ frames = <<Frame("CONFIRM")>>
                                      \/ f.state # "CONNECTED" /\ cmd = "CONFIRM" /\ frames = <<>>
<1>3. PICK next \in LcmState, frames \in Seq(LcmFrame) : Answers(next, frames)
  <2>1. /\ "ACK" \in LcmCmd /\ "NACK" \in LcmCmd /\ "CONFIRM" \in LcmCmd /\ "CONNECT" \in LcmCmd
        /\ "CONNECTED" \in LcmState /\ "COMMAND" \in LcmState /\ "IDLE" \in LcmState
    BY DEF LcmCmd, LcmState
  <2>2. ASSUME NEW c \in LcmCmd
        PROVE  <<Frame(c)>> \in Seq(LcmFrame) /\ Len(<<Frame(c)>>) = 1 /\ <<Frame(c)>>[1].cmd = c
    BY <2>2, FrameTyped
  <2>3. <<>> \in Seq(LcmFrame) /\ Len(<<>>) = 0
    OBVIOUS
  <2>4. ASSUME NEW c \in LcmCmd, c = "ACK" => cmd \in {"CONNECT", "DISCONNECT"}, c = "CONNECT" => cmd = "RESET"
        PROVE  Answer(cmd, <<Frame(c)>>)
    BY <2>2, <2>4 DEF Answer
  <2>5. Answer(cmd, <<>>) /\ Quiet(<<>>)
    BY <2>3 DEF Answer, Quiet
  <2>6. ASSUME NEW c \in LcmCmd, c \notin {"ACK", "CONNECT", "PRINT1", "PRINT2"} PROVE Quiet(<<Frame(c)>>)
    BY <2>2, <2>6 DEF Quiet
  <2>7. CASE f.state = "CONNECTED"
    <3>1. CASE cmd = "ACK"
      <4>1. Transition(f.state, cmd) = <<"CONNECTED", <<Frame("CONFIRM")>>>>
        BY <2>7, <3>1 DEF Transition
      <4>2. Answers("CONNECTED", <<Frame("CONFIRM")>>)
        BY <2>1, <2>2, <2>4, <2>6, <2>7, <3>1, <4>1
      <4> HIDE DEF Answers
      <4> QED BY <2>1, <2>2, <4>2
    <3>2. CASE cmd = "CONNECT"
      <4>1. Transition(f.state, cmd) = <<"CONNECTED", <<Frame("NACK")>>>>
        BY <2>7, <3>2 DEF Transition
      <4>2. Answers("CONNECTED", <<Frame("NACK")>>)
        BY <2>1, <2>2, <2>4, <2>6, <2>7, <3>2, <4>1
      <4> HIDE DEF Answers
      <4> QED BY <2>1, <2>2, <4>2
    <3>3. CASE cmd = "DISCONNECT"
      <4>1. Transition(f.state, cmd) = <<"CONNECTED", <<Frame("ACK")>>>>
        BY <2>7, <3>3 DEF Transition
      <4>2. Answers("CONNECTED", <<Frame("ACK")>>)
        BY <2>1, <2>2, <2>4, <2>7, <3>3, <4>1
      <4> HIDE DEF Answers
      <4> QED BY <2>1, <2>2, <4>2
    <3>4. CASE cmd = "RESET"
      <4>1. Transition(f.state, cmd) = <<"IDLE", <<Frame("CONNECT")>>>>
        BY <2>7, <3>4 DEF Transition
      <4>2. Answers("IDLE", <<Frame("CONNECT")>>)
        BY <2>1, <2>2, <2>4, <2>7, <3>4, <4>1
      <4> HIDE DEF Answers
      <4> QED BY <2>1, <2>2, <4>2
    <3>5. CASE cmd \notin {"ACK", "CONNECT", "DISCONNECT", "RESET"}
      <4>1. Transition(f.state, cmd) = <<"CONNECTED", <<>>>>
        BY <2>7, <3>5 DEF Transition
      <4>2. Answers("CONNECTED", <<>>)
        BY <2>1, <2>3, <2>5, <2>7, <4>1
      <4> HIDE DEF Answers
      <4> QED BY <2>1, <2>3, <4>2
    <3> QED BY <3>1, <3>2, <3>3, <3>4, <3>5
  <2>8. CASE f.state # "CONNECTED"
    <3>1. CASE cmd = "CONNECT"
      <4>1. Transition(f.state, cmd) = <<"COMMAND", <<Frame("ACK")>>>>
        BY <2>8, <3>1 DEF Transition
      <4>2. Answers("COMMAND", <<Frame("ACK")>>)
        BY <2>1, <2>2, <2>4, <2>8, <3>1, <4>1
      <4> HIDE DEF Answers
      <4> QED BY <2>1, <2>2, <4>2
    <3>2. CASE cmd = "ACK"
      <4>1. Transition(f.state, cmd) = <<"CONNECTED", <<Frame("CONFIRM")>>>>
        BY <2>8, <3>2 DEF Transition
      <4>2. Answers("CONNECTED", <<Frame("CONFIRM")>>)
        BY <2>1, <2>2, <2>4, <2>8, <3>2, <4>1
      <4> HIDE DEF Answers
      <4> QED BY <2>1, <2>2, <4>2
    <3>3. CASE cmd = "NACK"
      <4>1. Transition(f.state, cmd) = <<"IDLE", <<Frame("CONFIRM")>>>>
        BY <2>8, <3>3 DEF Transition
      <4>2. Answers("IDLE", <<Frame("CONFIRM")>>)
        BY <2>1, <2>2, <2>4, <2>8, <3>3, <4>1
      <4> HIDE DEF Answers
      <4> QED BY <2>1, <2>2, <4>2
    <3>4. CASE cmd = "CONFIRM"
      <4>1. Transition(f.state, cmd) = <<"CONNECTED", <<>>>>
        BY <2>8, <3>4 DEF Transition
      <4>2. Answers("CONNECTED", <<>>)
        BY <2>1, <2>3, <2>5, <2>8, <3>4, <4>1
      <4> HIDE DEF Answers
      <4> QED BY <2>1, <2>3, <4>2
    <3>5. CASE cmd = "RESET"
      <4>1. Transition(f.state, cmd) = <<"COMMAND", <<Frame("CONNECT")>>>>
        BY <2>8, <3>5 DEF Transition
      <4>2. Answers("COMMAND", <<Frame("CONNECT")>>)
        BY <2>1, <2>2, <2>4, <2>8, <3>5, <4>1
      <4> HIDE DEF Answers
      <4> QED BY <2>1, <2>2, <4>2
    <3>6. CASE cmd \notin {"CONNECT", "ACK", "NACK", "CONFIRM", "RESET"}
      <4>1. Transition(f.state, cmd) = <<"IDLE", <<Frame("NACK")>>>>
        BY <2>8, <3>6 DEF Transition
      <4>2. Answers("IDLE", <<Frame("NACK")>>)
        BY <2>1, <2>2, <2>4, <2>8, <4>1
      <4> HIDE DEF Answers
      <4> QED BY <2>1, <2>2, <4>2
    <3> QED BY <3>1, <3>2, <3>3, <3>4, <3>5, <3>6
  <2> QED BY <2>7, <2>8
<1>4. FsmHandleCmd(f, cmd) = FsmStep(h, next, frames)
  BY <1>1, <1>3 DEF FsmHandleCmd
<1>5. "IDLE" \in LcmState /\ "CONNECTED" \in LcmState /\ "RESET" \in LcmCmd
  BY DEF LcmState, LcmCmd
<1>6. Frame("RESET") \in LcmFrame /\ Frame("RESET").cmd = "RESET" /\ Flush \in Seq(LcmFrame)
  BY <1>5, FrameTyped
<1>7. CASE /\ next # "CONNECTED" \/ f.state = "CONNECTED"
           /\ FsmStep(h, next, frames) = [state |-> next, reset_rx |-> h.reset_rx, sent |-> f.sent \o frames]
  BY <1>2, <1>3, <1>4, <1>7
<1>8. CASE /\ next = "CONNECTED" /\ f.state # "CONNECTED"
           /\ FsmStep(h, next, frames)
                = [state |-> "IDLE", reset_rx |-> h.reset_rx, sent |-> f.sent \o (frames \o <<Frame("RESET")>>)]
  <2>1. frames \o <<Frame("RESET")>> \in Seq(LcmFrame)
    BY <1>6
  <2>2. \A x \in 1..Len(frames \o <<Frame("RESET")>>) : (frames \o <<Frame("RESET")>>)[x].cmd \in {"CONFIRM", "RESET"}
    <3>1. CASE frames = <<>>
      BY <1>6, <3>1
    <3>2. CASE frames = <<Frame("CONFIRM")>>
      <4>1. Frame("CONFIRM").cmd = "CONFIRM"
        BY DEF Frame
      <4> QED BY <1>6, <3>2, <4>1
    <3> QED BY <1>3, <1>8, <3>1, <3>2
  <2>3. Answer(cmd, frames \o <<Frame("RESET")>>)
    BY <2>2 DEF Answer
  <2> QED BY <1>2, <1>4, <1>5, <1>8, <2>1, <2>3
<1>9. CASE /\ next = "CONNECTED" /\ f.state # "CONNECTED"
           /\ FsmStep(h, next, frames)
                = [state |-> "CONNECTED", reset_rx |-> h.reset_rx, sent |-> f.sent \o (frames \o Flush)]
  <2>1. frames \o Flush \in Seq(LcmFrame)
    BY <1>6
  <2>2. Flushed(cmd, frames \o Flush)
    <3>1. CASE cmd = "ACK" /\ frames = <<Frame("CONFIRM")>>
      BY <3>1 DEF Flushed
    <3>2. CASE cmd = "CONFIRM" /\ frames = <<>>
      <4>1. <<>> \o Flush = Flush
        BY <1>6
      <4> QED BY <3>2, <4>1 DEF Flushed
    <3> QED BY <1>3, <1>9, <3>1, <3>2
  <2>3. Answer(cmd, frames \o Flush)
    <3>1. \A x \in 1..Len(frames \o Flush) : (frames \o Flush)[x].cmd \in {"CONFIRM", "PRINT1", "PRINT2"}
      <4>1. \A x \in 1..Len(Flush) : Flush[x].cmd \in {"PRINT1", "PRINT2"}
        BY DEF Flush, PrintLine
      <4>2. \A x \in 1..Len(frames) : frames[x].cmd = "CONFIRM"
        BY <1>3, <1>9 DEF Frame
      <4> HIDE DEF Flush
      <4> QED BY <1>6, <4>1, <4>2, Joined
    <3> HIDE DEF Flush
    <3> QED BY <3>1 DEF Answer
  <2> QED BY <1>2, <1>4, <1>5, <1>9, <2>1, <2>2, <2>3
<1> QED BY <1>2, <1>7, <1>8, <1>9, StepOutcome

\* An answer to a command keeps what is known of what was asked.
LEMMA AskedOfAnswer ==
    ASSUME NEW bytes \in Seq(LcmByte), NEW c \in 1..Len(bytes), NEW frames \in Seq(LcmFrame), NEW more \in Seq(LcmFrame),
           NEW m, AskedOnce(bytes, frames, m), Answer(bytes[c], more)
    PROVE  AskedOnce(From(bytes, c), frames \o more, m)
<1> DEFINE all == frames \o more
           rest == From(bytes, c)
           L == Len(frames)
<1>1. /\ Len(all) = L + Len(more) /\ L \in Nat /\ Len(more) \in Nat
      /\ \A x \in 1..L : all[x] = frames[x]
      /\ \A x \in 1..Len(all) : x \in 1..L \/ (x - L \in 1..Len(more) /\ all[x] = more[x - L])
  BY Joined
<1>2. c \in 0..Len(bytes) /\ Len(bytes) \in Nat
  OBVIOUS
<1>3. Len(rest) = Len(bytes) - c /\ \A x \in 1..Len(rest) : rest[x] = bytes[c + x] /\ c + x \in 1..Len(bytes) /\ c \in 1..(c + x) - 1
  <2>1. Len(rest) = Len(bytes) - c /\ \A x \in 1..Len(bytes) - c : rest[x] = bytes[c + x]
    BY <1>2, Rest
  <2> HIDE DEF rest
  <2> QED BY <1>2, <2>1
<1>4. AskedOnce(rest, frames, m)
  BY <1>2, AskedOfRest
<1> HIDE DEF all, rest, L
<1>5. bytes[c] # "DISCONNECT"
  BY DEF AskedOnce
<1>6. ASSUME NEW x \in 1..Len(all), x \notin 1..L
      PROVE  /\ all[x].cmd = "ACK" => bytes[c] = "CONNECT" /\ x = Len(all)
             /\ all[x].cmd = "CONNECT" => bytes[c] = "RESET"
  <2>1. x - L \in 1..Len(more) /\ all[x] = more[x - L]
    BY <1>1, <1>6
  <2>2. /\ more[x - L].cmd = "ACK" => bytes[c] \in {"CONNECT", "DISCONNECT"} /\ Len(more) = 1
        /\ more[x - L].cmd = "CONNECT" => bytes[c] = "RESET"
    BY <2>1 DEF Answer
  <2>3. Len(more) = 1 => x = Len(all)
    <3>1. Len(all) = L + Len(more) /\ L \in Nat
      BY <1>1
    <3> QED BY <2>1, <3>1
  <2> QED BY <1>5, <2>1, <2>2, <2>3
<1>8. m = "asked" => AskedLast(rest, all)
  <2> SUFFICES ASSUME m = "asked" PROVE AskedLast(rest, all)
    OBVIOUS
  <2>1. AskedLast(bytes, frames) /\ AskedLast(rest, frames)
    BY <1>4 DEF AskedOnce
  <2>2. ASSUME NEW x \in 1..Len(all), all[x].cmd = "ACK", NEW y \in x + 1..Len(all) PROVE all[y].cmd # "CONNECT"
    <3>1. x \in 1..L /\ y \in 1..Len(all)
      BY <1>1, <1>6, <2>2
    <3>2. frames[x].cmd = "ACK"
      BY <1>1, <2>2, <3>1
    <3>3. bytes[c] # "RESET" /\ \A k \in x + 1..L : frames[k].cmd # "CONNECT"
      BY <2>1, <3>1, <3>2 DEF AskedLast, L
    <3>4. CASE y \in 1..L
      <4>1. y \in x + 1..L
        BY <3>1, <3>4
      <4> QED BY <1>1, <3>3, <3>4, <4>1
    <3> QED BY <1>6, <3>1, <3>3, <3>4
  <2>3. ASSUME NEW x \in 1..Len(all), all[x].cmd = "ACK", NEW y \in 1..Len(rest) PROVE rest[y] \notin {"RESET", "CONNECT"}
    <3>1. CASE x \in 1..L
      BY <1>1, <2>1, <2>3, <3>1 DEF AskedLast, L
    <3>2. CASE x \notin 1..L
      <4>1. bytes[c] = "CONNECT"
        BY <1>6, <2>3, <3>2
      <4>2. bytes[c + y] \notin {"RESET", "CONNECT"}
        BY <1>3, <2>1, <4>1 DEF AskedLast
      <4> QED BY <1>3, <4>2
    <3> QED BY <3>1, <3>2
  <2> QED BY <2>1, <2>2, <2>3 DEF AskedLast
<1>9. ConfirmedLast(rest, all, m)
  <2> SUFFICES ASSUME NEW y \in 1..Len(rest), rest[y] = "CONFIRM"
               PROVE  /\ m # "acked"
                      /\ \A x \in 1..y - 1 : rest[x] # "RESET"
                      /\ \A x \in 1..Len(all) : all[x].cmd # "CONNECT"
    BY DEF ConfirmedLast
  <2>1. /\ m # "acked"
        /\ \A x \in 1..y - 1 : rest[x] # "RESET"
        /\ \A x \in 1..L : frames[x].cmd # "CONNECT"
    BY <1>4 DEF AskedOnce, ConfirmedLast, L
  <2>2. bytes[c] # "RESET"
    BY <1>3 DEF AskedOnce, ConfirmedLast
  <2> QED BY <1>1, <1>6, <2>1, <2>2
<1> QED BY <1>4, <1>8, <1>9 DEF AskedOnce, all, rest

\* The shadow is what the driver sends when it is connected, after the confirmation it owes.
LEMMA FlushPromises ==
    ASSUME LcmType, NEW bytes \in Seq(LcmByte), NEW c \in 1..Len(bytes), NEW frames \in Seq(LcmFrame),
           AskedOnce(bytes, frames, mode), NEW more \in Seq(LcmFrame), Flushed(bytes[c], more)
    PROVE  Promised(frames \o more, mode, shadow, lcd)
<1>1. PICK p1 \in LcmFrame, p2 \in LcmFrame :
        /\ Flush = <<p1, p2>>
        /\ p1.cmd = "PRINT1" /\ p2.cmd = "PRINT2" /\ p1.line = shadow[1] /\ p2.line = shadow[2]
  <2>1. 1 \in 1..2 /\ 2 \in 1..2 /\ PrintOf(1) = "PRINT1" /\ PrintOf(2) = "PRINT2"
    BY DEF PrintOf
  <2> QED BY <2>1, FrameTyped DEF Flush
<1>2. PICK p0 \in LcmFrame : p0 = Frame("CONFIRM") /\ p0.cmd = "CONFIRM"
  <2>1. "CONFIRM" \in LcmCmd
    BY DEF LcmCmd
  <2> QED BY <2>1, FrameTyped
<1>3. \A r \in 1..2 : (r = 1 /\ PrintOf(r) = "PRINT1") \/ (r = 2 /\ PrintOf(r) = "PRINT2")
  BY DEF PrintOf
<1>4. CASE bytes[c] = "ACK" /\ more = <<Frame("CONFIRM")>> \o Flush
  <2>1. Len(more) = 3 /\ more[1] = p0 /\ more[2] = p1 /\ more[3] = p2
    BY <1>1, <1>2, <1>4
  <2>2. \A r \in 1..2 : \E y \in 2..3 : more[y].cmd = PrintOf(r)
    BY <1>1, <1>3, <2>1
  <2>3. PrintsBehind(more, 1)
    BY <2>1, <2>2 DEF PrintsBehind
  <2>4. \A r \in 1..2 : \E y \in 1..Len(more) : more[y].cmd = PrintOf(r)
    BY <2>1, <2>2
  <2>5. \A x \in 1..Len(more) : more[x].cmd \notin {"ACK", "CONNECT"}
    BY <1>1, <1>2, <2>1
  <2>6. LastPrints(more, shadow)
    BY <1>1, <1>2, <1>3, <2>1 DEF LastPrints
  <2> QED BY <1>2, <2>1, <2>3, <2>4, <2>5, <2>6, PromisedByFlush
<1>5. CASE bytes[c] = "CONFIRM" /\ more = Flush
  <2>1. Len(more) = 2 /\ more[1] = p1 /\ more[2] = p2
    BY <1>1, <1>5
  <2>2. \A r \in 1..2 : \E y \in 1..Len(more) : more[y].cmd = PrintOf(r)
    BY <1>1, <1>3, <2>1
  <2>3. \A x \in 1..Len(more) : more[x].cmd \notin {"ACK", "CONNECT"}
    BY <1>1, <2>1
  <2>4. LastPrints(more, shadow)
    BY <1>1, <1>3, <2>1 DEF LastPrints
  <2>5. mode # "acked" /\ \A x \in 1..Len(frames) : frames[x].cmd # "CONNECT"
    BY <1>5 DEF AskedOnce, ConfirmedLast
  <2> QED BY <2>2, <2>3, <2>4, <2>5, PromisedByFlush
<1> QED BY <1>4, <1>5 DEF Flushed

\* fsm_handle_cmd keeps what was asked and what is promised.
LEMMA CmdKeeps ==
    ASSUME LcmType, NEW f \in LcmFsm, NEW bytes \in Seq(LcmByte), NEW c \in 1..Len(bytes), Kept(f, bytes)
    PROVE  FsmHandleCmd(f, bytes[c]) \in LcmFsm /\ Kept(FsmHandleCmd(f, bytes[c]), From(bytes, c))
<1>1. PICK cmd \in LcmByte : cmd = bytes[c]
  OBVIOUS
<1>2. PICK more \in Seq(LcmFrame), state \in LcmState, reset_rx \in BOOLEAN :
         /\ FsmHandleCmd(f, cmd) = [state |-> state, reset_rx |-> reset_rx, sent |-> f.sent \o more]
         /\ Answer(cmd, more)
         /\ state = "CONNECTED" => \/ f.state = "CONNECTED" /\ (Quiet(more) \/ cmd = "DISCONNECT")
                                   \/ Flushed(cmd, more)
  BY CmdOutcome
<1>3. PICK sent \in Seq(LcmFrame) : sent = f.sent
  BY DEF LcmFsm
<1>4. toLCM \in Seq(LcmFrame)
  BY DEF LcmType
<1>5. sent \o more \in Seq(LcmFrame) /\ toLCM \o sent \in Seq(LcmFrame) /\ toLCM \o (sent \o more) = (toLCM \o sent) \o more
  <2>1. sent \o more \in Seq(LcmFrame) /\ toLCM \o sent \in Seq(LcmFrame)
    BY <1>4, ConcatProperties
  <2>2. (toLCM \o sent) \o more = toLCM \o (sent \o more)
    BY <1>4, ConcatAssociative
  <2> QED BY <2>1, <2>2
<1>6. PICK all \in Seq(LcmFrame), frames \in Seq(LcmFrame) :
        all = sent \o more /\ frames = toLCM \o sent /\ toLCM \o all = frames \o more
  BY <1>5
<1>7. PICK g \in LcmFsm : g = [state |-> state, reset_rx |-> reset_rx, sent |-> all]
  BY DEF LcmFsm
<1>8. g = FsmHandleCmd(f, bytes[c]) /\ g.state = state /\ g.sent = all
  BY <1>1, <1>2, <1>3, <1>6, <1>7
<1>9. AskedOnce(bytes, frames, mode) /\ (f.state = "CONNECTED" => Promised(frames, mode, shadow, lcd))
  BY <1>3, <1>6 DEF Kept
<1>10. AskedOnce(From(bytes, c), frames \o more, mode)
  BY <1>1, <1>2, <1>9, AskedOfAnswer
<1>11. cmd # "DISCONNECT"
  BY <1>1, <1>9 DEF AskedOnce
<1>12. ASSUME f.state = "CONNECTED", Quiet(more) PROVE Promised(frames \o more, mode, shadow, lcd)
  <2>1. \A x \in 1..Len(more) : more[x].cmd \notin {"ACK", "CONNECT", "PRINT1", "PRINT2"}
    BY <1>12 DEF Quiet
  <2> QED BY <1>9, <1>12, <2>1, PromisedOfMore
<1>13. Flushed(cmd, more) => Promised(frames \o more, mode, shadow, lcd)
  BY <1>1, <1>9, FlushPromises
<1>14. g.state = "CONNECTED" => Promised(toLCM \o g.sent, mode, shadow, lcd)
  BY <1>2, <1>6, <1>8, <1>11, <1>12, <1>13
<1>15. AskedOnce(From(bytes, c), toLCM \o g.sent, mode)
  BY <1>6, <1>8, <1>10
<1> QED BY <1>8, <1>14, <1>15 DEF Kept

LEMMA DataTyped ==
    ASSUME LcmType, NEW f \in LcmFsm
    PROVE  FsmHandleDatacmd(f) \in LcmFsm
<1>1. PICK nack \in LcmFrame : nack = Frame("NACK")
  <2>1. "NACK" \in LcmCmd
    BY DEF LcmCmd
  <2> QED BY <2>1, FrameTyped
<1>2. f.state \in LcmState /\ f.reset_rx \in BOOLEAN /\ f.sent \in Seq(LcmFrame)
  BY DEF LcmFsm
<1>3. f.sent \o <<nack>> \in Seq(LcmFrame) /\ f.sent \o <<>> = f.sent /\ <<nack>> \in Seq(LcmFrame) /\ <<>> \in Seq(LcmFrame)
  BY <1>2, ConcatProperties, ConcatEmptySeq
<1>4. CASE f.state = "CONNECTED"
  <2>1. FsmHandleDatacmd(f) = FsmStep(f, "CONNECTED", <<>>)
    BY <1>4 DEF FsmHandleDatacmd
  <2>2. FsmHandleDatacmd(f) = [state |-> "CONNECTED", reset_rx |-> f.reset_rx, sent |-> f.sent]
    BY <1>2, <1>3, <1>4, <2>1, StepOutcome
  <2> QED BY <1>2, <1>4, <2>2 DEF LcmFsm
<1>5. CASE f.state # "CONNECTED"
  <2>1. FsmHandleDatacmd(f) = FsmStep(f, f.state, <<nack>>)
    BY <1>1, <1>5 DEF FsmHandleDatacmd
  <2>2. FsmHandleDatacmd(f) = [state |-> f.state, reset_rx |-> f.reset_rx, sent |-> f.sent \o <<nack>>]
    BY <1>2, <1>3, <1>5, <2>1, StepOutcome
  <2> QED BY <1>2, <1>3, <2>2 DEF LcmFsm
<1> QED BY <1>4, <1>5

\* fsm_handle_datacmd sends nothing to a connected display.
LEMMA DataKeeps ==
    ASSUME LcmType, NEW f \in LcmFsm, NEW bytes \in Seq(LcmByte), Kept(f, bytes)
    PROVE  FsmHandleDatacmd(f) \in LcmFsm /\ Kept(FsmHandleDatacmd(f), bytes)
<1>1. PICK sent \in Seq(LcmFrame) : sent = f.sent
  BY DEF LcmFsm
<1>2. PICK nack \in LcmFrame : nack = Frame("NACK") /\ nack.cmd = "NACK"
  <2>1. "NACK" \in LcmCmd
    BY DEF LcmCmd
  <2> QED BY <2>1, FrameTyped
<1>3. toLCM \in Seq(LcmFrame) /\ <<nack>> \in Seq(LcmFrame) /\ <<>> \in Seq(LcmFrame)
  BY DEF LcmType
<1>4. /\ sent \o <<nack>> \in Seq(LcmFrame) /\ toLCM \o sent \in Seq(LcmFrame) /\ sent \o <<>> = sent
      /\ toLCM \o (sent \o <<nack>>) = (toLCM \o sent) \o <<nack>>
  BY <1>3, ConcatProperties, ConcatAssociative, ConcatEmptySeq
<1>5. "CONNECTED" \in LcmState /\ f.state \in LcmState /\ f.reset_rx \in BOOLEAN
  BY DEF LcmFsm, LcmState
<1>6. CASE f.state = "CONNECTED"
  <2>1. FsmHandleDatacmd(f) = FsmStep(f, "CONNECTED", <<>>)
    BY <1>6 DEF FsmHandleDatacmd
  <2>2. FsmHandleDatacmd(f) = [state |-> "CONNECTED", reset_rx |-> f.reset_rx, sent |-> sent]
    BY <1>1, <1>3, <1>4, <1>5, <1>6, <2>1, StepOutcome
  <2>3. PICK g \in LcmFsm : g = [state |-> "CONNECTED", reset_rx |-> f.reset_rx, sent |-> sent]
    BY <1>5 DEF LcmFsm
  <2>4. g.state = f.state /\ g.sent = f.sent
    BY <1>1, <1>6, <2>3
  <2> QED BY <2>2, <2>3, <2>4 DEF Kept
<1>7. CASE f.state # "CONNECTED"
  <2>1. FsmHandleDatacmd(f) = FsmStep(f, f.state, <<nack>>)
    BY <1>2, <1>7 DEF FsmHandleDatacmd
  <2>2. FsmHandleDatacmd(f) = [state |-> f.state, reset_rx |-> f.reset_rx, sent |-> sent \o <<nack>>]
    BY <1>1, <1>3, <1>4, <1>5, <1>7, <2>1, StepOutcome
  <2>3. PICK all \in Seq(LcmFrame), frames \in Seq(LcmFrame) :
          all = sent \o <<nack>> /\ frames = toLCM \o sent /\ toLCM \o all = frames \o <<nack>>
    BY <1>4
  <2>4. PICK g \in LcmFsm : g = [state |-> f.state, reset_rx |-> f.reset_rx, sent |-> all]
    BY <1>5 DEF LcmFsm
  <2>5. g.state = f.state /\ g.sent = all
    BY <2>4
  <2>6. AskedOnce(bytes, frames, mode)
    BY <1>1, <2>3 DEF Kept
  <2>7. \A x \in 1..Len(<<nack>>) : <<nack>>[x].cmd \notin {"ACK", "CONNECT"}
    BY <1>2
  <2>8. AskedOnce(bytes, frames \o <<nack>>, mode)
    BY <1>3, <2>6, <2>7, AskedOfMore
  <2> QED BY <1>7, <2>2, <2>3, <2>4, <2>5, <2>8 DEF Kept
<1> QED BY <1>6, <1>7

-----------------------------------------------------------------------------
(* A read, frame by frame. *)

LEMMA RestOfRest ==
    ASSUME NEW S, NEW bytes \in Seq(S), NEW a \in 0..Len(bytes), NEW b \in 0..Len(bytes) - a
    PROVE  From(From(bytes, a), b) = From(bytes, a + b)
<1>1. Len(bytes) \in Nat /\ a + b \in 0..Len(bytes)
  OBVIOUS
<1>2. PICK rest \in Seq(S) : rest = From(bytes, a) /\ Len(rest) = Len(bytes) - a /\ \A x \in 1..Len(bytes) - a : rest[x] = bytes[a + x]
  <2>1. /\ From(bytes, a) \in Seq(S) /\ Len(From(bytes, a)) = Len(bytes) - a
        /\ \A x \in 1..Len(bytes) - a : From(bytes, a)[x] = bytes[a + x]
    BY Rest
  <2> QED BY <2>1
<1>3. PICK more \in Seq(S) : more = From(rest, b) /\ Len(more) = Len(rest) - b /\ \A x \in 1..Len(rest) - b : more[x] = rest[b + x]
  <2>1. b \in 0..Len(rest)
    BY <1>2
  <2> QED BY <2>1, Rest
<1>4. PICK all \in Seq(S) : /\ all = From(bytes, a + b) /\ Len(all) = Len(bytes) - (a + b)
                            /\ \A x \in 1..Len(bytes) - (a + b) : all[x] = bytes[(a + b) + x]
  BY <1>1, Rest
<1>5. Len(more) = Len(all) /\ Len(more) \in Nat
  <2>1. Len(more) = (Len(bytes) - a) - b
    BY <1>2, <1>3
  <2>2. Len(all) = Len(bytes) - (a + b)
    BY <1>4
  <2> QED BY <1>1, <2>1, <2>2
<1>6. \A x \in 1..Len(more) : more[x] = all[x]
  <2> SUFFICES ASSUME NEW x \in 1..Len(more) PROVE more[x] = all[x]
    OBVIOUS
  <2>1. x \in 1..Len(rest) - b /\ b + x \in 1..Len(bytes) - a /\ x \in 1..Len(bytes) - (a + b) /\ a + (b + x) = (a + b) + x
    BY <1>1, <1>2, <1>3
  <2> QED BY <1>2, <1>3, <1>4, <2>1
<1> QED BY <1>2, <1>3, <1>4, <1>5, <1>6, SeqEqual

LEMMA KeptLater ==
    ASSUME NEW f, NEW bytes \in Seq(LcmByte), NEW a \in 0..Len(bytes), NEW b \in a..Len(bytes), Kept(f, From(bytes, a))
    PROVE  Kept(f, From(bytes, b))
<1>1. Len(bytes) \in Nat /\ b - a \in 0..Len(bytes) - a /\ a + (b - a) = b
  OBVIOUS
<1>2. PICK rest \in Seq(LcmByte) : rest = From(bytes, a) /\ Len(rest) = Len(bytes) - a
  BY Rest
<1>3. From(rest, b - a) = From(bytes, b)
  BY <1>1, <1>2, RestOfRest
<1>4. AskedOnce(rest, toLCM \o f.sent, mode) /\ (f.state = "CONNECTED" => Promised(toLCM \o f.sent, mode, shadow, lcd))
  BY <1>2 DEF Kept
<1>5. AskedOnce(From(rest, b - a), toLCM \o f.sent, mode)
  BY <1>1, <1>2, <1>4, AskedOfRest
<1> QED BY <1>3, <1>4, <1>5 DEF Kept

\* What lies behind the first k bytes of a buffer, even where there are fewer.
LEMMA BehindBytes ==
    ASSUME NEW buf \in Seq(LcmByte), NEW k \in Nat
    PROVE  /\ From(buf, k) \in Seq(LcmByte)
           /\ \A x \in Nat \ {0} : k + x \in 1..Len(buf) => x \in 1..Len(From(buf, k)) /\ From(buf, k)[x] = buf[k + x]
<1>1. Len(buf) \in Nat
  OBVIOUS
<1>2. CASE k <= Len(buf)
  <2>1. k \in 0..Len(buf)
    BY <1>1, <1>2
  <2>2. PICK rest \in Seq(LcmByte) : rest = From(buf, k) /\ Len(rest) = Len(buf) - k /\ \A x \in 1..Len(buf) - k : rest[x] = buf[k + x]
    BY <2>1, Rest
  <2>3. ASSUME NEW x \in Nat \ {0}, k + x \in 1..Len(buf) PROVE x \in 1..Len(rest) /\ rest[x] = buf[k + x]
    BY <1>1, <2>2, <2>3
  <2> QED BY <2>2, <2>3
<1>3. CASE k > Len(buf)
  <2>1. From(buf, k) = <<>>
    BY <1>1, <1>3, SubSeqEmpty DEF From
  <2>2. \A x \in Nat \ {0} : k + x \notin 1..Len(buf)
    BY <1>1, <1>3
  <2> QED BY <2>1, <2>2
<1> QED BY <1>1, <1>2, <1>3

\* The buffer of a read of n bytes while it is handled: s.read of them are left, and stand in
\* front of what is stale.  A command whose byte had not been read sets s.astray.
ReadState == [f : LcmFsm, buf : Seq(LcmByte), length : Nat, read : Int, astray : BOOLEAN]
Taken(read, n) == IF read >= 0 THEN n - read ELSE n
Reading(s, bytes, n) ==
    /\ s.read <= n
    /\ \A x \in Nat \ {0} : x <= s.read => x \in 1..Len(s.buf) /\ s.buf[x] = bytes[(n - s.read) + x]
    /\ ~astray /\ ~s.astray => Kept(s.f, From(bytes, Taken(s.read, n)))

\* What remains after k bytes of the buffer.
LEMMA ReadOn ==
    ASSUME NEW bytes \in Seq(LcmByte), NEW n \in 1..Len(bytes), NEW s \in ReadState, Reading(s, bytes, n), NEW k \in Nat
    PROVE  /\ From(s.buf, k) \in Seq(LcmByte) /\ s.read - k \in Int /\ s.read - k <= n
           /\ \A x \in Nat \ {0} : x <= s.read - k =>
                  x \in 1..Len(From(s.buf, k)) /\ From(s.buf, k)[x] = bytes[(n - (s.read - k)) + x]
           /\ Taken(s.read, n) \in 0..Len(bytes) /\ Taken(s.read - k, n) \in Taken(s.read, n)..Len(bytes)
<1>1. s.buf \in Seq(LcmByte) /\ s.read \in Int /\ s.read <= n /\ Len(bytes) \in Nat /\ n \in Nat
  BY DEF Reading, ReadState
<1>2. PICK left \in Seq(LcmByte) :
        /\ left = From(s.buf, k)
        /\ \A x \in Nat \ {0} : k + x \in 1..Len(s.buf) => x \in 1..Len(left) /\ left[x] = s.buf[k + x]
  BY <1>1, BehindBytes
<1>3. ASSUME NEW x \in Nat \ {0}, x <= s.read - k PROVE x \in 1..Len(left) /\ left[x] = bytes[(n - (s.read - k)) + x]
  <2>1. k + x \in Nat \ {0} /\ k + x <= s.read /\ (n - s.read) + (k + x) = (n - (s.read - k)) + x
    BY <1>1, <1>3
  <2>2. k + x \in 1..Len(s.buf) /\ s.buf[k + x] = bytes[(n - s.read) + (k + x)]
    BY <2>1 DEF Reading
  <2> QED BY <1>2, <2>1, <2>2
<1>4. Taken(s.read, n) \in 0..Len(bytes) /\ Taken(s.read - k, n) \in Taken(s.read, n)..Len(bytes)
  BY <1>1 DEF Taken
<1> QED BY <1>1, <1>2, <1>3, <1>4

\* Each frame keeps what was asked and what is promised, whatever was read with it.
LEMMA FrameKeeps ==
    ASSUME LcmType, NEW bytes \in Seq(LcmByte), NEW n \in 1..Len(bytes), NEW s \in ReadState, Reading(s, bytes, n)
    PROVE  FrameHandled(s) \in ReadState /\ Reading(FrameHandled(s), bytes, n)
<1>1. /\ s.f \in LcmFsm /\ s.buf \in Seq(LcmByte) /\ s.length \in Nat /\ s.read \in Int /\ s.astray \in BOOLEAN
      /\ n \in Nat /\ Len(bytes) \in Nat /\ s.read <= n
  BY DEF ReadState, Reading
<1> DEFINE ends == {k \in 5..s.length : SubSeq(s.buf, k - 1, k) = <<"crc", "MASK">>}
           end == CHOOSE k \in ends : \A other \in ends : k <= other
           Behind(k) == SubSeq(s.buf, k + 1, Len(s.buf))
           C == s.length >= 3 /\ s.buf[1] = "MASK" /\ s.buf[3] = "MASK"
           D == s.length > 3 /\ s.buf[1] = "MASK" /\ ends # {} /\ SubSeq(s.buf, 1, end) = KeyFrame
<1>2. FrameHandled(s) =
         IF C THEN [f |-> FsmHandleCmd(s.f, s.buf[2]), buf |-> Behind(3), length |-> s.length - 3,
                    read |-> s.read - 3, astray |-> s.astray \/ s.read < 2]
         ELSE IF D THEN [f |-> FsmHandleDatacmd(s.f), buf |-> Behind(end),
                         length |-> IF end < s.length THEN s.length - end + 1 ELSE 0,
                         read |-> s.read - end, astray |-> s.astray]
         ELSE [s EXCEPT !.length = 0]
  BY DEF FrameHandled
<1>3. \A k : Behind(k) = From(s.buf, k)
  BY DEF From
<1> HIDE DEF Behind
<1>4. CASE C
  <2>1. PICK more \in Seq(LcmFrame), state \in LcmState, reset_rx \in BOOLEAN :
           FsmHandleCmd(s.f, s.buf[2]) = [state |-> state, reset_rx |-> reset_rx, sent |-> s.f.sent \o more]
    <3> DEFINE f == s.f
               cmd == s.buf[2]
    <3>1. f \in LcmFsm
      BY <1>1
    <3> HIDE DEF f, cmd
    <3>2. \E more \in Seq(LcmFrame), state \in LcmState, reset_rx \in BOOLEAN :
             FsmHandleCmd(f, cmd) = [state |-> state, reset_rx |-> reset_rx, sent |-> f.sent \o more]
      BY <3>1, CmdOutcome
    <3> QED BY <3>2 DEF f, cmd
  <2>2. s.f.sent \o more \in Seq(LcmFrame)
    BY <1>1, ConcatProperties DEF LcmFsm
  <2>3. PICK g \in LcmFsm : g = FsmHandleCmd(s.f, s.buf[2])
    BY <2>1, <2>2 DEF LcmFsm
  <2>4. PICK left \in Seq(LcmByte), read \in Int :
           /\ left = From(s.buf, 3) /\ read = s.read - 3 /\ read <= n
           /\ \A x \in Nat \ {0} : x <= read => x \in 1..Len(left) /\ left[x] = bytes[(n - read) + x]
           /\ Taken(s.read, n) \in 0..Len(bytes) /\ Taken(read, n) \in Taken(s.read, n)..Len(bytes)
    <3>1. PICK k \in Nat : k = 3
      OBVIOUS
    <3>2. /\ From(s.buf, k) \in Seq(LcmByte) /\ s.read - k \in Int /\ s.read - k <= n
          /\ \A x \in Nat \ {0} : x <= s.read - k =>
                 x \in 1..Len(From(s.buf, k)) /\ From(s.buf, k)[x] = bytes[(n - (s.read - k)) + x]
          /\ Taken(s.read, n) \in 0..Len(bytes) /\ Taken(s.read - k, n) \in Taken(s.read, n)..Len(bytes)
      BY ReadOn
    <3> QED BY <3>1, <3>2
  <2>5. PICK t \in ReadState : /\ t = FrameHandled(s)
                               /\ t.f = g /\ t.buf = left /\ t.read = read /\ (~t.astray => ~s.astray /\ s.read >= 2)
    <3>1. FrameHandled(s) = [f |-> g, buf |-> left, length |-> s.length - 3, read |-> read, astray |-> s.astray \/ s.read < 2]
      BY <1>2, <1>3, <1>4, <2>3, <2>4
    <3>2. PICK length \in Nat : length = s.length - 3
      BY <1>1, <1>4
    <3>3. PICK lost \in BOOLEAN : lost <=> (s.astray \/ s.read < 2)
      OBVIOUS
    <3>4. lost = (s.astray \/ s.read < 2)
      BY <3>3, Zenon
    <3>5. [f |-> g, buf |-> left, length |-> length, read |-> read, astray |-> lost] \in ReadState
      BY DEF ReadState
    <3>6. PICK t \in ReadState : t = [f |-> g, buf |-> left, length |-> length, read |-> read, astray |-> lost]
      BY <3>5
    <3>7. t.f = g /\ t.buf = left /\ t.read = read /\ t.astray = lost
      BY <3>6
    <3>8. ~lost => ~s.astray /\ s.read >= 2
      <4>1. ~(s.read < 2) => s.read >= 2
        BY <1>1
      <4> QED BY <3>3, <4>1, Zenon
    <3>9. t = FrameHandled(s)
      BY <3>1, <3>2, <3>4, <3>6
    <3> QED BY <3>7, <3>8, <3>9
  <2>6. ASSUME ~astray, ~t.astray PROVE Kept(g, From(bytes, Taken(read, n)))
    <3>1. ~s.astray /\ s.read >= 2
      BY <2>5, <2>6
    <3>2. PICK p \in 0..Len(bytes) : p = Taken(s.read, n) /\ p = n - s.read /\ p + 2 \in 0..Len(bytes) /\ 2 \in 0..Len(bytes) - p
      BY <1>1, <3>1 DEF Taken
    <3>3. PICK rest \in Seq(LcmByte) : /\ rest = From(bytes, p) /\ Len(rest) = Len(bytes) - p
                                       /\ \A x \in 1..Len(bytes) - p : rest[x] = bytes[p + x]
      <4>1. /\ From(bytes, p) \in Seq(LcmByte) /\ Len(From(bytes, p)) = Len(bytes) - p
            /\ \A x \in 1..Len(bytes) - p : From(bytes, p)[x] = bytes[p + x]
        BY Rest
      <4> QED BY <4>1
    <3>4. 2 \in 1..Len(rest) /\ rest[2] = s.buf[2]
      <4>1. 2 \in 1..Len(bytes) - p /\ 2 \in Nat \ {0} /\ 2 <= s.read
        BY <3>1, <3>2
      <4>2. s.buf[2] = bytes[p + 2]
        BY <3>2, <4>1 DEF Reading
      <4> QED BY <3>3, <4>1, <4>2
    <3>5. Kept(s.f, rest)
      BY <2>6, <3>1, <3>2, <3>3 DEF Reading
    <3>6. Kept(g, From(rest, 2))
      BY <1>1, <2>3, <3>4, <3>5, CmdKeeps
    <3>7. From(rest, 2) = From(bytes, p + 2)
      BY <3>2, <3>3, RestOfRest
    <3>8. PICK q \in p + 2..Len(bytes) : q = Taken(read, n)
      <4>1. PICK S \in Int, L \in Nat : S = s.read /\ L = Len(bytes) /\ S >= 2 /\ read = S - 3 /\ p = n - S
        BY <1>1, <2>4, <3>1, <3>2
      <4>2. PICK N \in Nat : N = n /\ N <= L
        BY <1>1, <4>1
      <4>3. PICK q \in Int : q = IF S - 3 >= 0 THEN N - (S - 3) ELSE N
        BY <4>1, <4>2
      <4>4. q = Taken(read, n)
        BY <4>1, <4>2, <4>3 DEF Taken
      <4>5. q >= (N - S) + 2 /\ q <= L
        <5>1. CASE S - 3 >= 0
          BY <4>2, <4>3, <5>1
        <5>2. CASE ~(S - 3 >= 0)
          <6>1. S = 2 /\ q = N
            BY <4>1, <4>3, <5>2
          <6> QED BY <4>2, <6>1
        <5> QED BY <5>1, <5>2
      <4>6. q \in (N - S) + 2..L
        BY <4>5
      <4> QED BY <4>1, <4>2, <4>4, <4>6
    <3> QED BY <3>2, <3>6, <3>7, <3>8, KeptLater
  <2> QED BY <2>4, <2>5, <2>6 DEF Reading
<1>5. CASE ~C /\ D
  <2>1. PICK e \in 5..s.length : e = end
    <3>1. ends \in SUBSET Nat
      BY <1>1
    <3>2. PICK E \in SUBSET Nat : E = ends
      BY <3>1
    <3>3. Min(E) \in E /\ \A other \in E : Min(E) <= other
      BY <1>5, <3>2, Least
    <3>4. end \in ends
      BY <3>2, <3>3
    <3> QED BY <3>4
  <2> HIDE DEF end
  <2>2. e \in Nat
    BY <1>1
  <2>3. PICK left \in Seq(LcmByte), read \in Int :
           /\ left = From(s.buf, e) /\ read = s.read - e /\ read <= n
           /\ \A x \in Nat \ {0} : x <= read => x \in 1..Len(left) /\ left[x] = bytes[(n - read) + x]
           /\ Taken(s.read, n) \in 0..Len(bytes) /\ Taken(read, n) \in Taken(s.read, n)..Len(bytes)
    <3>1. PICK k \in Nat : k = e
      BY <2>2
    <3>2. /\ From(s.buf, k) \in Seq(LcmByte) /\ s.read - k \in Int /\ s.read - k <= n
          /\ \A x \in Nat \ {0} : x <= s.read - k =>
                 x \in 1..Len(From(s.buf, k)) /\ From(s.buf, k)[x] = bytes[(n - (s.read - k)) + x]
          /\ Taken(s.read, n) \in 0..Len(bytes) /\ Taken(s.read - k, n) \in Taken(s.read, n)..Len(bytes)
      BY ReadOn
    <3> QED BY <3>1, <3>2
  <2>4. PICK nack \in LcmFrame : nack = Frame("NACK")
    <3>1. "NACK" \in LcmCmd
      BY DEF LcmCmd
    <3> QED BY <3>1, FrameTyped
  <2>5. PICK g \in LcmFsm : g = FsmHandleDatacmd(s.f)
    BY <1>1, DataTyped
  <2>6. PICK length \in Nat : length = IF end < s.length THEN s.length - end + 1 ELSE 0
    BY <1>1, <2>1
  <2>7. PICK t \in ReadState : t = FrameHandled(s) /\ t.f = g /\ t.buf = left /\ t.read = read /\ t.astray = s.astray
    <3>1. FrameHandled(s) = [f |-> g, buf |-> left, length |-> length, read |-> read, astray |-> s.astray]
      BY <1>2, <1>3, <1>5, <2>1, <2>3, <2>5, <2>6
    <3>2. [f |-> g, buf |-> left, length |-> length, read |-> read, astray |-> s.astray] \in ReadState
      BY <1>1 DEF ReadState
    <3> QED BY <3>1, <3>2
  <2>8. ASSUME ~astray, ~s.astray PROVE Kept(g, From(bytes, Taken(read, n)))
    <3>1. PICK p \in 0..Len(bytes) : p = Taken(s.read, n) /\ Taken(read, n) \in p..Len(bytes)
      BY <2>3
    <3>2. Kept(s.f, From(bytes, p)) /\ From(bytes, p) \in Seq(LcmByte)
      BY <2>8, <3>1, Rest DEF Reading
    <3>3. Kept(g, From(bytes, p))
      BY <1>1, <2>5, <3>2, DataKeeps
    <3> QED BY <3>1, <3>3, KeptLater
  <2> QED BY <2>3, <2>7, <2>8 DEF Reading
<1>6. CASE ~C /\ ~D
  <2>1. FrameHandled(s) = [s EXCEPT !.length = 0]
    BY <1>2, <1>6
  <2>2. PICK t \in ReadState : /\ t = [s EXCEPT !.length = 0]
                               /\ t.f = s.f /\ t.buf = s.buf /\ t.read = s.read /\ t.astray = s.astray
    <3>1. [s EXCEPT !.length = 0] \in ReadState
      BY <1>1 DEF ReadState
    <3>2. /\ [s EXCEPT !.length = 0].f = s.f /\ [s EXCEPT !.length = 0].buf = s.buf
          /\ [s EXCEPT !.length = 0].read = s.read /\ [s EXCEPT !.length = 0].astray = s.astray
      BY DEF ReadState
    <3> QED BY <3>1, <3>2
  <2> QED BY <2>1, <2>2 DEF Reading
<1> QED BY <1>4, <1>5, <1>6

\* So does a whole read: the rest of the bytes is still to come.
LEMMA BytesKeep ==
    ASSUME LcmType, NEW bytes \in Seq(LcmByte), NEW n \in 1..Len(bytes), NEW stale \in Seq(LcmByte),
           NEW f \in LcmFsm, ~astray => Kept(f, bytes)
    PROVE  LET s == FsmHandleBytes(f, SubSeq(bytes, 1, n) \o stale, n) IN
           s.f \in LcmFsm /\ s.astray \in BOOLEAN /\ (~astray /\ ~s.astray => Kept(s.f, From(bytes, n)))
<1> DEFINE K == n \div 3
           buf == SubSeq(bytes, 1, n) \o stale
           S == {s \in ReadState : Reading(s, bytes, n)}
           first == [f |-> f, buf |-> buf, length |-> n, read |-> n, astray |-> FALSE]
           handled == CHOOSE h : h = [k \in 0..K |-> IF k = 0 THEN first ELSE FrameHandled(h[k - 1])]
           next == [k \in 1..K |-> [s \in S |-> FrameHandled(s)]]
<1>1. n \in Nat /\ Len(bytes) \in Nat
  OBVIOUS
<1>2. buf \in Seq(LcmByte) /\ Len(buf) >= n /\ Len(buf) \in Nat /\ \A x \in 1..n : buf[x] = bytes[x]
  <2>1. PICK head \in Seq(LcmByte) : head = SubSeq(bytes, 1, n) /\ Len(head) = n /\ \A x \in 1..n : head[x] = bytes[x]
    <3>1. SubSeq(bytes, 1, n) \in Seq(LcmByte) /\ Len(SubSeq(bytes, 1, n)) = n /\ \A x \in 1..n : SubSeq(bytes, 1, n)[x] = bytes[x]
      OBVIOUS
    <3> QED BY <3>1
  <2>2. /\ Len(head \o stale) = Len(head) + Len(stale) /\ head \o stale \in Seq(LcmByte) /\ Len(stale) \in Nat
        /\ \A x \in 1..Len(head) : (head \o stale)[x] = head[x]
    BY ConcatProperties
  <2> QED BY <1>1, <2>1, <2>2
<1>3. first \in S
  <2> HIDE DEF buf
  <2>1. From(bytes, 0) = bytes /\ Taken(n, n) = 0
    BY <1>1 DEF From, Taken
  <2>2. \A x \in Nat \ {0} : x <= n => x \in 1..Len(buf) /\ x \in 1..n /\ (n - n) + x = x
    BY <1>1, <1>2
  <2>3. Reading(first, bytes, n)
    BY <1>1, <1>2, <2>1, <2>2 DEF Reading
  <2>4. first \in ReadState
    BY <1>1, <1>2 DEF ReadState
  <2> HIDE DEF first
  <2> QED BY <2>3, <2>4
<1>4. \A s \in S : FrameHandled(s) \in S
  BY FrameKeeps
<1>5. FsmHandleBytes(f, buf, n) = handled[K]
  BY DEF FsmHandleBytes
<1>0. K \in Nat
  OBVIOUS
<1> HIDE DEF S, first, K
<1>6. next \in Steps(K, S)
  BY <1>4 DEF Steps
<1>7. PICK g : Iterates(g, K, S, first, next)
  <2> HIDE DEF next
  <2> QED BY <1>0, <1>3, <1>6, Iteration
<1>8. g \in [0..K -> S] /\ g[0] = first /\ \A k \in 1..K : g[k] = next[k][g[k - 1]]
  BY <1>7 DEF Iterates
<1>9. \A k \in 1..K : g[k] = FrameHandled(g[k - 1])
  <2> SUFFICES ASSUME NEW k \in 1..K PROVE g[k] = FrameHandled(g[k - 1])
    OBVIOUS
  <2>1. k - 1 \in 0..K
    BY <1>0
  <2>2. g[k - 1] \in S
    BY <1>8, <2>1
  <2> QED BY <1>8, <2>2
<1>10. handled = [k \in 0..K |-> IF k = 0 THEN first ELSE FrameHandled(handled[k - 1])]
  <2>1. \A k \in 0..K : k = 0 \/ k \in 1..K
    BY <1>0
  <2>2. \A k \in 0..K : g[k] = IF k = 0 THEN first ELSE FrameHandled(g[k - 1])
    BY <1>8, <1>9, <2>1
  <2>3. g = [k \in 0..K |-> IF k = 0 THEN first ELSE FrameHandled(g[k - 1])]
    BY <1>8, <2>2
  <2> QED BY <2>3
<1> HIDE DEF handled
<1>11. handled[0] = first /\ \A k \in 1..K : handled[k] = FrameHandled(handled[k - 1])
  <2>1. 0 \in 0..K /\ \A k \in 1..K : k \in 0..K /\ k # 0
    BY <1>0
  <2> QED BY <1>10, <2>1
<1>12. handled[K] \in S
  <2>1. \A k \in 1..K : handled[k - 1] \in S => handled[k] \in S
    BY <1>4, <1>11
  <2> QED BY <1>0, <1>3, <1>11, <2>1, Stays
<1>13. PICK s \in ReadState : s = handled[K] /\ Reading(s, bytes, n)
  BY <1>12 DEF S
<1>14. s.f \in LcmFsm /\ s.astray \in BOOLEAN /\ s.read \in Int /\ s.read <= n
  BY <1>13 DEF ReadState, Reading
<1>15. PICK q \in 0..Len(bytes) : q = Taken(s.read, n) /\ n \in q..Len(bytes)
  BY <1>1, <1>14 DEF Taken
<1>16. ~astray /\ ~s.astray => Kept(s.f, From(bytes, n))
  BY <1>13, <1>15, KeptLater DEF Reading
<1> QED BY <1>5, <1>13, <1>14, <1>16

-----------------------------------------------------------------------------
(* The driver's actions. *)

LEMMA LcmInitial == LcmInit => LcmInv
<1> SUFFICES ASSUME LcmInit PROVE LcmInv
  OBVIOUS
<1>1. toHost = <<>> /\ toLCM = <<>> /\ Len(toHost) = 0 /\ Len(toLCM) = 0 /\ mode = "boot" /\ fsm.state = "IDLE"
  BY DEF LcmInit
<1>2. LcmType
  <2>1. Blanks \in [1..2 -> LcmLine]
    BY DEF Blanks, LcmLine
  <2>2. fsm \in [state : LcmState, reset_rx : BOOLEAN]
    BY DEF LcmInit, LcmState
  <2>3. toHost \in Seq(LcmByte) /\ toLCM \in Seq(LcmFrame)
    BY <1>1
  <2> QED BY <2>1, <2>2, <2>3 DEF LcmInit, LcmType
<1>3. AskedOnce(toHost, toLCM, mode)
  BY <1>1 DEF AskedOnce, AskedLast, ConfirmedLast
<1> QED BY <1>1, <1>2, <1>3 DEF LcmInv, Mended

LEMMA ConnectKeeps ==
    ASSUME LcmInv, InitialConnect PROVE LcmInv'
<1>1. PICK reset \in LcmFrame : reset = Frame("RESET") /\ reset.cmd = "RESET"
  <2>1. "RESET" \in LcmCmd /\ LcmType
    BY DEF LcmCmd, LcmInv
  <2> QED BY <2>1, FrameTyped
<1>2. /\ fsm' = [fsm EXCEPT !.state = "IDLE"] /\ toLCM' = Append(toLCM, reset)
      /\ shadow' = shadow /\ lcd' = lcd /\ toHost' = toHost /\ mode' = mode /\ astray' = astray
  BY <1>1 DEF InitialConnect
<1>3. fsm' \in [state : LcmState, reset_rx : BOOLEAN] /\ fsm'.state = "IDLE"
  BY <1>2 DEF LcmInv, LcmType, LcmState
<1>4. toLCM' = toLCM \o <<reset>> /\ toLCM' \in Seq(LcmFrame) /\ <<reset>> \in Seq(LcmFrame)
  BY <1>2 DEF LcmInv, LcmType
<1>5. LcmType'
  BY <1>2, <1>3, <1>4 DEF LcmInv, LcmType
<1>6. \A x \in 1..Len(<<reset>>) : <<reset>>[x].cmd \notin {"ACK", "CONNECT"}
  BY <1>1
<1>7. ~astray => AskedOnce(toHost, toLCM \o <<reset>>, mode)
  BY <1>4, <1>6, AskedOfMore DEF LcmInv, LcmType, Mended
<1> QED BY <1>2, <1>3, <1>4, <1>5, <1>7 DEF LcmInv, Mended

LEMMA ReceiveKeeps ==
    ASSUME LcmInv, Receive PROVE LcmInv'
<1>1. PICK n \in Chunks : \E stale \in Stale(SubSeq(toHost, 1, n)) :
        LET s == FsmHandleBytes([state |-> fsm.state, reset_rx |-> fsm.reset_rx, sent |-> <<>>],
                                SubSeq(toHost, 1, n) \o stale, n)
        IN  /\ toHost' = SubSeq(toHost, n + 1, Len(toHost))
            /\ fsm' = [state |-> s.f.state, reset_rx |-> s.f.reset_rx]
            /\ toLCM' = toLCM \o s.f.sent
            /\ astray' = (astray \/ s.astray)
  BY DEF Receive
<1>1a. PICK stale \in Stale(SubSeq(toHost, 1, n)) :
        LET s == FsmHandleBytes([state |-> fsm.state, reset_rx |-> fsm.reset_rx, sent |-> <<>>],
                                SubSeq(toHost, 1, n) \o stale, n)
        IN  /\ toHost' = SubSeq(toHost, n + 1, Len(toHost))
            /\ fsm' = [state |-> s.f.state, reset_rx |-> s.f.reset_rx]
            /\ toLCM' = toLCM \o s.f.sent
            /\ astray' = (astray \/ s.astray)
  BY <1>1
<1>2. /\ n \in 1..Len(toHost) /\ LcmType /\ toHost \in Seq(LcmByte) /\ toLCM \in Seq(LcmFrame) /\ astray \in BOOLEAN
      /\ stale \in Seq(LcmByte)
  <2>1. n \in 1..Len(toHost) /\ LcmType
    BY DEF Chunks, LcmInv
  <2>2. toHost \in Seq(LcmByte) /\ toLCM \in Seq(LcmFrame) /\ astray \in BOOLEAN
    BY <2>1 DEF LcmType
  <2>3. stale \in Seq(LcmByte)
    <3> DEFINE bytes == SubSeq(toHost, 1, n)
               wanted == {x \in 1..Len(bytes) : bytes[x] = "WRITE"}
    <3>1. Cardinality(wanted) \in Nat
      <4>1. bytes \in Seq(LcmByte) /\ Len(bytes) \in Nat
        BY <2>1, <2>2
      <4>2. IsFiniteSet(1..Len(bytes))
        BY <4>1, FS_Interval
      <4>3. IsFiniteSet(wanted)
        BY <4>2, FS_Subset
      <4> QED BY <4>3, FS_CardinalityType
    <3>2. stale \in [1..Cardinality(wanted) -> Byte]
      BY <1>1a DEF Stale
    <3>3. PICK K \in Nat : K = Cardinality(wanted)
      BY <3>1
    <3>4. stale \in [1..K -> Byte]
      BY <3>2, <3>3
    <3>5. \A x \in Byte : x \in LcmByte
      BY DEF Byte, LcmByte, LcmCmd
    <3>6. stale \in [1..K -> LcmByte]
      BY <3>4, <3>5
    <3> QED BY <3>6
  <2> QED BY <2>1, <2>2, <2>3
<1>3. PICK f \in LcmFsm : /\ f = [state |-> fsm.state, reset_rx |-> fsm.reset_rx, sent |-> <<>>]
                          /\ f.state = fsm.state /\ f.sent = <<>>
  <2>1. fsm.state \in LcmState /\ fsm.reset_rx \in BOOLEAN /\ <<>> \in Seq(LcmFrame)
    BY DEF LcmInv, LcmType
  <2>2. [state |-> fsm.state, reset_rx |-> fsm.reset_rx, sent |-> <<>>] \in LcmFsm
    BY <2>1 DEF LcmFsm
  <2> QED BY <2>2
<1>4. ~astray => Kept(f, toHost)
  <2>1. toLCM \o f.sent = toLCM
    BY <1>2, <1>3, ConcatEmptySeq
  <2> QED BY <1>3, <2>1 DEF Kept, LcmInv, Mended
<1>5. PICK s : /\ s = FsmHandleBytes(f, SubSeq(toHost, 1, n) \o stale, n)
               /\ s.f \in LcmFsm /\ s.astray \in BOOLEAN
               /\ ~astray /\ ~s.astray => Kept(s.f, From(toHost, n))
  BY <1>2, <1>4, BytesKeep
<1>6. PICK g \in LcmFsm : g = s.f
  BY <1>5
<1>7. /\ toHost' = From(toHost, n)
      /\ fsm' = [state |-> g.state, reset_rx |-> g.reset_rx]
      /\ toLCM' = toLCM \o g.sent
      /\ astray' = (astray \/ s.astray)
  BY <1>1a, <1>3, <1>5, <1>6 DEF From
<1>8. shadow' = shadow /\ lcd' = lcd /\ mode' = mode
  BY DEF Receive
<1>9. From(toHost, n) \in Seq(LcmByte) /\ toLCM \o g.sent \in Seq(LcmFrame)
  <2>1. n \in 0..Len(toHost) /\ g.sent \in Seq(LcmFrame)
    BY <1>2 DEF LcmFsm
  <2> QED BY <1>2, <2>1, Rest, ConcatProperties
<1>10. fsm' \in [state : LcmState, reset_rx : BOOLEAN] /\ fsm'.state = g.state
  BY <1>7 DEF LcmFsm
<1>11. LcmType'
  <2>1. astray' \in BOOLEAN
    BY <1>2, <1>5, <1>7
  <2> QED BY <1>2, <1>7, <1>8, <1>9, <1>10, <2>1 DEF LcmType
<1>12. ~astray' => Kept(g, From(toHost, n))
  BY <1>5, <1>6, <1>7
<1>13. ~astray' => AskedOnce(toHost', toLCM', mode')
  BY <1>7, <1>8, <1>12 DEF Kept
<1>14. ~astray' => (fsm'.state = "CONNECTED" => Promised(toLCM', mode', shadow', lcd'))
  BY <1>7, <1>8, <1>10, <1>12 DEF Kept
<1> QED BY <1>11, <1>13, <1>14 DEF LcmInv, Mended

\* Lines that are sent as they are written into the shadow.
LEMMA PromisedOfLines ==
    ASSUME NEW frames \in Seq(LcmFrame), NEW more \in Seq(LcmFrame), NEW m, NEW old, NEW new, NEW shown,
           Promised(frames, m, old, shown), LastPrints(more, new),
           \A x \in 1..Len(more) : more[x].cmd \notin {"ACK", "CONNECT"},
           \A r \in 1..2 : new[r] = old[r] \/ \E x \in 1..Len(more) : more[x].cmd = PrintOf(r)
    PROVE  Promised(frames \o more, m, new, shown)
<1> DEFINE all == frames \o more
           L == Len(frames)
<1>1. /\ Len(all) = L + Len(more) /\ L \in Nat /\ Len(more) \in Nat
      /\ \A x \in 1..L : all[x] = frames[x]
      /\ \A x \in 1..Len(more) : all[L + x] = more[x]
      /\ \A x \in 1..Len(all) : x \in 1..L \/ (x - L \in 1..Len(more) /\ all[x] = more[x - L])
  BY Joined
<1>0. \A x \in 0..L : /\ PrintsBehind(frames, x) => PrintsBehind(all, x)
                      /\ ConfirmBehind(frames, x) => ConfirmBehind(all, x)
  BY BehindMore
<1> HIDE DEF all, L
<1>2. ASSUME NEW x \in 1..Len(all), all[x].cmd \in {"ACK", "CONNECT"} PROVE x \in 1..L /\ x \in 0..L /\ all[x] = frames[x]
  <2>1. x \notin 1..L => x - L \in 1..Len(more) /\ all[x] = more[x - L]
    BY <1>1
  <2>2. x \in 1..L
    BY <1>2, <2>1
  <2> QED BY <1>1, <2>2
<1>3. ASSUME NEW r \in 1..2, NEW k \in 1..Len(more), more[k].cmd = PrintOf(r)
      PROVE  L + k \in 1..Len(all) /\ all[L + k].cmd = PrintOf(r)
  BY <1>1, <1>3
<1>4. LastPrints(all, new)
  <2> SUFFICES ASSUME NEW x \in 1..Len(all), NEW r \in 1..2, all[x].cmd = PrintOf(r),
                      \A y \in x + 1..Len(all) : all[y].cmd # PrintOf(r)
               PROVE  all[x].line = new[r]
    BY DEF LastPrints
  <2>1. CASE x \in 1..L
    <3>1. \A k \in 1..Len(more) : more[k].cmd # PrintOf(r)
      <4> SUFFICES ASSUME NEW k \in 1..Len(more), more[k].cmd = PrintOf(r) PROVE FALSE
        OBVIOUS
      <4>1. L + k \in x + 1..Len(all)
        BY <1>1, <2>1
      <4> QED BY <1>3, <4>1
    <3>2. new[r] = old[r]
      BY <3>1
    <3>3. \A y \in x + 1..L : frames[y].cmd # PrintOf(r)
      BY <1>1, <2>1
    <3>4. frames[x].cmd = PrintOf(r) /\ all[x] = frames[x]
      BY <1>1, <2>1
    <3>5. frames[x].line = old[r]
      BY <2>1, <3>3, <3>4 DEF Promised, LastPrints, L
    <3> QED BY <3>2, <3>4, <3>5
  <2>2. CASE x \notin 1..L
    <3>1. x - L \in 1..Len(more) /\ all[x] = more[x - L]
      BY <1>1, <2>2
    <3>2. \A y \in x - L + 1..Len(more) : more[y].cmd # PrintOf(r)
      <4> SUFFICES ASSUME NEW y \in x - L + 1..Len(more) PROVE more[y].cmd # PrintOf(r)
        OBVIOUS
      <4>1. y \in 1..Len(more) /\ L + y \in x + 1..Len(all)
        BY <1>1, <3>1
      <4> QED BY <1>1, <4>1
    <3> QED BY <3>1, <3>2 DEF LastPrints
  <2> QED BY <2>1, <2>2
<1>5. \A x \in 1..Len(all) : all[x].cmd = "CONNECT" => ConfirmBehind(all, x)
  BY <1>0, <1>2 DEF Promised, L
<1>6. m = "acked" => ConfirmBehind(all, 0)
  <2>1. 0 \in 0..L
    BY <1>1
  <2> QED BY <1>0, <2>1 DEF Promised
<1>7. \A x \in 1..Len(all) : all[x].cmd = "ACK" => PrintsBehind(all, x)
  BY <1>0, <1>2 DEF Promised, L
<1>8. ASSUME m = "connected", NEW r \in 1..2, \A x \in 1..Len(all) : all[x].cmd # PrintOf(r) PROVE shown[r] = new[r]
  <2>1. \A x \in 1..L : frames[x].cmd # PrintOf(r)
    BY <1>1, <1>8
  <2>2. new[r] = old[r]
    BY <1>3, <1>8
  <2> QED BY <1>8, <2>1, <2>2 DEF Promised, L
<1> QED BY <1>4, <1>5, <1>6, <1>7, <1>8 DEF Promised, all

\* What a connected driver sends while it changes the shadow.
LEMMA SendKeeps ==
    ASSUME LcmInv, NEW more \in Seq(LcmFrame), FsmSend(more), shadow' \in [1..2 -> LcmLine], LastPrints(more, shadow'),
           \A x \in 1..Len(more) : more[x].cmd \notin {"ACK", "CONNECT"},
           \A r \in 1..2 : shadow'[r] = shadow[r] \/ \E x \in 1..Len(more) : more[x].cmd = PrintOf(r),
           UNCHANGED <<fsm, toHost, mode, lcd, astray>>
    PROVE  LcmInv'
<1>1. toHost \in Seq(LcmByte) /\ toLCM \in Seq(LcmFrame) /\ (~astray => AskedOnce(toHost, toLCM, mode))
  BY DEF LcmInv, LcmType, Mended
<1>2. ~astray => AskedOnce(toHost, toLCM \o more, mode)
  BY <1>1, AskedOfMore
<1>3. toLCM' \in Seq(LcmFrame) /\ (~astray => AskedOnce(toHost', toLCM', mode'))
  <2>1. toLCM \o more \in Seq(LcmFrame)
    BY <1>1, ConcatProperties
  <2> QED BY <1>1, <1>2, <2>1 DEF FsmSend
<1>4. LcmType'
  BY <1>1, <1>3 DEF LcmInv, LcmType
<1>5. ~astray => (fsm'.state = "CONNECTED" => Promised(toLCM', mode', shadow', lcd'))
  <2> SUFFICES ASSUME ~astray, fsm.state = "CONNECTED" PROVE Promised(toLCM \o more, mode, shadow', lcd)
    BY DEF FsmSend
  <2>1. Promised(toLCM, mode, shadow, lcd)
    BY DEF LcmInv, Mended
  <2> QED BY <1>1, <2>1, PromisedOfLines
<1> QED BY <1>3, <1>4, <1>5 DEF LcmInv, Mended

LEMMA LcmWriteKeeps ==
    ASSUME LcmInv, NEW row \in 1..2, NEW line \in Lines, Write(row, line) PROVE LcmInv'
<1> DEFINE frame == [PrintLine(row) EXCEPT !.line = line]
<1>1. PICK p \in LcmFrame : p = frame /\ p.cmd = PrintOf(row) /\ p.line = line
  <2>1. frame = [cmd |-> PrintOf(row), line |-> line]
    BY DEF PrintLine, PrintOf
  <2>2. PrintOf(row) \in LcmCmd /\ line \in LcmLine
    BY DEF PrintOf, LcmCmd, LcmLine
  <2> HIDE DEF frame
  <2> QED BY <2>1, <2>2 DEF LcmFrame
<1>2. shadow \in [1..2 -> LcmLine] /\ line \in LcmLine /\ shadow' = [shadow EXCEPT ![row] = line]
  BY DEF LcmInv, LcmType, Write, LcmLine
<1>3. shadow' \in [1..2 -> LcmLine] /\ shadow'[row] = line /\ \A r \in 1..2 : r = row \/ shadow'[r] = shadow[r]
  BY <1>2
<1>4. FsmSend(<<p>>) /\ <<p>> \in Seq(LcmFrame)
  BY <1>1 DEF Write
<1> HIDE DEF frame
<1>5. Len(<<p>>) = 1 /\ <<p>>[1] = p /\ \A x \in 1..Len(<<p>>) : x = 1 /\ <<p>>[x] = p
  OBVIOUS
<1>6. \A r \in 1..2 : PrintOf(r) = PrintOf(row) => r = row
  BY DEF PrintOf
<1>7. LastPrints(<<p>>, shadow')
  <2> SUFFICES ASSUME NEW x \in 1..Len(<<p>>), NEW r \in 1..2, <<p>>[x].cmd = PrintOf(r) PROVE <<p>>[x].line = shadow'[r]
    BY DEF LastPrints
  <2>1. <<p>>[x] = p
    BY <1>5
  <2>2. r = row
    BY <1>1, <1>6, <2>1
  <2> QED BY <1>1, <1>3, <2>1, <2>2
<1>8. \A x \in 1..Len(<<p>>) : <<p>>[x].cmd \notin {"ACK", "CONNECT"}
  <2>1. p.cmd \notin {"ACK", "CONNECT"}
    BY <1>1 DEF PrintOf
  <2> QED BY <1>5, <2>1
<1>9. 1 \in 1..Len(<<p>>) /\ <<p>>[1].cmd = PrintOf(row)
  BY <1>1, <1>5
<1>10. UNCHANGED <<fsm, toHost, mode, lcd, astray>>
  BY DEF Write
<1> QED BY <1>3, <1>4, <1>7, <1>8, <1>9, <1>10, SendKeeps

LEMMA LcmQuitKeeps ==
    ASSUME LcmInv, Quit PROVE LcmInv'
<1>1. PICK p1 \in LcmFrame, p2 \in LcmFrame, bye \in LcmFrame :
        /\ p1 = [cmd |-> "PRINT1", line |-> "blank"] /\ p2 = [cmd |-> "PRINT2", line |-> "blank"] /\ bye = Frame("DISCONNECT")
        /\ p1.cmd = "PRINT1" /\ p2.cmd = "PRINT2" /\ bye.cmd = "DISCONNECT" /\ p1.line = "blank" /\ p2.line = "blank"
  <2>1. [cmd |-> "PRINT1", line |-> "blank"] \in LcmFrame /\ [cmd |-> "PRINT2", line |-> "blank"] \in LcmFrame
    BY DEF LcmFrame, LcmCmd, LcmLine
  <2>2. Frame("DISCONNECT") \in LcmFrame /\ Frame("DISCONNECT").cmd = "DISCONNECT"
    BY DEF Frame, LcmFrame, LcmCmd, LcmLine
  <2> QED BY <2>1, <2>2
<1>2. PICK more \in Seq(LcmFrame) : more = <<p1, p2, bye>> /\ Len(more) = 3 /\ more[1] = p1 /\ more[2] = p2 /\ more[3] = bye
  <2>1. <<p1, p2, bye>> \in Seq(LcmFrame)
    OBVIOUS
  <2> QED BY <2>1
<1>3. FsmSend(more) /\ shadow' = Blanks /\ UNCHANGED <<fsm, toHost, mode, lcd, astray>>
  BY <1>1, <1>2 DEF Quit
<1>4. shadow' \in [1..2 -> LcmLine] /\ \A r \in 1..2 : shadow'[r] = "blank"
  BY <1>3 DEF Blanks, LcmLine
<1>5. \A r \in 1..2 : (r = 1 /\ PrintOf(r) = "PRINT1") \/ (r = 2 /\ PrintOf(r) = "PRINT2")
  BY DEF PrintOf
<1>6. \A x \in 1..Len(more) : more[x] = p1 \/ more[x] = p2 \/ more[x] = bye
  BY <1>2
<1>7. LastPrints(more, shadow')
  BY <1>1, <1>4, <1>5, <1>6 DEF LastPrints
<1>8. \A x \in 1..Len(more) : more[x].cmd \notin {"ACK", "CONNECT"}
  BY <1>1, <1>6
<1>9. \A r \in 1..2 : \E x \in 1..Len(more) : more[x].cmd = PrintOf(r)
  <2>1. 1 \in 1..Len(more) /\ 2 \in 1..Len(more)
    BY <1>2
  <2> QED BY <1>1, <1>2, <1>5, <2>1
<1> QED BY <1>3, <1>4, <1>7, <1>8, <1>9, SendKeeps

-----------------------------------------------------------------------------
(* The display's actions. *)

LEMMA Behind1 ==
    ASSUME NEW S, NEW s \in Seq(S), s # <<>>
    PROVE  /\ Tail(s) \in Seq(S) /\ Len(s) \in Nat /\ Len(s) >= 1 /\ Len(Tail(s)) = Len(s) - 1 /\ Head(s) = s[1]
           /\ \A x \in 1..Len(s) - 1 : Tail(s)[x] = s[x + 1]
  OBVIOUS

\* What is asked does not depend on the frames that were taken, or on a mode without an answer.
LEMMA AskedOfTail ==
    ASSUME NEW bytes \in Seq(LcmByte), NEW frames \in Seq(LcmFrame), frames # <<>>, NEW m,
           AskedOnce(bytes, frames, m)
    PROVE  AskedOnce(bytes, Tail(frames), m)
<1> DEFINE tail == Tail(frames)
<1>1. Len(frames) \in Nat /\ Len(tail) = Len(frames) - 1 /\ \A x \in 1..Len(frames) - 1 : tail[x] = frames[x + 1]
  BY Behind1
<1> HIDE DEF tail
<1>2. \A x \in 1..Len(tail) : x + 1 \in 1..Len(frames) /\ tail[x] = frames[x + 1]
  BY <1>1
<1>3. \A x \in 1..Len(tail) : \A y \in x + 1..Len(tail) : y + 1 \in (x + 1) + 1..Len(frames) /\ tail[y] = frames[y + 1]
  BY <1>1
<1>5. m = "asked" => AskedLast(bytes, tail)
  <2> SUFFICES ASSUME m = "asked" PROVE AskedLast(bytes, tail)
    OBVIOUS
  <2>1. AskedLast(bytes, frames)
    BY DEF AskedOnce
  <2>2. ASSUME NEW x \in 1..Len(tail), tail[x].cmd = "ACK"
        PROVE  /\ \A y \in x + 1..Len(tail) : tail[y].cmd # "CONNECT"
               /\ \A y \in 1..Len(bytes) : bytes[y] \notin {"RESET", "CONNECT"}
    <3>1. x + 1 \in 1..Len(frames) /\ frames[x + 1].cmd = "ACK"
      BY <1>2, <2>2
    <3>2. /\ \A y \in (x + 1) + 1..Len(frames) : frames[y].cmd # "CONNECT"
          /\ \A y \in 1..Len(bytes) : bytes[y] \notin {"RESET", "CONNECT"}
      BY <2>1, <3>1 DEF AskedLast
    <3> QED BY <1>3, <3>2
  <2> QED BY <2>1, <2>2 DEF AskedLast
<1>6. ConfirmedLast(bytes, tail, m)
  BY <1>2 DEF AskedOnce, ConfirmedLast
<1> QED BY <1>5, <1>6 DEF AskedOnce, tail

LEMMA AskedOfMode ==
    ASSUME NEW bytes \in Seq(LcmByte), NEW frames, NEW m, NEW m2, AskedOnce(bytes, frames, m),
           m2 # "asked", m2 = "acked" => \A y \in 1..Len(bytes) : bytes[y] # "CONFIRM"
    PROVE  AskedOnce(bytes, frames, m2)
<1>2. ConfirmedLast(bytes, frames, m2)
  BY DEF AskedOnce, ConfirmedLast
<1> QED BY <1>2 DEF AskedOnce

\* A frame that the display takes keeps the rest of what is promised.
LEMMA PromisedOfTail ==
    ASSUME NEW frames \in Seq(LcmFrame), frames # <<>>, NEW m, NEW m2, NEW wanted, NEW shown, NEW shown2,
           Promised(frames, m, wanted, shown),
           m2 = "acked" => (m = "acked" /\ Head(frames).cmd # "CONFIRM") \/ Head(frames).cmd = "CONNECT",
           m2 = "connected" => m = "connected" \/ Head(frames).cmd = "ACK" \/ (m = "acked" /\ Head(frames).cmd = "CONFIRM"),
           m2 = "connected" /\ m = "connected" =>
              \A r \in 1..2 : shown2[r] = IF Head(frames).cmd = PrintOf(r) THEN Head(frames).line ELSE shown[r]
    PROVE  Promised(Tail(frames), m2, wanted, shown2)
<1> DEFINE tail == Tail(frames)
           head == Head(frames)
<1>1. /\ Len(frames) \in Nat /\ Len(frames) >= 1 /\ Len(tail) = Len(frames) - 1 /\ head = frames[1]
      /\ \A x \in 1..Len(frames) - 1 : tail[x] = frames[x + 1]
  BY Behind1
<1> HIDE DEF tail, head
<1>2. \A x \in 1..Len(tail) : x + 1 \in 1..Len(frames) /\ tail[x] = frames[x + 1]
  BY <1>1
<1>3. \A x \in 0..Len(tail) : \A y \in (x + 1) + 1..Len(frames) : y - 1 \in x + 1..Len(tail) /\ tail[y - 1] = frames[y]
  BY <1>1
<1>4. ASSUME NEW x \in 0..Len(tail), PrintsBehind(frames, x + 1) PROVE PrintsBehind(tail, x)
  <2> SUFFICES ASSUME NEW r \in 1..2 PROVE \E y \in x + 1..Len(tail) : tail[y].cmd = PrintOf(r)
    BY DEF PrintsBehind
  <2>1. PICK y \in (x + 1) + 1..Len(frames) : frames[y].cmd = PrintOf(r)
    BY <1>4 DEF PrintsBehind
  <2> QED BY <1>3, <2>1
<1>5. ASSUME NEW x \in 0..Len(tail), ConfirmBehind(frames, x + 1) PROVE ConfirmBehind(tail, x)
  <2>1. PICK y \in (x + 1) + 1..Len(frames) : frames[y].cmd = "CONFIRM" /\ PrintsBehind(frames, y)
    BY <1>5 DEF ConfirmBehind
  <2>2. PICK k \in x + 1..Len(tail) : y = k + 1 /\ k \in 0..Len(tail) /\ tail[k] = frames[y]
    <3>1. y - 1 \in x + 1..Len(tail) /\ y = (y - 1) + 1 /\ y - 1 \in 0..Len(tail) /\ tail[y - 1] = frames[y]
      BY <1>1, <1>3
    <3> QED BY <3>1
  <2>3. PrintsBehind(tail, k)
    BY <1>4, <2>1, <2>2
  <2> QED BY <2>1, <2>2, <2>3 DEF ConfirmBehind
<1>6. LastPrints(tail, wanted)
  <2> SUFFICES ASSUME NEW x \in 1..Len(tail), NEW r \in 1..2, tail[x].cmd = PrintOf(r),
                      \A y \in x + 1..Len(tail) : tail[y].cmd # PrintOf(r)
               PROVE  tail[x].line = wanted[r]
    BY DEF LastPrints
  <2>1. x \in 0..Len(tail) /\ x + 1 \in 1..Len(frames) /\ tail[x] = frames[x + 1]
    BY <1>2
  <2>2. \A y \in (x + 1) + 1..Len(frames) : frames[y].cmd # PrintOf(r)
    BY <1>3, <2>1
  <2> QED BY <2>1, <2>2 DEF Promised, LastPrints
<1>7. \A x \in 1..Len(tail) : tail[x].cmd = "CONNECT" => ConfirmBehind(tail, x)
  <2> SUFFICES ASSUME NEW x \in 1..Len(tail), tail[x].cmd = "CONNECT" PROVE ConfirmBehind(tail, x)
    OBVIOUS
  <2>1. x \in 0..Len(tail) /\ x + 1 \in 1..Len(frames) /\ frames[x + 1].cmd = "CONNECT"
    BY <1>2
  <2> QED BY <1>5, <2>1 DEF Promised
<1>8. 0 \in 0..Len(tail) /\ 0 + 1 = 1 /\ 1 \in 1..Len(frames)
  BY <1>1
<1>9. m = "acked" => \E y \in 1..Len(frames) : frames[y].cmd = "CONFIRM" /\ PrintsBehind(frames, y)
  BY DEF Promised, ConfirmBehind
<1>10. m2 = "acked" => ConfirmBehind(tail, 0)
  <2>1. CASE m = "acked" /\ head.cmd # "CONFIRM"
    <3>1. PICK y \in 1..Len(frames) : frames[y].cmd = "CONFIRM" /\ PrintsBehind(frames, y)
      BY <1>9, <2>1
    <3>2. y # 1
      BY <1>1, <2>1, <3>1
    <3>3. y \in (0 + 1) + 1..Len(frames)
      BY <1>1, <3>2
    <3>4. ConfirmBehind(frames, 0 + 1)
      BY <3>1, <3>3 DEF ConfirmBehind
    <3> QED BY <1>5, <1>8, <3>4
  <2>2. CASE head.cmd = "CONNECT"
    <3>1. ConfirmBehind(frames, 0 + 1)
      BY <1>1, <1>8, <2>2 DEF Promised
    <3> QED BY <1>5, <1>8, <3>1
  <2> QED BY <2>1, <2>2 DEF head
<1>11. \A x \in 1..Len(tail) : tail[x].cmd = "ACK" => PrintsBehind(tail, x)
  <2> SUFFICES ASSUME NEW x \in 1..Len(tail), tail[x].cmd = "ACK" PROVE PrintsBehind(tail, x)
    OBVIOUS
  <2>1. x \in 0..Len(tail) /\ x + 1 \in 1..Len(frames) /\ frames[x + 1].cmd = "ACK"
    BY <1>2
  <2> QED BY <1>4, <2>1 DEF Promised
<1>12. ASSUME m2 = "connected", NEW r \in 1..2, \A x \in 1..Len(tail) : tail[x].cmd # PrintOf(r)
       PROVE  shown2[r] = wanted[r]
  <2>1. ~PrintsBehind(tail, 0)
    BY <1>12 DEF PrintsBehind
  <2>2. ~PrintsBehind(frames, 1)
    BY <1>4, <1>8, <2>1
  <2>3. head.cmd # "ACK"
    BY <1>1, <1>8, <2>2 DEF Promised
  <2>4. ~(m = "acked" /\ head.cmd = "CONFIRM")
    <3> SUFFICES ASSUME m = "acked" PROVE FALSE
      OBVIOUS
    <3>1. PICK y \in 1..Len(frames) : frames[y].cmd = "CONFIRM" /\ PrintsBehind(frames, y)
      BY <1>9
    <3>2. \A k \in y + 1..Len(frames) : k \in 1 + 1..Len(frames)
      BY <1>1
    <3>3. PrintsBehind(frames, 1)
      BY <3>1, <3>2 DEF PrintsBehind
    <3> QED BY <2>2, <3>3
  <2>5. m = "connected"
    BY <1>12, <2>3, <2>4 DEF head
  <2>6. shown2[r] = IF head.cmd = PrintOf(r) THEN head.line ELSE shown[r]
    BY <1>12, <2>5 DEF head
  <2>7. \A y \in 1 + 1..Len(frames) : frames[y].cmd # PrintOf(r)
    BY <1>3, <1>8, <1>12
  <2>8. CASE head.cmd = PrintOf(r)
    <3>1. frames[1].line = wanted[r]
      BY <1>1, <1>8, <2>7, <2>8 DEF Promised, LastPrints
    <3> QED BY <1>1, <2>6, <2>8, <3>1
  <2>9. CASE head.cmd # PrintOf(r)
    <3>1. \A y \in 1..Len(frames) : frames[y].cmd # PrintOf(r)
      <4>1. \A y \in 1..Len(frames) : y = 1 \/ y \in 1 + 1..Len(frames)
        BY <1>1
      <4> QED BY <1>1, <2>7, <2>9, <4>1
    <3>2. shown[r] = wanted[r]
      BY <2>5, <3>1 DEF Promised
    <3> QED BY <2>6, <2>9, <3>2
  <2> QED BY <2>8, <2>9
<1> QED BY <1>6, <1>7, <1>10, <1>11, <1>12 DEF Promised, tail

LEMMA CmdFrameTyped ==
    ASSUME NEW cmd \in LcmByte
    PROVE  /\ CmdFrame(cmd) \in Seq(LcmByte) /\ Len(CmdFrame(cmd)) = 3
           /\ \A x \in 1..Len(CmdFrame(cmd)) : CmdFrame(cmd)[x] = IF x = 2 THEN cmd ELSE "MASK"
<1>1. "MASK" \in LcmByte
  BY DEF LcmByte
<1> QED BY <1>1 DEF CmdFrame

LEMMA ObeyKeeps ==
    ASSUME LcmInv, Obey PROVE LcmInv'
<1> DEFINE cmd == Head(toLCM).cmd
<1>1. toHost \in Seq(LcmByte) /\ toLCM \in Seq(LcmFrame) /\ toLCM # <<>>
      /\ lcd \in [1..2 -> LcmLine] /\ shadow \in [1..2 -> LcmLine]
  BY DEF LcmInv, LcmType, Obey
<1>2. Tail(toLCM) \in Seq(LcmFrame) /\ 1 \in 1..Len(toLCM) /\ Head(toLCM) = toLCM[1] /\ Head(toLCM) \in LcmFrame
  <2>1. Tail(toLCM) \in Seq(LcmFrame) /\ Len(toLCM) \in Nat /\ Len(toLCM) >= 1 /\ Head(toLCM) = toLCM[1]
    BY <1>1, Behind1
  <2>2. 1 \in 1..Len(toLCM)
    BY <2>1
  <2> QED BY <1>1, <2>1, <2>2
<1>3. toLCM' = Tail(toLCM) /\ fsm' = fsm /\ shadow' = shadow /\ astray' = astray
  BY DEF Obey
<1>4. lcd' = IF mode = "connected" /\ cmd = "PRINT1" THEN [lcd EXCEPT ![1] = Head(toLCM).line]
             ELSE IF mode = "connected" /\ cmd = "PRINT2" THEN [lcd EXCEPT ![2] = Head(toLCM).line]
             ELSE IF cmd = "RESET" THEN Blanks ELSE lcd
  BY DEF Obey
<1>5. \/ cmd = "RESET" /\ mode' = "idle" /\ Say("RESET")
      \/ cmd = "CONNECT" /\ mode' = "acked" /\ Say("ACK")
      \/ cmd = "CONFIRM" /\ mode' = (IF mode = "acked" THEN "connected" ELSE mode) /\ Silent
      \/ cmd = "ACK" /\ mode = "asked" /\ mode' = "connected" /\ Say("CONFIRM")
      \/ cmd = "NACK" /\ mode = "asked" /\ mode' = "idle" /\ Silent
      \/ cmd \in {"ACK", "NACK"} /\ mode # "asked" /\ UNCHANGED mode /\ Silent
      \/ cmd = "DISCONNECT" /\ mode' = "idle" /\ Say("ACK")
      \/ cmd \in {"PRINT1", "PRINT2"} /\ UNCHANGED mode /\ Silent
  BY DEF Obey
<1>6. lcd' \in [1..2 -> LcmLine]
  <2>1. Head(toLCM).line \in LcmLine
    BY <1>2 DEF LcmFrame
  <2>2. Blanks \in [1..2 -> LcmLine]
    BY DEF Blanks, LcmLine
  <2> HIDE DEF cmd
  <2> QED BY <1>1, <1>4, <2>1, <2>2
<1>7. ~astray => AskedOnce(toHost, toLCM, mode) /\ AskedOnce(toHost, Tail(toLCM), mode)
  BY <1>1, AskedOfTail DEF LcmInv, Mended
<1>8. "RESET" \in LcmByte /\ "ACK" \in LcmByte /\ "CONFIRM" \in LcmByte
  BY DEF LcmByte, LcmCmd
<1>9. ASSUME NEW said \in {"RESET", "ACK"}, Say(said), mode' \in {"idle", "acked"}, mode' = "acked" => cmd = "CONNECT"
      PROVE  toHost' \in Seq(LcmByte) /\ (~astray => AskedOnce(toHost', toLCM', mode'))
  <2>1. PICK bytes \in Seq(LcmByte) : bytes = CmdFrame(said) /\ \A x \in 1..Len(bytes) : bytes[x] \in {said, "MASK"}
    BY <1>8, CmdFrameTyped
  <2>2. toHost' = toHost \o bytes /\ toHost \o bytes \in Seq(LcmByte)
    BY <1>1, <1>9, <2>1, ConcatProperties DEF Say
  <2>3. ~astray /\ mode' = "acked" => \A y \in 1..Len(toHost) : toHost[y] # "CONFIRM"
    BY <1>1, <1>2, <1>7, <1>9 DEF AskedOnce, ConfirmedLast
  <2>4. PICK m2 : m2 = mode'
    OBVIOUS
  <2>5. ~astray => AskedOnce(toHost, Tail(toLCM), m2)
    BY <1>1, <1>7, <1>9, <2>3, <2>4, AskedOfMode
  <2>6. \A x \in 1..Len(bytes) : bytes[x] \notin {"CONNECT", "CONFIRM", "DISCONNECT"}
    BY <2>1
  <2>7. ~astray => AskedOnce(toHost \o bytes, Tail(toLCM), m2)
    BY <1>1, <1>2, <1>9, <2>4, <2>5, <2>6, AskedOfSaid
  <2> QED BY <1>3, <2>2, <2>4, <2>7
<1>10. ASSUME Silent, mode' = mode \/ mode' \in {"idle", "connected"}
       PROVE  toHost' \in Seq(LcmByte) /\ (~astray => AskedOnce(toHost', toLCM', mode'))
  <2>1. toHost' = toHost
    BY <1>10 DEF Silent
  <2>2. PICK m2 : m2 = mode'
    OBVIOUS
  <2>3. ~astray => AskedOnce(toHost, Tail(toLCM), m2)
    <3>1. CASE m2 = mode
      BY <1>7, <3>1
    <3>2. CASE m2 \in {"idle", "connected"}
      BY <1>1, <1>7, <3>2, AskedOfMode
    <3> QED BY <1>10, <2>2, <3>1, <3>2
  <2> QED BY <1>1, <1>3, <2>1, <2>2, <2>3
<1>11. ASSUME cmd = "ACK", mode = "asked", mode' = "connected", Say("CONFIRM")
       PROVE  toHost' \in Seq(LcmByte) /\ (~astray => AskedOnce(toHost', toLCM', mode'))
  <2>1. PICK bytes \in Seq(LcmByte) : /\ bytes = CmdFrame("CONFIRM")
                                       /\ \A x \in 1..Len(bytes) : bytes[x] \in {"CONFIRM", "MASK"}
    BY <1>8, CmdFrameTyped
  <2>2. toHost' = toHost \o bytes /\ toHost \o bytes \in Seq(LcmByte)
    BY <1>1, <1>11, <2>1, ConcatProperties DEF Say
  <2>3. PICK all \in Seq(LcmByte) :
          /\ all = toHost'
          /\ \A x \in 1..Len(all) : (x \in 1..Len(toHost) /\ all[x] = toHost[x]) \/ all[x] \in {"CONFIRM", "MASK"}
    <3>1. /\ \A x \in 1..Len(toHost) : (toHost \o bytes)[x] = toHost[x]
          /\ \A x \in 1..Len(toHost \o bytes) : \/ x \in 1..Len(toHost)
                                                \/ /\ x - Len(toHost) \in 1..Len(bytes)
                                                   /\ (toHost \o bytes)[x] = bytes[x - Len(toHost)]
      BY <1>1, Joined
    <3> QED BY <2>1, <2>2, <3>1
  <2>5. PICK tail \in Seq(LcmFrame) : /\ tail = Tail(toLCM)
                                       /\ \A x \in 1..Len(tail) : x + 1 \in 1 + 1..Len(toLCM) /\ tail[x] = toLCM[x + 1]
    <3>1. /\ Tail(toLCM) \in Seq(LcmFrame) /\ Len(toLCM) \in Nat /\ Len(Tail(toLCM)) = Len(toLCM) - 1
          /\ \A x \in 1..Len(toLCM) - 1 : Tail(toLCM)[x] = toLCM[x + 1]
      BY <1>1, Behind1
    <3>2. PICK tail \in Seq(LcmFrame) : tail = Tail(toLCM)
      BY <3>1
    <3>3. \A x \in 1..Len(tail) : x \in 1..Len(toLCM) - 1 /\ x + 1 \in 1 + 1..Len(toLCM) /\ tail[x] = toLCM[x + 1]
      BY <3>1, <3>2
    <3> QED BY <3>2, <3>3
  <2>6. ~astray =>
        /\ \A y \in 1 + 1..Len(toLCM) : toLCM[y].cmd # "CONNECT"
        /\ \A y \in 1..Len(toHost) : toHost[y] \notin {"RESET", "CONNECT"}
    BY <1>1, <1>2, <1>7, <1>11 DEF AskedOnce, AskedLast
  <2>7. ~astray => \A x \in 1..Len(all) : all[x] # "RESET" /\ all[x] # "DISCONNECT"
    BY <1>1, <1>7, <2>3, <2>6 DEF AskedOnce
  <2>8. ~astray => \A x \in 1..Len(tail) : tail[x].cmd # "CONNECT"
    BY <2>5, <2>6
  <2>9. ~astray => ConfirmedLast(all, tail, "connected")
    <3>1. \A y \in 1..Len(all) : \A x \in 1..y - 1 : x \in 1..Len(all)
      OBVIOUS
    <3> QED BY <2>7, <2>8, <3>1 DEF ConfirmedLast
  <2>10. ~astray => AskedOnce(all, tail, "connected")
    BY <2>7, <2>9 DEF AskedOnce
  <2> QED BY <1>3, <1>11, <2>3, <2>5, <2>10
<1>12. toHost' \in Seq(LcmByte) /\ (~astray => AskedOnce(toHost', toLCM', mode'))
  <2> HIDE DEF cmd
  <2>1. CASE cmd = "RESET" /\ mode' = "idle" /\ Say("RESET")
    BY <1>9, <2>1
  <2>2. CASE cmd = "CONNECT" /\ mode' = "acked" /\ Say("ACK")
    BY <1>9, <2>2
  <2>3. CASE cmd = "CONFIRM" /\ mode' = (IF mode = "acked" THEN "connected" ELSE mode) /\ Silent
    BY <1>10, <2>3
  <2>4. CASE cmd = "ACK" /\ mode = "asked" /\ mode' = "connected" /\ Say("CONFIRM")
    BY <1>11, <2>4
  <2>5. CASE cmd = "NACK" /\ mode = "asked" /\ mode' = "idle" /\ Silent
    BY <1>10, <2>5
  <2>6. CASE cmd = "DISCONNECT" /\ mode' = "idle" /\ Say("ACK")
    BY <1>9, <2>6
  <2>7. CASE UNCHANGED mode /\ Silent
    BY <1>10, <2>7
  <2> QED BY <1>5, <2>1, <2>2, <2>3, <2>4, <2>5, <2>6, <2>7
<1>13. ASSUME ~astray, fsm.state = "CONNECTED" PROVE Promised(toLCM', mode', shadow', lcd')
  <2>1. Promised(toLCM, mode, shadow, lcd)
    BY <1>13 DEF LcmInv, Mended
  <2>2. PICK m2 : m2 = mode'
    OBVIOUS
  <2>3. PICK shown2 : shown2 = lcd'
    OBVIOUS
  <2>4. m2 = "acked" => (mode = "acked" /\ Head(toLCM).cmd # "CONFIRM") \/ Head(toLCM).cmd = "CONNECT"
    BY <1>5, <2>2
  <2>5. m2 = "connected" => mode = "connected" \/ Head(toLCM).cmd = "ACK" \/ (mode = "acked" /\ Head(toLCM).cmd = "CONFIRM")
    BY <1>5, <2>2
  <2>6. ASSUME m2 = "connected", mode = "connected", NEW r \in 1..2
        PROVE  shown2[r] = IF Head(toLCM).cmd = PrintOf(r) THEN Head(toLCM).line ELSE lcd[r]
    <3>1. cmd # "RESET"
      BY <1>5, <2>2, <2>6
    <3>2. (r = 1 /\ PrintOf(r) = "PRINT1") \/ (r = 2 /\ PrintOf(r) = "PRINT2")
      BY DEF PrintOf
    <3>3. cmd = "PRINT1" => shown2 = [lcd EXCEPT ![1] = Head(toLCM).line]
      BY <1>4, <2>3, <2>6
    <3>4. cmd = "PRINT2" => shown2 = [lcd EXCEPT ![2] = Head(toLCM).line]
      BY <1>4, <2>3, <2>6
    <3>5. cmd \notin {"PRINT1", "PRINT2"} => shown2 = lcd
      BY <1>4, <2>3, <3>1
    <3> QED BY <1>1, <3>2, <3>3, <3>4, <3>5
  <2>7. Promised(Tail(toLCM), m2, shadow, shown2)
    BY <1>1, <2>1, <2>4, <2>5, <2>6, PromisedOfTail
  <2> QED BY <1>3, <2>2, <2>3, <2>7
<1>14. mode' \in {"boot", "idle", "asked", "acked", "connected"}
  BY <1>5 DEF LcmInv, LcmType
<1>15. LcmType'
  BY <1>2, <1>3, <1>6, <1>12, <1>14 DEF LcmInv, LcmType
<1> QED BY <1>3, <1>12, <1>13, <1>15 DEF LcmInv, Mended

LEMMA LcmRestartKeeps ==
    ASSUME LcmInv, RestartDisplay PROVE LcmInv'
<1>1. /\ mode' = "idle" /\ lcd' = Blanks /\ Say("RESET")
      /\ astray' = (astray /\ (toHost # <<>> \/ toLCM # <<>>))
      /\ fsm' = fsm /\ shadow' = shadow /\ toLCM' = toLCM
  BY DEF RestartDisplay
<1>2. toHost \in Seq(LcmByte) /\ toLCM \in Seq(LcmFrame) /\ astray \in BOOLEAN
  BY DEF LcmInv, LcmType
<1>3. "RESET" \in LcmByte
  BY DEF LcmByte, LcmCmd
<1>4. PICK bytes \in Seq(LcmByte) : bytes = CmdFrame("RESET") /\ \A x \in 1..Len(bytes) : bytes[x] \in {"RESET", "MASK"}
  BY <1>3, CmdFrameTyped
<1>5. toHost' = toHost \o bytes /\ toHost \o bytes \in Seq(LcmByte)
  BY <1>1, <1>2, <1>4, ConcatProperties DEF Say
<1>6. lcd' \in [1..2 -> LcmLine]
  BY <1>1 DEF Blanks, LcmLine
<1>7. LcmType'
  BY <1>1, <1>2, <1>5, <1>6 DEF LcmInv, LcmType
<1>8. ASSUME ~astray'
      PROVE  /\ AskedOnce(toHost, toLCM, "idle")
             /\ fsm.state = "CONNECTED" => Promised(toLCM, "idle", shadow, lcd')
  <2>1. CASE ~astray
    <3>1. AskedOnce(toHost, toLCM, mode) /\ (fsm.state = "CONNECTED" => Promised(toLCM, mode, shadow, lcd))
      BY <2>1 DEF LcmInv, Mended
    <3>2. AskedOnce(toHost, toLCM, "idle")
      BY <1>2, <3>1, AskedOfMode
    <3> QED BY <3>1, <3>2 DEF Promised
  <2>2. CASE toHost = <<>> /\ toLCM = <<>>
    <3>1. Len(toHost) = 0 /\ Len(toLCM) = 0
      BY <2>2
    <3> QED BY <3>1 DEF AskedOnce, AskedLast, ConfirmedLast, Promised, LastPrints
  <2> QED BY <1>1, <1>2, <1>8, <2>1, <2>2
<1>9. \A x \in 1..Len(bytes) : bytes[x] \notin {"CONNECT", "CONFIRM", "DISCONNECT"}
  BY <1>4
<1>10. ~astray' => AskedOnce(toHost', toLCM', mode')
  BY <1>1, <1>2, <1>5, <1>8, <1>9, AskedOfSaid
<1> QED BY <1>1, <1>7, <1>8, <1>10 DEF LcmInv, Mended

LEMMA LcmRequestKeeps ==
    ASSUME LcmInv, Request PROVE LcmInv'
<1>1. /\ mode = "idle" /\ mode' = "asked" /\ Say("CONNECT") /\ astray' = (astray \/ AnswerUnderWay)
      /\ fsm' = fsm /\ shadow' = shadow /\ toLCM' = toLCM /\ lcd' = lcd
  BY DEF Request
<1>2. toHost \in Seq(LcmByte) /\ toLCM \in Seq(LcmFrame) /\ astray \in BOOLEAN
  BY DEF LcmInv, LcmType
<1>3. "CONNECT" \in LcmByte
  BY DEF LcmByte, LcmCmd
<1>4. PICK bytes \in Seq(LcmByte) : /\ bytes = CmdFrame("CONNECT") /\ Len(bytes) = 3
                                     /\ bytes[1] = "MASK" /\ bytes[2] = "CONNECT" /\ bytes[3] = "MASK"
  BY <1>3, CmdFrameTyped
<1>5. toHost' = toHost \o bytes /\ toHost \o bytes \in Seq(LcmByte)
  BY <1>1, <1>2, <1>4, ConcatProperties DEF Say
<1>6. LcmType'
  BY <1>1, <1>2, <1>5 DEF LcmInv, LcmType, AnswerUnderWay
<1>7. PICK all \in Seq(LcmByte) :
        /\ all = toHost' /\ Len(all) = Len(toHost) + 3 /\ Len(toHost) \in Nat
        /\ \A x \in 1..Len(toHost) : all[x] = toHost[x]
        /\ all[Len(toHost) + 1] = "MASK" /\ all[Len(toHost) + 2] = "CONNECT" /\ all[Len(toHost) + 3] = "MASK"
  <2>1. 1 \in 1..Len(bytes) /\ 2 \in 1..Len(bytes) /\ 3 \in 1..Len(bytes)
    BY <1>4
  <2>2. /\ Len(toHost \o bytes) = Len(toHost) + Len(bytes)
        /\ \A x \in 1..Len(toHost) : (toHost \o bytes)[x] = toHost[x]
        /\ \A x \in 1..Len(bytes) : (toHost \o bytes)[Len(toHost) + x] = bytes[x]
    BY <1>2, Joined
  <2>3. PICK all \in Seq(LcmByte) : all = toHost \o bytes
    BY <1>5
  <2>4. Len(all) = Len(toHost) + 3 /\ \A x \in 1..Len(toHost) : all[x] = toHost[x]
    BY <1>4, <2>2, <2>3
  <2>5. all[Len(toHost) + 1] = "MASK" /\ all[Len(toHost) + 2] = "CONNECT" /\ all[Len(toHost) + 3] = "MASK"
    BY <1>4, <2>1, <2>2, <2>3
  <2>6. Len(toHost) \in Nat
    BY <1>2
  <2> QED BY <1>5, <2>3, <2>4, <2>5, <2>6
<1>8. ASSUME NEW x \in 1..Len(all)
      PROVE  \/ x \in 1..Len(toHost) /\ all[x] = toHost[x]
             \/ x = Len(toHost) + 2 /\ all[x] = "CONNECT"
             \/ x > Len(toHost) /\ all[x] = "MASK"
  <2>1. x \in 1..Len(toHost) \/ x = Len(toHost) + 1 \/ x = Len(toHost) + 2 \/ x = Len(toHost) + 3
    BY <1>7
  <2> QED BY <1>7, <2>1
<1>9. ASSUME ~astray' PROVE AskedOnce(all, toLCM, "asked")
  <2>1. AskedOnce(toHost, toLCM, mode) /\ ~AnswerUnderWay
    BY <1>1, <1>2, <1>9 DEF LcmInv, Mended
  <2>2. /\ \A x \in 1..Len(toHost) : toHost[x] # "CONNECT"
        /\ \A x \in 1..Len(toLCM) : toLCM[x].cmd # "ACK"
    BY <2>1 DEF AnswerUnderWay
  <2>3. AskedLast(all, toLCM)
    <3>1. ASSUME NEW y \in 1..Len(all), NEW x \in 1..y - 1, all[x] = "CONNECT" PROVE all[y] \notin {"RESET", "CONNECT"}
      <4>1. x \in 1..Len(all) /\ x < y
        BY <1>7
      <4>2. x = Len(toHost) + 2
        BY <1>8, <2>2, <3>1, <4>1
      <4>3. y = Len(toHost) + 3
        BY <1>7, <4>1, <4>2
      <4> QED BY <1>7, <4>3
    <3> QED BY <2>2, <3>1 DEF AskedLast
  <2>4. ConfirmedLast(all, toLCM, "asked")
    <3> SUFFICES ASSUME NEW y \in 1..Len(all), all[y] = "CONFIRM"
                 PROVE  /\ \A x \in 1..y - 1 : all[x] # "RESET"
                        /\ \A x \in 1..Len(toLCM) : toLCM[x].cmd # "CONNECT"
      BY DEF ConfirmedLast
    <3>1. y \in 1..Len(toHost) /\ toHost[y] = "CONFIRM"
      BY <1>8
    <3>2. /\ \A x \in 1..y - 1 : toHost[x] # "RESET"
          /\ \A x \in 1..Len(toLCM) : toLCM[x].cmd # "CONNECT"
      BY <2>1, <3>1 DEF AskedOnce, ConfirmedLast
    <3>3. \A x \in 1..y - 1 : all[x] = toHost[x]
      BY <1>7, <3>1
    <3> QED BY <3>2, <3>3
  <2>5. \A x \in 1..Len(all) : all[x] # "DISCONNECT"
    BY <1>8, <2>1 DEF AskedOnce
  <2> QED BY <2>3, <2>4, <2>5 DEF AskedOnce
<1>10. ASSUME ~astray', fsm.state = "CONNECTED" PROVE Promised(toLCM, "asked", shadow, lcd)
  <2>1. Promised(toLCM, mode, shadow, lcd)
    BY <1>1, <1>2, <1>10 DEF LcmInv, Mended
  <2> QED BY <2>1 DEF Promised
<1> QED BY <1>1, <1>6, <1>7, <1>9, <1>10 DEF LcmInv, Mended

LEMMA LcmKeyKeeps ==
    ASSUME LcmInv, Key PROVE LcmInv'
<1>1. /\ mode = "connected" /\ toHost' = toHost \o KeyFrame
      /\ fsm' = fsm /\ shadow' = shadow /\ toLCM' = toLCM /\ lcd' = lcd /\ mode' = mode /\ astray' = astray
  BY DEF Key
<1>2. toHost \in Seq(LcmByte) /\ toLCM \in Seq(LcmFrame)
  BY DEF LcmInv, LcmType
<1>3. /\ "MASK" \in LcmByte /\ "WRITE" \in LcmByte /\ "length" \in LcmByte /\ "key" \in LcmByte /\ "crc" \in LcmByte
  BY DEF LcmByte
<1>4. PICK bytes \in Seq(LcmByte) : bytes = KeyFrame
  <2>1. KeyFrame \in Seq(LcmByte)
    BY <1>3 DEF KeyFrame
  <2> QED BY <2>1
<1>5. \A x \in 1..Len(bytes) : bytes[x] \notin {"CONNECT", "CONFIRM", "DISCONNECT"}
  <2>1. \A x \in 1..Len(KeyFrame) : KeyFrame[x] \in {"MASK", "WRITE", "length", "key", "crc"}
    BY DEF KeyFrame
  <2> QED BY <1>4, <2>1
<1>6. toHost \o bytes \in Seq(LcmByte)
  BY <1>2, ConcatProperties
<1>7. ~astray => AskedOnce(toHost \o bytes, toLCM, mode)
  BY <1>1, <1>2, <1>5, AskedOfSaid DEF LcmInv, Mended
<1>8. LcmType'
  BY <1>1, <1>4, <1>6 DEF LcmInv, LcmType
<1> QED BY <1>1, <1>4, <1>7, <1>8 DEF LcmInv, Mended

-----------------------------------------------------------------------------
(* The theorems. *)

\* Whatever is written, reset, asked, acknowledged or cut, the frames under way to a display
\* of a connected driver make up for what it does not show, unless something went astray.
THEOREM LcmInductive == LcmSpec => []LcmInv
<1>1. LcmInit => LcmInv
  BY LcmInitial
<1>2. LcmInv /\ [LcmNext]_lcmVars => LcmInv'
  <2> SUFFICES ASSUME LcmInv, [LcmNext]_lcmVars PROVE LcmInv'
    OBVIOUS
  <2>1. CASE InitialConnect BY <2>1, ConnectKeeps
  <2>2. CASE Receive BY <2>2, ReceiveKeeps
  <2>3. CASE Quit BY <2>3, LcmQuitKeeps
  <2>4. CASE \E row \in 1..2, line \in Lines : Write(row, line) BY <2>4, LcmWriteKeeps
  <2>5. CASE Obey BY <2>5, ObeyKeeps
  <2>6. CASE RestartDisplay BY <2>6, LcmRestartKeeps
  <2>7. CASE Request BY <2>7, LcmRequestKeeps
  <2>8. CASE Key BY <2>8, LcmKeyKeeps
  <2>9. CASE UNCHANGED lcmVars
    BY <2>9 DEF lcmVars, LcmInv, LcmType, Mended
  <2> QED BY <2>1, <2>2, <2>3, <2>4, <2>5, <2>6, <2>7, <2>8, <2>9 DEF LcmNext
<1> QED BY <1>1, <1>2, PTL DEF LcmSpec

\* Where both sides are connected, and nothing is under way or went astray, the Teak LCM shows
\* what the widgets wrote (fsm_step, flush_shadow), for any lines, reads, writes, restarts,
\* requests and keys.
THEOREM ShadowKept == LcmSpec => []ShadowShown
<1>1. LcmInv => ShadowShown
  <2> SUFFICES ASSUME LcmInv, fsm.state = "CONNECTED", mode = "connected", toLCM = <<>>, ~astray PROVE lcd = shadow
    BY DEF ShadowShown
  <2>1. lcd \in [1..2 -> LcmLine] /\ shadow \in [1..2 -> LcmLine] /\ Promised(toLCM, mode, shadow, lcd)
    BY DEF LcmInv, LcmType, Mended
  <2>2. \A x \in 1..Len(toLCM) : FALSE
    OBVIOUS
  <2>3. \A r \in 1..2 : lcd[r] = shadow[r]
    BY <2>1, <2>2 DEF Promised
  <2> QED BY <2>1, <2>3
<1> QED BY <1>1, LcmInductive, PTL
=============================================================================
