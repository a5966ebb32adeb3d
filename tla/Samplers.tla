------------------------------ MODULE Samplers ------------------------------
(***************************************************************************)
(* The data sources that keep what they have read in a hash (plugin_*.c).  *)
(* A widget whose expression asks for a value has the source read again    *)
(* unless that was done a few milliseconds ago.  How long ago is told by   *)
(* the clock of the system, which may be set.                              *)
(***************************************************************************)
EXTENDS HashTable, FiniteSetsExt

CONSTANTS
    DELTA_SLOTS,    \* slots for rates (64)
    Sources,        \* the sources at work
    Names,          \* keys; all of them can be read from the start, ...
    Late,           \* ... but these
    MaxAsks, MaxPauses, MaxErrors   \* bounds: how often a widget asks, time passes,
                    \* the clock is set back, and the source can not be opened

VARIABLES
    plugin,     \* the source
    time,       \* msec that have passed, and that the clock has been set back
    counter,    \* what there is to read: a number, ...
    names,      \* ... for each of these keys
    broken,     \* the source can not be opened
    fd,         \* of the source: "closed", "open", or "failed" for ever
    hash,       \* its hash
    puts,       \* history: what was put under each key, <<clock, value>>
    readAt,     \* history: when each key was put last, in msec that had passed
    told,       \* history: the key that a widget asked for last, how old the value was that it
                \* was told, in msec that had passed, how long before it was told first since
                \* the clock was set, and whether it was told an old value for want of a new one
    firstAsk,   \* history: when each key was told first since the clock was set,
                \* not for want of a new value
    asks, pauses, errors    \* how many there have been

\* A key is a rank and a spelling, which makes out the rank.
ASSUME NamesAssumption ==
    /\ Names \subseteq Int \X Int /\ Late \subseteq Names /\ IsFiniteSet(Names)
    /\ \A a, b \in Names : a[2] = b[2] => a = b
\* No source waits for more than a few seconds; what is younger than `low' has to be read
\* again, or may come from the future.
ASSUME SourcesAssumption == \A source \in Sources :
    /\ source.slots \in Nat \ {0} /\ source.interval \in 0..5000
    /\ source.low \in Nat \cup {-1000000} /\ source.byKey \in BOOLEAN

samplerVars == <<plugin, time, counter, names, broken, fd, hash, puts, readAt, told, firstAsk,
                 asks, pauses, errors>>

Clock == 10000 + time.passed - time.back
LongAgo == 1000000
NotYet == -1

-----------------------------------------------------------------------------
(* The sources.  What is not younger than `low' nor older than `interval'  *)
(* is not read again; the age is that of the table, or of the key.         *)

Source(low, interval, slots, byKey, handle) ==
    [low |-> low, interval |-> interval, slots |-> slots, byKey |-> byKey, handle |-> handle]

\* Files that are "kept" open, or opened "each time"; that are not tried again after an
\* error ("once"); one that gives way to an "old" value.
parse_proc_stat == Source(1, 10, DELTA_SLOTS, FALSE, "kept")
parse_diskstats == Source(1, 10, DELTA_SLOTS, FALSE, "kept")
parse_netdev == Source(1, 10, DELTA_SLOTS, FALSE, "kept")
parse_meminfo == Source(1, 10, 1, FALSE, "kept")
parse_cpuinfo == Source(1, 1000, 1, FALSE, "kept")
parse_proc_apm == Source(1, 10, 1, FALSE, "once")
parse_seti == Source(1, 100, 1, FALSE, "each time")
get_dvb_stats == Source(1, 1000, 1, FALSE, "each time")
parse_isdninfo == Source(1, 10, 1, FALSE, "each time")
parse_xmms_info == Source(0, 200, 1, FALSE, "each time")
my_i2c_sensors == Source(0, 250, 1, TRUE, "old")
\* Values outside a hash; what the clock says is from the future is young, and what was read
\* in this very millisecond is not.
my_loadavg == Source(-LongAgo, 10, 1, FALSE, "once")
my_uptime == Source(-LongAgo, 100, 1, FALSE, "once")

SamplerInit ==
    /\ plugin \in Sources
    /\ time = [passed |-> 0, back |-> 0]
    /\ counter = 1 /\ names = Names \ Late /\ broken = FALSE
    /\ fd = "closed"
    /\ hash = EmptyHash
    /\ puts = [k \in Names |-> <<>>] /\ readAt = [k \in Names |-> -LongAgo]
    /\ told = [key |-> <<>>, age |-> 0, since |-> 0, old |-> FALSE]
    /\ firstAsk = [k \in Names |-> NotYet]
    /\ asks = 0 /\ pauses = 0 /\ errors = 0

-----------------------------------------------------------------------------
(* A widget asks. *)

\* The source need not be read again.
Young(k) ==
    LET age == HashAge(hash, IF plugin.byKey THEN k ELSE <<>>, Clock)
    IN  plugin.low <= age /\ age <= plugin.interval /\ (plugin.low < 0 => age # 0)

\* What reading the source does: everything in it is put into the hash, in its order, or
\* what the widget asks for only.
InOrder(keys) ==
    {all \in [1..Cardinality(keys) -> keys] :
        ToSet(all) = keys /\ \A i, j \in DOMAIN all : i < j => all[i][2] < all[j][2]}
HashWith(all) ==
    LET filled[i \in 0..Len(all)] ==
            IF i = 0 THEN hash ELSE HashSet(filled[i - 1], all[i], counter, plugin.slots, Clock)
    IN  filled[Len(all)]
Read(k) ==
    LET keys == IF plugin.byKey THEN {k} ELSE names
    IN  /\ \E all \in InOrder(keys) : hash' = SortedHash(HashWith(all))
        /\ puts' = [key \in Names |-> IF key \in keys THEN Append(puts[key], <<Clock, counter>>) ELSE puts[key]]
        /\ readAt' = [key \in Names |-> IF key \in keys THEN time.passed ELSE readAt[key]]

Openable == fd = "open" \/ (~broken /\ fd # "failed")
HandleAfter == IF Openable THEN IF plugin.handle \in {"kept", "once"} THEN "open" ELSE "closed"
               ELSE IF plugin.handle = "once" THEN "failed" ELSE fd

\* A widget that gets no value shows nothing.
Tell(k, old) ==
    /\ firstAsk' = [firstAsk EXCEPT ![k] = IF old \/ @ # NotYet THEN @ ELSE time.passed]
    /\ told' = [key |-> k, age |-> IF readAt'[k] = -LongAgo THEN 0 ELSE time.passed - readAt'[k],
                since |-> time.passed - firstAsk'[k], old |-> old]

Ask(k) ==
    /\ asks < MaxAsks /\ asks' = asks + 1
    /\ \/ /\ Young(k)
          /\ hash' = SortedHash(hash)
          /\ UNCHANGED <<puts, readAt, fd>>
          /\ Tell(k, FALSE)
       \/ /\ ~Young(k) /\ Openable
          /\ Read(k)
          /\ fd' = HandleAfter
          /\ Tell(k, FALSE)
       \/ /\ ~Young(k) /\ ~Openable
          /\ fd' = HandleAfter
          /\ UNCHANGED <<puts, readAt>>
          /\ IF plugin.handle = "old"
             THEN hash' = SortedHash(hash) /\ Tell(k, TRUE)
             ELSE UNCHANGED <<hash, told, firstAsk>>
    /\ UNCHANGED <<plugin, time, counter, names, broken, pauses, errors>>

-----------------------------------------------------------------------------
(* The system. *)

\* Time passes: less than the interval, or more.  The counter grows, or starts again
\* from 2.
Pause(msec, value) ==
    /\ pauses < MaxPauses /\ pauses' = pauses + 1
    /\ time' = [time EXCEPT !.passed = @ + msec]
    /\ counter' = value
    /\ names' \in {names, Names}
    /\ UNCHANGED <<plugin, broken, fd, hash, puts, readAt, told, firstAsk, asks, errors>>

\* The clock is set back by seconds, or a little.
ClockSetBack(msec) ==
    /\ time.back = 0
    /\ time' = [time EXCEPT !.back = msec]
    /\ firstAsk' = [k \in Names |-> NotYet]
    /\ UNCHANGED <<plugin, counter, names, broken, fd, hash, puts, readAt, told, asks, pauses, errors>>

\* The source cannot be opened for a while.
Break ==
    /\ broken \/ errors < MaxErrors
    /\ broken' = ~broken
    /\ errors' = errors + (IF broken THEN 0 ELSE 1)
    /\ UNCHANGED <<plugin, time, counter, names, fd, hash, puts, readAt, told, firstAsk, asks, pauses>>

SamplerNext ==
    \/ \E k \in names : Ask(k)
    \/ \E msec \in {plugin.interval \div 2, plugin.interval + 1}, value \in {counter + 1} \cup (IF counter = 2 THEN {0} ELSE {}) : Pause(msec, value)
    \/ \E msec \in {plugin.interval + 2, 5000} : ClockSetBack(msec)
    \/ Break

SamplerSpec == SamplerInit /\ [][SamplerNext]_samplerVars

-----------------------------------------------------------------------------
(* Properties. *)

\* What hash_get_delta should return, from all that was put: the growth since the last
\* value that is older than the delay, or else since the oldest in the slots.
RateOf(log, delay, slots) ==
    LET n == Len(log)
        kept == {i \in 1..n : i > n - slots}
        old == {i \in kept \ {n} : log[i][1] < log[n][1] - delay}
        since == IF old = {} THEN Min(kept) ELSE Max(old)
        dv == log[n][2] - log[since][2]
        dt == log[n][1] - log[since][1]
    IN  IF delay = 0 THEN <<log[n][2], 1>> ELSE IF dt > 0 /\ dv >= 0 THEN <<dv, dt>> ELSE <<0, 1>>

Lonely(k) == k # <<>> /\ \A key \in Names : key[1] = k[1] => key = k

\* The table is sorted when somebody asks and not when keys come up, the slots are a ring,
\* and the clock may be set back between two of them: a key that has no twin in capitals has
\* exactly the value that was put last, and the rates that its last values give.
RatesRight ==
    \A k \in Names : \A delay \in {0, plugin.interval, 2 * plugin.interval} :
        puts[k] # <<>> /\ Lonely(k) =>
            HashGetDelta(hash, k, delay) = RateOf(puts[k], delay, plugin.slots)

\* Every source rereads what is older than its interval, which is that of its test (the
\* comment of plugin_xmms.c:74 says 100 msec where the test says 200): if the clock is set
\* back, one value may seem younger than it is, but once the interval has passed again since
\* it was told first, what a widget is told was read within the interval.  Two sources take
\* values from the future for young, and are left out.
StaleOnceOnly ==
    plugin.low > -LongAgo /\ Lonely(told.key) /\ told.since > plugin.interval /\ ~told.old
        => told.age <= plugin.interval

\* What a widget is told: the rates of what was read, and not for long after it was read.
RatesHonest == RatesRight /\ StaleOnceOnly
=============================================================================
