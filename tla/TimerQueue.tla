------------------------------ MODULE TimerQueue ------------------------------
(***************************************************************************)
(* The timer queue of lcd4linux (timer.c) and the main loop that drives it *)
(* (lcd4linux.c).  The program is single-threaded: timer_process scans the *)
(* slots of the queue and calls back every timer that is due, the callback *)
(* may itself add and remove timers, and the loop then sleeps in ppoll for *)
(* the delay that timer_process computed, or until a file descriptor is    *)
(* ready.  The wall clock runs (and may be set) at any point of this.      *)
(*                                                                         *)
(* The difference of timer_process' skew detection is an int of C.  The    *)
(* float and the ints of timer_inc are taken as exact, which they are for  *)
(* a timer less late than four hours and a half (see TimerWidth).          *)
(***************************************************************************)
EXTENDS SlotTable, CInt, FiniteSets

CONSTANTS
    Handlers,      \* the (callback, data) pairs by which a timer is known
    Timeouts,      \* those of libdbus: the only ones anybody removes or adds late
    Intervals,     \* triggering intervals, in milliseconds
    SkewDetect,    \* CLOCK_SKEW_DETECT_TIME_IN_MS
    MaxTimers,     \* slots that realloc finds memory for
    MaxClock,      \* bound: the wall clock stops here
    ClockSteps,    \* steps, forward or backward, by which the clock may be set
    MaxSetback     \* bound: by how much the clock is set back in all

ASSUME TimeoutsAssumption == Timeouts \subseteq Handlers
ASSUME SkewDetectAssumption == SkewDetect \in Nat
ASSUME IntervalsAssumption == Intervals \subseteq 0..IntMax - SkewDetect
ASSUME BoundsAssumption == /\ MaxTimers \in Nat
                           /\ MaxClock \in Nat
                           /\ MaxSetback \in Nat
ASSUME ClockStepsAssumption == ClockSteps \subseteq Int

VARIABLES
    Timers,        \* the slots; their number is nTimers in the code
    clock,         \* what gettimeofday returns
    pc,            \* where the main loop is, see Places
    timer,         \* timer_process: the slot that the scan has reached
    now,           \* timer_process: the time it read when it was entered
    delay,         \* what is left of the delay that ppoll sleeps for
    setback,       \* history: milliseconds by which the clock was set back so far
    reused         \* history: the slot whose callback runs was given to a new timer

vars == <<Timers, clock, pc, timer, now, delay, setback, reused>>

\* "events": start-up, or the callbacks of ready file descriptors in
\* event_process; "process": timer_process is called next; "scan": its loop
\* looks for the next due timer; "call": a timer's callback runs; "poll": the
\* loop sleeps in ppoll; "stopped": the loop was left.
Places == {"events", "process", "scan", "call", "poll", "stopped"}

Timer == [handler : Handlers, when : Int, interval : Intervals,
          one_shot : BOOLEAN, active : BOOLEAN]

TypeOK ==
    /\ Timers \in Seq(Timer)
    /\ clock \in Nat
    /\ pc \in Places
    /\ timer \in Nat \ {0}
    /\ now \in Nat
    /\ delay \in Nat
    /\ setback \in Nat
    /\ reused \in BOOLEAN
    /\ pc = "call" => timer \in DOMAIN Timers

-----------------------------------------------------------------------------
(* Operations on the queue. *)

\* Variant for mutation: the quotient is rounded up.
MissedRoundedUp(t, at) == (at - t.when + t.interval - 1) \div t.interval

\* Intervals gone by since the timer should have triggered, truncated towards
\* zero as the cast to int does.
MissedIntervals(t, at) ==
    LET d == at - t.when
    IN  IF d >= 0 THEN d \div t.interval ELSE -((-d) \div t.interval)

\* timer_inc: the trigger after the missed ones.  An interval of zero makes the
\* quotient infinite or NaN; whatever int that becomes is multiplied by zero.
NextTrigger(t, at) ==
    IF t.interval = 0 THEN t.when
    ELSE t.when + t.interval * (MissedIntervals(t, at) + 1)

\* The slot contents timer_add writes: due at once, a one-shot timer one
\* interval from now.
NewTimer(h, i, once) ==
    LET t == [handler |-> h, when |-> clock, interval |-> i,
              one_shot |-> once, active |-> TRUE]
    IN  IF once THEN [t EXCEPT !.when = NextTrigger(t, clock)] ELSE t

\* timer_add in a queue whose memory suffices; a caller in a callback may be
\* handed the very slot that is being processed.
AddTimer(h, i, once) ==
    /\ HasRoom(Timers, MaxTimers)
    /\ Timers' = PlaceSlot(Timers, NewTimer(h, i, once))
    /\ reused' = (reused \/ (pc = "call" /\ timer = PlaceAt(Timers)))

\* The active slots of handler h, of which timer_remove takes the first.
SlotsOf(h) == {i \in ActiveSlots(Timers) : Timers[i].handler = h}

\* Variant for mutation: the scan starts behind slot i.
DueBehind(i) == {j \in ActiveSlots(Timers) : j > i /\ Timers[j].when <= now}

\* The timers due at the time the pass was entered, from slot i on.
DueFrom(i) == {j \in ActiveSlots(Timers) : j >= i /\ Timers[j].when <= now}

\* Variant for mutation: the first active slot, triggers not compared.
FirstTimer == FirstSlot(ActiveSlots(Timers))

\* The next upcoming timer: the earliest trigger, the first slot among equals.
NextTimer ==
    LET A == ActiveSlots(Timers)
    IN  FirstSlot({i \in A : \A j \in A : Timers[i].when <= Timers[j].when})

-----------------------------------------------------------------------------
Init ==
    /\ Timers = <<>>
    /\ clock = 0
    /\ pc = "events"
    /\ timer = 1
    /\ now = 0
    /\ delay = 0
    /\ setback = 0
    /\ reused = FALSE

\* Start-up code, an event handler or a timer callback adds a timer: a periodic
\* one (drivers, timer groups) or a one-shot one (widget_timer_update).
TimerAdd(h, i, once) ==
    /\ pc \in {"events", "call"}
    /\ AddTimer(h, i, once)
    /\ UNCHANGED <<clock, pc, timer, now, delay, setback>>

\* timer_add_late as libdbus' add function calls it, for a periodic timer.  The
\* timer is added masked as one-shot, and the inverted test of timer_add's
\* result then returns -1 before the mask is taken off.
TimerAddLate(h, i) ==
    /\ pc \in {"events", "call"}
    /\ AddTimer(h, i, TRUE)
    /\ UNCHANGED <<clock, pc, timer, now, delay, setback>>

\* timer_remove, when it finds a timer of that handler.
TimerRemove(h) ==
    /\ pc \in {"events", "call"}
    /\ SlotsOf(h) # {}
    /\ Timers' = RetireSlot(Timers, FirstSlot(SlotsOf(h)))
    /\ UNCHANGED <<clock, pc, timer, now, delay, setback, reused>>

\* timer_process is entered; without a single slot it fails and the loop ends.
ProcessStart ==
    /\ pc \in {"events", "process"}
    /\ now' = clock
    /\ timer' = 1
    /\ pc' = IF Timers = <<>> THEN "stopped" ELSE "scan"
    /\ UNCHANGED <<Timers, clock, delay, setback, reused>>

\* The scan reaches the next due timer and calls it.
ProcessCall ==
    /\ pc = "scan"
    /\ DueFrom(timer) # {}
    /\ timer' = FirstSlot(DueFrom(timer))
    /\ pc' = "call"
    /\ reused' = FALSE
    /\ UNCHANGED <<Timers, clock, now, delay, setback>>

\* Variant for mutation: missed intervals are not skipped.
AfterCallNoSkip(t) ==
    IF t.one_shot THEN [t EXCEPT !.active = FALSE]
                  ELSE [t EXCEPT !.when = @ + t.interval]

\* What timer_process makes of the slot once its callback has returned, even if
\* the callback removed that timer or the slot holds another one by now.
AfterCall(t) ==
    IF t.one_shot THEN [t EXCEPT !.active = FALSE]
                  ELSE [t EXCEPT !.when = NextTrigger(t, now)]

\* The callback returns.
ProcessReturn ==
    /\ pc = "call"
    /\ Timers' = [Timers EXCEPT ![timer] = AfterCall(@)]
    /\ timer' = timer + 1
    /\ pc' = "scan"
    /\ UNCHANGED <<clock, now, delay, setback, reused>>

\* Variant for mutation: timersub with its arguments swapped.
TimeDifferenceSwapped(t) == Wrap(clock - t.when)

\* The milliseconds from now to the trigger, in the int they are put in.
TimeDifference(t) == Wrap(t.when - clock)

\* A trigger further away than an interval and the threshold means that the
\* clock was set back; none is seen in a trigger that has passed.
Skewed(t) == clock <= t.when /\ TimeDifference(t) > t.interval + SkewDetect

\* Every active timer is then shifted by the skew.
Unskewed(skew) ==
    [i \in DOMAIN Timers |->
        IF Timers[i].active THEN [Timers[i] EXCEPT !.when = @ - skew]
                            ELSE Timers[i]]

\* The delay until timer t is due, in seconds and microseconds, none if its
\* trigger has passed meanwhile.
SleepUntil(t) == IF t.when < clock THEN 0 ELSE t.when - clock

\* No due timer is left: compute the delay until the next one.
ProcessSelect ==
    /\ pc = "scan"
    /\ DueFrom(timer) = {}
    /\ IF ActiveSlots(Timers) = {}
       THEN pc' = "stopped" /\ UNCHANGED <<Timers, delay>>
       ELSE LET next == Timers[NextTimer]
            IN  /\ pc' = "poll"
                /\ IF Skewed(next)
                   THEN Timers' = Unskewed(TimeDifference(next) - next.interval) /\ delay' = 0
                   ELSE Timers' = Timers /\ delay' = SleepUntil(next)
    /\ UNCHANGED <<clock, timer, now, setback, reused>>

\* ppoll returns because the delay is over ...
PollTimeout ==
    /\ pc = "poll"
    /\ delay = 0
    /\ pc' = "process"
    /\ UNCHANGED <<Timers, clock, timer, now, delay, setback, reused>>

\* ... or because a descriptor is ready, whose handler is called.
PollReady ==
    /\ pc = "poll"
    /\ pc' = "events"
    /\ UNCHANGED <<Timers, clock, timer, now, delay, setback, reused>>

\* A millisecond passes.  The sleep runs out even where the bound holds the
\* wall clock.
Tick ==
    /\ pc # "stopped"
    /\ clock < MaxClock \/ (pc = "poll" /\ delay > 0)
    /\ clock' = IF clock < MaxClock THEN clock + 1 ELSE clock
    /\ delay' = IF pc = "poll" /\ delay > 0 THEN delay - 1 ELSE delay
    /\ UNCHANGED <<Timers, pc, timer, now, setback, reused>>

\* The clock is set.
SetClock(s) ==
    /\ pc # "stopped"
    /\ clock + s \in 0..MaxClock
    /\ clock' = clock + s
    /\ setback' = IF s < 0 THEN setback - s ELSE setback
    /\ setback' <= MaxSetback
    /\ UNCHANGED <<Timers, pc, timer, now, delay, reused>>

\* The loop was left.
Stopped == pc = "stopped" /\ UNCHANGED vars

Client ==
    \/ \E h \in Handlers \ Timeouts, i \in Intervals, once \in BOOLEAN : TimerAdd(h, i, once)
    \/ \E h \in Timeouts, i \in Intervals : TimerAddLate(h, i)
    \/ \E h \in Timeouts : TimerRemove(h)

Loop ==
    \/ ProcessStart
    \/ ProcessCall
    \/ ProcessReturn
    \/ ProcessSelect
    \/ PollTimeout
    \/ PollReady

Next ==
    \/ Client
    \/ Loop
    \/ Tick
    \/ \E s \in ClockSteps : SetClock(s)
    \/ Stopped

Spec == Init /\ [][Next]_vars

\* The program runs on, callbacks return, and time passes.  Nothing is assumed of
\* the clients, of descriptors or of the clock being set.
Fairness ==
    /\ WF_vars(ProcessStart)
    /\ WF_vars(ProcessCall)
    /\ WF_vars(ProcessReturn)
    /\ WF_vars(ProcessSelect)
    /\ WF_vars(PollTimeout)
    /\ WF_vars(Tick)

FairSpec == Spec /\ Fairness

-----------------------------------------------------------------------------
(* Properties. *)

\* However often callbacks add timers and passes come late, no timer is
\* scheduled further away than one interval, except for what the clock was set
\* back; timer_process' skew detection relies on it.
HorizonBound ==
    \A i \in ActiveSlots(Timers) :
        Timers[i].when <= clock + setback + Timers[i].interval

\* The slots that the current or last pass has dealt with.
Passed(i) == \/ pc \in {"scan", "call"} /\ i < timer
             \/ pc = "poll"

\* Behind the scan of timer_process no trigger is left in the past: missed
\* intervals are skipped, nothing due is jumped over, also where callbacks add
\* and remove timers in the slots behind the scan.
NoneOverdue ==
    \A i \in ActiveSlots(Timers) :
        (Passed(i) /\ Timers[i].interval > 0) => Timers[i].when >= now - setback

\* The slot of a running callback is given to another timer only if somebody
\* removes timers from within callbacks, as libdbus may.
OwnSlotKept == reused => Timeouts # {}

\* The main loop never sleeps beyond the trigger of an active timer.
SleepHonest ==
    [][(pc = "scan" /\ pc' = "poll") =>
          (delay' = 0 \/ \A i \in ActiveSlots(Timers') : clock + delay' <= Timers'[i].when)]_vars

\* An int can count the milliseconds to every trigger.
Countable == \A i \in ActiveSlots(Timers) : Timers[i].when - clock <= IntMax

\* The main loop does not freeze when the clock is set back: it sleeps no longer
\* than some active timer's interval and the skew threshold, as long as an int
\* can count the milliseconds to every trigger.  Where one is further away, the
\* difference wraps, no skew need be seen, and the loop sleeps until that trigger.
SleepBounded ==
    [][(pc = "scan" /\ pc' = "poll" /\ Countable) =>
          \E i \in ActiveSlots(Timers') : delay' <= Timers'[i].interval + SkewDetect]_vars

\* A trigger that has come is dealt with: the timer is called, or removed.
Due(i) == i \in ActiveSlots(Timers) /\ Timers[i].when <= clock

DueIsServed == \A i \in 1..MaxTimers : []<>~Due(i)

\* timer.c, timer_add: a timer set to active is processed; timer_process does not
\* retire a timer that it has not called.
RetiresOnlyCalled ==
    [][(pc = "call" /\ pc' = "scan") =>
          (reused => timer \in ActiveSlots(Timers'))]_vars

=============================================================================
