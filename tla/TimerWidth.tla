------------------------------ MODULE TimerWidth ------------------------------
(***************************************************************************)
(* timer_inc (timer.c) with the width of its C numbers.  TimerQueue takes  *)
(* the numbers of timer_inc as exact, which they are for a timer that is   *)
(* called no later than a float counts milliseconds.  Here a single        *)
(* periodic timer lives with ints up to IntMax and floats of a mantissa up *)
(* to Mantissa, and the wall clock may be set far ahead, as on a board     *)
(* without a battery whose clock starts in 1970 until the network tells it *)
(* the date.  Fractions of a millisecond are left out: rounding never goes *)
(* across a number that a float can hold, and so neither do they.          *)
(***************************************************************************)
EXTENDS CInt

CONSTANTS
    Mantissa,     \* up to it a float holds every whole number, 2^24
    Scales,       \* the powers of two a mantissa is scaled with
    Second,       \* milliseconds of a second, 1000
    Interval,     \* the timer's interval in milliseconds
    MaxWallClock, \* bound: the wall clock stops here
    MaxLag        \* bound: no call of a timer that is later than that

ASSUME FloatAssumption == Mantissa \in Nat \ {0} /\ Scales \subseteq Nat /\ {1, Mantissa} \subseteq Scales
ASSUME WidthAssumption == /\ Second \in Nat \ {0} /\ Interval \in Nat \ {0}
                          /\ MaxWallClock \in Nat /\ MaxLag \in Nat

VARIABLES wallClock, trigger

widthVars == <<wallClock, trigger>>

\* The whole numbers a float can hold.
Floats == {m * s : m \in 0..Mantissa, s \in Scales}

\* How far f is from the quotient of a and b, b times.
Off(f, a, b) == IF f * b < a THEN a - f * b ELSE f * b - a

\* The quotient of a and b as a float: the nearest one, or either of two.
Rounded(a, b) == {f \in Floats : \A g \in Floats : Off(f, a, b) <= Off(g, a, b)}

\* The time difference in milliseconds: seconds become a float and are multiplied,
\* then the rest is added.
TimeDifferences(d) ==
    UNION {Rounded(t + (d % Second), 1) :
              t \in UNION {Rounded(s * Second, 1) : s \in Rounded(d \div Second, 1)}}

\* How many intervals went by, in parts of the mantissa.
Quotients(d) ==
    UNION {Rounded(Mantissa * t, i) : t \in TimeDifferences(d), i \in Rounded(Interval, 1)}

\* The ints a conversion from float may give: a quotient that fits is truncated,
\* of any other the C standard leaves the result open.
FromFloat(f) == IF f \div Mantissa \in Ints THEN {f \div Mantissa} ELSE Ints

\* timer_inc: the numbers of intervals that were missed.
Missed == UNION {FromFloat(f) : f \in Quotients(wallClock - trigger)}

\* Variant for mutation: the missed intervals are skipped, the next one is not added.
NextTriggersBehind == {trigger + Wrap(Interval * n) : n \in Missed}

\* The triggers timer_inc may set.
NextTriggers == {trigger + Wrap(Interval * Wrap(n + 1)) : n \in Missed}

WidthInit == wallClock = 0 /\ trigger = 0

\* timer_process finds the timer due and calls it.
Process ==
    /\ trigger <= wallClock
    /\ wallClock - trigger <= MaxLag
    /\ trigger' \in NextTriggers
    /\ UNCHANGED wallClock

\* Time passes, or the clock is set ahead.
Advance ==
    /\ wallClock' \in wallClock + 1 .. MaxWallClock
    /\ UNCHANGED trigger

WidthNext == Process \/ Advance

WidthSpec == WidthInit /\ [][WidthNext]_widthVars

\* With an interval more or two, the lateness of a call is a number that an int and a
\* float can hold.
Counted == LET d == wallClock - trigger + 2 * Interval IN d <= IntMax /\ d <= Mantissa

\* timer_inc skips all missed intervals, so that unprocessed timers do not stack up
\* and continuously update, as long as the timer is no later than a float counts
\* milliseconds, which is four hours and a half.  Beyond, the quotient is rounded: a
\* processed timer may be due again at once; and where an int does not count them, it
\* may be due far from ever.
MissedSkipped ==
    [][(trigger' # trigger /\ Counted) => trigger' > wallClock]_widthVars
=============================================================================
