---------------------------- MODULE MCTimerQueue ----------------------------
(* Instances of TimerQueue for TLC.  Time is counted in ticks of a few       *)
(* milliseconds, so that intervals, lateness and skew fit small numbers.     *)
EXTENDS TimerQueue

CONSTANTS client, timeout     \* model values: lcd4linux' own timers, libdbus'

\* The clock is never set.
NoSteps == {}
\* The clock jumps ahead.
ForwardStep == {2}
\* The clock is set back beyond the detection threshold.
SetbackStep == {-3}
=============================================================================
