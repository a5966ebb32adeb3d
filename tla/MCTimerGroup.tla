---------------------------- MODULE MCTimerGroup ----------------------------
(* Instances of TimerGroup for TLC.                                          *)
EXTENDS TimerGroup

CONSTANTS icon, gpo, bar, text     \* model values: widgets of each kind

Cells == 1..MaxGroups
NoSteps == {}
=============================================================================
