--------------------------------- MODULE CInt ---------------------------------
(* The int of C: a computation whose result does not fit leaves the one that *)
(* is equal to it modulo the number of ints.                                 *)
EXTENDS Integers

CONSTANT IntMax       \* the greatest int, INT_MAX

ASSUME IntMaxAssumption == IntMax \in Nat

Ints == -IntMax - 1 .. IntMax

\* The int a computation leaves whose result may not fit.
Wrap(x) == ((x + IntMax + 1) % (2 * (IntMax + 1))) - IntMax - 1
=============================================================================
