--------------------------- MODULE MCOperationalSync ---------------------------
(* Two devices and one entity. *)
EXTENDS OperationalSync, TLC

CONSTANTS d1, d2

DeviceSymmetry == Permutations({d1, d2})

\* Workstation clocks, in units of the time between two stamps.
BehindInStepOrAhead == {-2, 0, 3}
InStep == {0}
===============================================================================
