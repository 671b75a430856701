----------------------------- MODULE CountSpec -----------------------------
(***************************************************************************)
(* What a counting semaphore promises: units are only taken when there are *)
(* some, and only given units can be taken.                                *)
(***************************************************************************)
EXTENDS Integers

CONSTANTS First, Most

VARIABLES units

Init == units = First

Take == units > 0 /\ units' = units - 1

Give == \E n \in 1..Most : units' = units + n

Spec == Init /\ [][Take \/ Give]_units
=============================================================================
