-------------------------------- MODULE Clock --------------------------------
(***************************************************************************)
(* The time that the timed components read: one clock for the application  *)
(* and the database, in ticks.                                             *)
(***************************************************************************)
EXTENDS Integers

CONSTANT MaxTime  \* bound: where the clock stops

ASSUME ClockAssumption == MaxTime \in Nat

VARIABLE now

ClockInit == now = 0

Tick == now < MaxTime /\ now' = now + 1
=============================================================================
