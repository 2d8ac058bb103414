------------------------------ MODULE Invoices ------------------------------
(***************************************************************************)
(* What the meter of billing.py may answer, as the commands that settle an *)
(* order rely on it: module Billing shows that the computation stays       *)
(* within it, ChargingCore uses nothing more of the meter.                 *)
(***************************************************************************)
EXTENDS Integers, Null

\* NULL is not a text.
ASSUME NoneAssumption == None \notin {"target_reached", "balance_exhausted"}

\* What meter may answer for an order with target units to go and a budget.
Bills(target, budget) ==
  {b \in [energy : 0 .. target, amount : 0 .. budget,
          cap : {None, "target_reached", "balance_exhausted"}] :
     /\ b.cap = "target_reached" => b.energy = target
     /\ b.cap = "balance_exhausted" => b.amount = budget}
=============================================================================
