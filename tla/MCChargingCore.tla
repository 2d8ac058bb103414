---------------------------- MODULE MCChargingCore ----------------------------
(***************************************************************************)
(* ChargingCore on small instances.  The cfg files give every constant; the *)
(* amounts, which a cfg cannot write as sets of integers with a sign, are   *)
(* defined here.                                                           *)
(***************************************************************************)
EXTENDS ChargingProperties, TLC

MCAdjustments == {-1, 1}

\* Rows of one table are interchangeable: no property names one of them.
Symmetry == Permutations(Orders) \cup Permutations(Withdrawals)
              \cup Permutations(Users) \cup Permutations(Chargers)
              \cup Permutations(Keys)
=============================================================================
