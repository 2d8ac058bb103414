----------------------------- MODULE MCChargingTx -----------------------------
(***************************************************************************)
(* ChargingTx on small instances: the cfg files give every constant.       *)
(***************************************************************************)
EXTENDS ChargingTxProperties, TLC

Symmetry == Permutations(Sessions) \cup Permutations(Orders) \cup Permutations(Keys)
=============================================================================
