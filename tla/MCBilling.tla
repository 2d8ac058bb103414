------------------------------ MODULE MCBilling ------------------------------
(***************************************************************************)
(* Billing on a day of three hours, each of two ticks.                     *)
(***************************************************************************)
EXTENDS BillingProperties
=============================================================================
