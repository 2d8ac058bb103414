------------------------------ MODULE MCDesktop ------------------------------
(***************************************************************************)
(* DesktopClient on small instances.                                       *)
(***************************************************************************)
EXTENDS DesktopProperties, TLC

Symmetry == Permutations(Users)
=============================================================================
