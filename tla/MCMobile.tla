------------------------------- MODULE MCMobile -------------------------------
EXTENDS MobileOrder
=============================================================================
