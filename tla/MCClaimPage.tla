---------------------------- MODULE MCClaimPage ----------------------------
(* Instances of ClaimPage for TLC.                                          *)
EXTENDS ClaimPage

CONSTANTS t1, a1, a2, slip
=============================================================================
