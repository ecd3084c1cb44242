------------------------------ MODULE MCOwnerApp ------------------------------
(* Instances of OwnerApp for TLC.                                            *)
EXTENDS OwnerApp

CONSTANTS t1, t2
=============================================================================
