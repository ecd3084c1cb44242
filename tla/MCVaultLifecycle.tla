-------------------------- MODULE MCVaultLifecycle --------------------------
(* Instances of VaultLifecycle for TLC: the claim requests are model values. *)
EXTENDS VaultLifecycle

CONSTANTS r1, r2
=============================================================================
