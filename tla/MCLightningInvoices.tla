------------------------ MODULE MCLightningInvoices ------------------------
(* Instances of LightningInvoices for TLC.  Vaults and invoices are          *)
(* interchangeable.                                                          *)
EXTENDS LightningInvoices, TLC

CONSTANTS v1, v2, i1, i2

Interchangeable == Permutations(Vaults) \cup Permutations(Invoices)
=============================================================================
