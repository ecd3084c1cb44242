---------------------------- MODULE MCSetupWizard ----------------------------
(* Instances of SetupWizard for TLC.                                         *)
EXTENDS SetupWizard

CONSTANTS good, poor, k1, k2
=============================================================================
