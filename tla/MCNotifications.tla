--------------------------- MODULE MCNotifications ---------------------------
(* Notifications for TLC.                                                     *)
EXTENDS Notifications

MCKinds == {[heir |-> TRUE, mail |-> b] : b \in BOOLEAN}
=============================================================================
