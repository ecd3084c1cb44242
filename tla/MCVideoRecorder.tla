--------------------------- MODULE MCVideoRecorder ---------------------------
(* Instances of VideoRecorder for TLC.                                       *)
EXTENDS VideoRecorder
=============================================================================
