--------------------------- MODULE MCEventRecord ---------------------------
(* An instance of EventRecord.                                             *)
EXTENDS EventRecord
=============================================================================
