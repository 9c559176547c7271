------------------------- MODULE MCIncidentDetector -------------------------
(* A small instance of the detector alone; a larger one is in MCAlarmPipeline. *)
EXTENDS IncidentDetector

OneSetting == { [pending |-> 2, clear |-> 1, reopen |-> 2, stale |-> 1] }
=============================================================================
