----------------------- MODULE MCMeasurementsManager -----------------------
(* Instances of MeasurementsManager for TLC. *)
EXTENDS MeasurementsManager
=============================================================================
