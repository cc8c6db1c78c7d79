------------------------ MODULE MCCalibrationRoutine ------------------------
(* A small instance of CalibrationRoutine: a gate of six units, one target. *)
EXTENDS CalibrationRoutine

MCTargets == <<3>>
=============================================================================
