--------------------------- MODULE MCCalibration ---------------------------
(* A small instance of Calibration: the cover and the button platform.     *)
EXTENDS Calibration, TLC

CONSTANTS cover, button

MCOffered == (cover :> {"move", "stop"}) @@ (button :> {"calibrate", "reconnect"})
=============================================================================
