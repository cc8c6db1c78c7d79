--------------------------- MODULE MCStatusStream ---------------------------
(***************************************************************************)
(* Instances of StatusStream for TLC.                                      *)
(***************************************************************************)
EXTENDS StatusStream

\* One that reports no position, one that may, one whose raw position is scaled; one
\* with an encoder always reports what the second may.
Controllers == {"door", "live", "scalar"}
=============================================================================
