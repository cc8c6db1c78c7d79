-------------------------- MODULE MCPositionTarget --------------------------
(***************************************************************************)
(* Instances of PositionTarget for TLC.                                    *)
(***************************************************************************)
EXTENDS PositionTarget

\* The cover, and the button that reconnects; set-position to an end or to where
\* the gate is gives the cover's other commands.
CoverAndReconnect ==
    [c \in {"cover", "buttons"} |-> IF c = "cover" THEN {"position"} ELSE {"cancel"}]

AnyRest == {"stopped", "partially_open"}
=============================================================================
