------------------------- MODULE MCConnectionRouter -------------------------
(***************************************************************************)
(* Instances of ConnectionRouter for TLC: the coordinator's poll alone,    *)
(* which also issues the operations of the other entities between polls,   *)
(* and a poll that overlaps a command of another entity.                   *)
(***************************************************************************)
EXTENDS ConnectionRouter, TLC

CONSTANTS poll, command

OneCaller == {poll}
TwoCallers == {poll, command}

EveryKind == (poll :> {"read", "info", "write", "reconnect"})
PollAndCommand == (poll :> {"read"} @@ command :> {"write"})

AllModes == {"local_only", "local_with_cloud_fallback", "cloud_only"}
FallbackOnly == {"local_with_cloud_fallback"}
=============================================================================
