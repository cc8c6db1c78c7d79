-------------------------- MODULE MCClientSession --------------------------
(***************************************************************************)
(* Instances of ClientSession for TLC.                                     *)
(***************************************************************************)
EXTENDS ClientSession

Offer(dmp, readable, actions) == [dmp |-> dmp, readable |-> readable, actions |-> actions]
SomeDevices == {Offer(TRUE, TRUE, TRUE), Offer(FALSE, TRUE, TRUE),
                Offer(FALSE, FALSE, TRUE), Offer(FALSE, FALSE, FALSE)}
EveryScript == {"command", "rename", "reboot", "logs", "reconnect", "unload"}
=============================================================================
