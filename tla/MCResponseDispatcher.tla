------------------------ MODULE MCResponseDispatcher ------------------------
(***************************************************************************)
(* Two threads that exchange frames over one dispatcher, for TLC.          *)
(***************************************************************************)
EXTENDS ResponseDispatcher

TwoThreads == {1, 2}
=============================================================================
