---------------------------- MODULE MCEntrySetup ----------------------------
(* Two accessories in a LAN, with entries, flows, moves and a restart. *)
EXTENDS EntrySetup

CONSTANTS m1, m2, a, b

TwoIds == {m1, m2}
TwoAddresses == {a, b}
AnyLegacy == TwoIds \cup {"no mac"}
Interchangeable == Permutations(TwoIds) \cup Permutations(TwoAddresses)
=============================================================================
