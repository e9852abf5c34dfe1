----------------------------- MODULE MCRoomStore -----------------------------
(* Instances of RoomStore for TLC. *)
EXTENDS RoomStore, TLC

Symmetric == Permutations(Requests)
==============================================================================
