---------------------------- MODULE MCRoomPage ----------------------------
(* Instances of RoomPage for TLC. *)
EXTENDS RoomPage, TLC

Symmetric == Permutations(Drafts)
===========================================================================
