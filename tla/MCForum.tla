------------------------------- MODULE MCForum -------------------------------
(* Instances of Forum for TLC. *)
EXTENDS Forum
==============================================================================
