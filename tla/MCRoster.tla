------------------------------ MODULE MCRoster ------------------------------
(* Instances of Roster for TLC. *)
EXTENDS Roster, TLC

\* Nothing is declared, or that a watcher may wake the participant.
OfferSets == {{}, {1}}

Symmetric == Permutations(Requests) \cup Permutations(Sessions)
=============================================================================
