----------------------------- MODULE MCLoopGuard -----------------------------
(* Instances of LoopGuard for TLC. *)
EXTENDS LoopGuard, TLC

Symmetric == Permutations(Agents) \cup Permutations(Slots) \cup Permutations(Timers)
==============================================================================
