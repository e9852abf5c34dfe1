------------------------------- MODULE MCTunnel -------------------------------
EXTENDS Tunnel, TLC

Symmetric == Permutations(Requests \ Waits) \cup Permutations(Sessions)
==============================================================================
