---------------------------- MODULE MCWriterLock ----------------------------
(* Instances of WriterLock for TLC. *)
EXTENDS WriterLock, TLC

\* Every caller in a process of its own.
OwnProcess == [c \in Callers |-> c]

Symmetric == Permutations(Callers)

\* The windows of SafeWindows hold; everything else may crash and stall.
SafeCrashAt == LockPoints \ (Ended \cup {"stamp"} \cup Reclaiming)
SafeStallAt == LockPoints \ {"stamp", "judge", "reclaimStamp", "cleanJudge"}

\* Every program point may crash and stall.
AnyCrashAt == LockPoints \ Ended
AnyStallAt == LockPoints
=============================================================================
