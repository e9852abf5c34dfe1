SPECIFICATION LockSpec
CONSTANTS
  c1 = c1
  c2 = c2
  c3 = c3
  c4 = c4
  Callers = {c1, c2, c3, c4}
  Pids = {c1, c2, c3, c4}
  PidOf <- OwnProcess
  CrashAt <- SafeCrashAt
  StallAt <- SafeStallAt
  LateVerdict = FALSE
  Empty = Empty
  NoFile = NoFile
SYMMETRY Symmetric
INVARIANT MutualExclusion
PROPERTY LiveLockKept
 
