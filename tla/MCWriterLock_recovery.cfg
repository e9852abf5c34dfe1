SPECIFICATION FairLockSpec
CONSTANTS
  c1 = c1
  c2 = c2
  c3 = c3
  Callers = {c1, c2, c3}
  Pids = {c1, c2, c3}
  PidOf <- OwnProcess
  CrashAt <- AnyCrashAt
  StallAt <- AnyStallAt
  LateVerdict = TRUE
  Empty = Empty
  NoFile = NoFile
PROPERTY DeadHolderReclaimed
