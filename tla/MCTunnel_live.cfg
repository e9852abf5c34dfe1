SPECIFICATION FairSpec
CONSTANTS
  r1 = r1
  s1 = s1
  s2 = s2
  Requests = {r1}
  Waits = {r1}
  Sessions = {s1, s2}
  Nobody = Nobody
  Lost = Lost
  Limit = 1
  WaitLimit = 1
  Concurrency = 2
  Quota = 0
  Restarts = TRUE
PROPERTY ImplementsRelayCall
PROPERTY EveryRequestEnds
PROPERTY LostSessionEnds
CHECK_DEADLOCK FALSE
