SPECIFICATION Spec
CONSTANTS
  r1 = r1
  r2 = r2
  r3 = r3
  s1 = s1
  Requests = {r1, r2, r3}
  Waits = {r1}
  Sessions = {s1}
  Nobody = Nobody
  Lost = Lost
  Limit = 2
  WaitLimit = 1
  Concurrency = 2
  Quota = 0
  Restarts = TRUE
SYMMETRY Symmetric
INVARIANT RunAtMostOnce
INVARIANT TurnedAwayNeverRan
INVARIANT GuardsBalanced
CHECK_DEADLOCK FALSE
