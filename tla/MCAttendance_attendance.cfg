SPECIFICATION FairSpec
CONSTANTS
  c1 = c1
  p1 = p1
  p2 = p2
  Clients = {c1}
  Posters = {p1, p2}
  MaxLines = 3
  Losses = TRUE
  Direct = TRUE
INVARIANT AtMostOnce
INVARIANT NothingSkipped
PROPERTY LineArrives
PROPERTY CloseReleases
CHECK_DEADLOCK FALSE
