SPECIFICATION MCSpec
CONSTANTS
  rA = rA
  rB = rB
  e1 = e1
  e2 = e2
  c1 = c1
  c2 = c2
  Rooms = {rA, rB}
  Saved = {e1, e2}
  Local = {e2}
  Nothing = Nothing
  Calls = {c1, c2}
  MaxLine = 2
  MaxTimers = 2
SYMMETRY Symmetric
INVARIANT EachLineOnce
INVARIANT DeleteAsConfirmed
PROPERTY PartialNeverSilent
CHECK_DEADLOCK FALSE
