SPECIFICATION FairSpec
CONSTANTS
  t1 = t1
  t2 = t2
  s1 = s1
  s2 = s2
  a1 = a1
  a2 = a2
  Agents = {a1, a2}
  Human = Human
  Slots = {s1, s2}
  Timers = {t1, t2}
  None = None
  Limit = 1
  MaxCount = 2
INVARIANT PendingHasTimer
INVARIANT RunBounded
PROPERTY PauseEnds
CHECK_DEADLOCK FALSE
