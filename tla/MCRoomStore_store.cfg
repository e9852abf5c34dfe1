SPECIFICATION Spec
CONSTANTS
  r1 = r1
  r2 = r2
  r3 = r3
  k1 = k1
  Requests = {r1, r2, r3}
  Keys = {k1}
  NoKey = NoKey
  Nobody = Nobody
  MaxMessages = 2
  Interrupts = TRUE
  Recovery = TRUE
SYMMETRY Symmetric
 
 
INVARIANT PostedOnce
PROPERTY ClosedStays
 
CHECK_DEADLOCK FALSE
