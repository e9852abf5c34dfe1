SPECIFICATION Spec
CONSTANTS
  k1 = k1
  k2 = k2
  t1 = t1
  t2 = t2
  gu = gu
  bot = bot
  Keys = {k1, k2}
  Aliases = {gu, bot}
  Members <- Participants
  KindOf <- Kinds
  NoAlias = NoAlias
  NoRow = NoRow
  Tasks = {t1, t2}
  MaxId = 2
  Cap = 1
SYMMETRY Symmetric
CONSTRAINT OneConcern
INVARIANT NoOrphanSnapshot
INVARIANT NewestKept
INVARIANT OpensAsShown
 
CHECK_DEADLOCK FALSE
