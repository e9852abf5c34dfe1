SPECIFICATION Spec
CONSTANTS
  d1 = d1
  Drafts = {d1}
  None = None
  PageSize = 1
  BackupSize = 2
  MaxId = 3
  MaxKeys = 2
  MaxLoads = 2
SYMMETRY Symmetric
INVARIANT TypeOK
INVARIANT RowsOnce
INVARIANT SentOnce
INVARIANT OnlyPostsSkip
INVARIANT CursorWithinRoom
CHECK_DEADLOCK FALSE
