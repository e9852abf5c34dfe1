SPECIFICATION FairSpec
CONSTANTS
  general = general
  talk = talk
  p1 = p1
  p2 = p2
  Channels = {general, talk}
  General = general
  Channel = talk
  Posts = {p1, p2}
  Early = {p1}
  Slots = 2
  None = None
  MaxCalls = 3
INVARIANT CommentsNumbered
PROPERTY BoardKept
PROPERTY ThreadSettles
CHECK_DEADLOCK FALSE
