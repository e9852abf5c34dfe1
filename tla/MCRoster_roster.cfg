SPECIFICATION Spec
CONSTANTS
  host = host
  ann = ann
  nick = nick
  s1 = s1
  s2 = s2
  r1 = r1
  r2 = r2
  Aliases = {host, ann}
  Host = host
  Nicknames = {}
  Sessions = {s1, s2}
  Offers <- OfferSets
  Ceilings = {0, 2}
  Requests = {r1, r2}
  None = None
  MaxServed = 4
  MaxInvites = 2
SYMMETRY Symmetric
INVARIANT InviteKept
INVARIANT NoDuplicateMissed
INVARIANT BriefSettled
CHECK_DEADLOCK FALSE
