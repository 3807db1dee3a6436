SPECIFICATION MCSpec
CONSTANTS
  r1 = r1
  r2 = r2
  Requests = {r1}
  Delivery <- MCDistinct
  Last = 2
  None = None
  Sessions = {}
  NoSession = NoSession
PROPERTY SettledIsFollowedUp
CHECK_DEADLOCK FALSE
