SPECIFICATION MCSpec
CONSTANTS
  r1 = r1
  r2 = r2
  Requests = {r1, r2}
  Delivery <- MCDistinct
  Last = 2
  None = None
  Sessions = {s1, s2}
  NoSession = NoSession
INVARIANTS
  CourseLegal
  DrivenOnce
  SubscriberIsTold
PROPERTY DeliveriesEnd
CHECK_DEADLOCK FALSE
