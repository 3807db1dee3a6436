SPECIFICATION MCSpec
CONSTANTS
  Keys = {k1}
  NoKey = NoKey
  Carts <- MCCarts
  Skus <- MCSkus
  Lines <- MCLines
  Stock <- MCStock
  Methods <- MCMethods
  Authorizes <- MCAuthorizes
  MaxSequence = 1
  None = None
  Calls = {c1, c2}
  Free = Free
  Processes = {wa, wb}
  MaxRequests = 2
  MaxFaults = 1
INVARIANT ReplayedOnce
PROPERTY EveryOrderEnds
CHECK_DEADLOCK FALSE
