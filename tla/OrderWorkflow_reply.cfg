SPECIFICATION Spec
CONSTANTS
  Keys = {k1}
  NoKey = NoKey
  Carts <- MCCarts
  Skus <- MCSkus
  Lines <- MCLines
  Stock <- MCStock
  Methods <- MCMethods
  Authorizes <- MCAuthorizes
  MaxSequence = 1
  None = None
  Calls = {c1, c2, c3}
  Free = Free
SYMMETRY MCSymmetry
INVARIANT StartReplyIsStarted
CHECK_DEADLOCK FALSE
