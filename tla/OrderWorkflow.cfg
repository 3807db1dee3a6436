SPECIFICATION Spec
CONSTANTS
  Keys = {k1, k2}
  NoKey = NoKey
  Carts <- MCCarts
  Skus <- MCSkus
  Lines <- MCLines
  Stock <- MCStock
  Methods <- MCMethods
  Authorizes <- MCAuthorizes
  MaxSequence = 2
  None = None
  Calls = {c1, c2}
  Free = Free
SYMMETRY MCSymmetry
INVARIANTS
  StreamsLegal
  EffectsMatchStream
  ReadModelFresh
  OneSalePerKey
PROPERTY SagaSpec
CHECK_DEADLOCK FALSE
