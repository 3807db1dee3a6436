SPECIFICATION StoreSpec
CONSTANTS
  Writers = {p1, p2, p3}
  Rounds = 2
  NoToken = NoToken
PROPERTY SerializedUpdates
CHECK_DEADLOCK FALSE
