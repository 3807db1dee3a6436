SPECIFICATION MCSpec
CONSTANTS
  a1 = a1
  a2 = a2
  a3 = a3
  r1 = r1
  r2 = r2
  None = None
  Observer = Observer
  Actors <- MCActors
  Rooms <- MCRooms
  Cards <- MCCards
  MaxNumber = 15
  MaxMatches = 4
  MaxWatches = 2
INVARIANTS TwoPerRoom FinishedOnce
PROPERTY PlayedOut
CHECK_DEADLOCK FALSE
