SPECIFICATION Spec
CONSTANTS
  playA = playA
  playB = playB
  api = api
  session = session
  Services <- MCServices
  MaxEvents = 1
  MaxLosses = 1
  MaxStops = 1
INVARIANT LineProven
PROPERTY ReadyIsTold
CHECK_DEADLOCK FALSE
