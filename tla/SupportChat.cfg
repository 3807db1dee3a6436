SPECIFICATION MCSpec
CONSTANTS
  a1 = a1
  a2 = a2
  c1 = c1
  c2 = c2
  c3 = c3
  Agents = {a1, a2}
  Conversations = {c1, c2, c3}
  Capacity = 2
  None = None
  Customer = Customer
  MaxMessages = 4
  MaxRejoins = 1
  MaxSessions = 2
  First = c1
  Second = c2
  Third = c3
  Desk = a1
INVARIANTS
  DirectorySafe
  ReservationsHeld
  InTheKnow
PROPERTIES
  ClosedStays
  ConversationsEnd
  ScenarioHolds
CHECK_DEADLOCK FALSE
