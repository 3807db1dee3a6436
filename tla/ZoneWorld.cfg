SPECIFICATION Spec
CONSTANTS
  n1 = n1
  n2 = n2
  c1 = c1
  c2 = c2
  p = p
  b = b
  None = None
  Nodes <- MCNodes
  Consoles <- MCConsoles
  Humans <- MCHumans
  Bots <- MCBots
  World = 4
  Split = 2
  MaxStep = 1
  BotStep = 1
  Spawn <- MCSpawn
  Fixtures <- MCFixtures
  NodeOf <- MCNodeOf
  MaxSettings = 2
  MaxReports = 3
  MaxRestarts = 1
  MaxDeeds = 3
  MaxRepeats = 1
  Places <- MCPlaces
  Beside <- MCBeside
  Expiry = 3
  MaxTicks = 4
  MaxOnWay = 2
  MaxCreated = 1
  Capacity <- MCCapacity
  RetryAttempts = 5
  ReadyAttempts = 2
  MaxFailures = 1
  MaxDeaths = 1
  Gone = Gone
INVARIANTS ClaimsSettle MaintenanceSettles LossIsTold InOneZone ToldOnce HeardAgain
PROPERTY StepsLegal
CHECK_DEADLOCK FALSE
