SPECIFICATION MCSpec
CONSTANTS
  p1 = p1
  p2 = p2
  p3 = p3
  Players = {p1, p2, p3}
  Cells = {0, 1, 2, 3, 4}
  Lines <- MCLines
  None = None
  Wins <- MCWins
  Milestone = 2
  MaxJoins = 3
  MaxLives = 2
  X = p1
  O = p2
  Watcher = p3
  Plays <- MCPlays
INVARIANTS
  GameIsFair
  PlayersStay
  ToldTruly
PROPERTY GamesPlayOut
CHECK_DEADLOCK FALSE
