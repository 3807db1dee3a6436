\* Two players, two API processes, two mission processes of which one may die.
SPECIFICATION MCSpec
CONSTANTS
  s1 = s1  s2 = s2  s3 = s3  a1 = a1  a2 = a2
  Alice = alice  Bob = bob  OnA = s1  OnB = s2  Again = s3
  Players = {alice, bob}
  Sessions = {s1, s2, s3}
  Apis = {a1, a2}
  Missions = {ma, mb}
  Facts <- ScriptFacts
  SessionApi <- MCSessionApi
  Operations = {"deactivate", "first_hunt"}
  UnpublishedCounts = {3}
  MaxRequests = 4
  MaxCrashes = 1
  None = None
  Gone = Gone
INVARIANTS StreamsLegal ProgressEarned ToldOnce FactsKept ScenarioHolds
SYMMETRY Alike
CHECK_DEADLOCK FALSE
