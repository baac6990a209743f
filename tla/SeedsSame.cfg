SPECIFICATION Spec
CONSTANTS
  Runs <- MCRuns
  Replicas = {r1, r2}
  MaxSockets = 1
  SeedWords = 2
  Torn = Torn
INVARIANTS
  SameEveryTime
CHECK_DEADLOCK FALSE
