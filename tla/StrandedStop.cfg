SPECIFICATION MCFairSpec
CONSTANTS
  r1 = r1
  r2 = r2
  r3 = r3
  s1 = s1
  s2 = s2
  NoRun = NoRun
  Runs = {r1}
  Slices = {s1}
  Entries = {"start"}
  Commands = {"stop"}
  Outcomes = {"no_progress"}
  MaxRequests = 2
  MaxRetries = 1
  MaxCrashes = 0
  LateHeartbeats = FALSE
PROPERTIES
  AcceptedStopLands
CHECK_DEADLOCK FALSE
