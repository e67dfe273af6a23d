SPECIFICATION MCFairSpec
CONSTANTS
  r1 = r1
  r2 = r2
  r3 = r3
  s1 = s1
  s2 = s2
  NoRun = NoRun
  Runs = {r1}
  Slices = {s1, s2}
  Entries = {"start", "resume", "wake"}
  Commands = {"stop"}
  Outcomes = {"throw", "iteration_limit"}
  MaxRequests = 1
  MaxRetries = 1
  MaxCrashes = 1
  LateHeartbeats = FALSE
PROPERTIES
  StopLands
  OrphanResolved
  AbortedSliceEnds
CHECK_DEADLOCK FALSE
