SPECIFICATION MCSpec
CONSTANTS
  r1 = r1
  r2 = r2
  r3 = r3
  s1 = s1
  s2 = s2
  NoRun = NoRun
  Runs = {r1}
  Slices = {s1, s2}
  Entries = {"start", "preempt"}
  Commands = {}
  Outcomes = {"iteration_limit"}
  MaxRequests = 2
  MaxRetries = 1
  MaxCrashes = 0
  LateHeartbeats = FALSE
INVARIANTS
  SleeperHasWake
CHECK_DEADLOCK FALSE
