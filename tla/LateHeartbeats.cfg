SPECIFICATION MCSpec
CONSTANTS
  r1 = r1
  r2 = r2
  r3 = r3
  s1 = s1
  s2 = s2
  NoRun = NoRun
  Runs = {r1, r2}
  Slices = {s1, s2}
  Entries = {"start", "resume"}
  Commands = {"stop"}
  Outcomes = {"throw"}
  MaxRequests = 1
  MaxRetries = 0
  MaxCrashes = 0
  LateHeartbeats = TRUE
INVARIANTS
  OneActiveRun
  SessionStopMeansNoRun
PROPERTIES
  TerminalFinal
  ParkConsumesStop
  PromiseKept
SYMMETRY Symmetry
CHECK_DEADLOCK FALSE
