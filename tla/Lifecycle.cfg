SPECIFICATION MCSpec
CONSTANTS
  r1 = r1
  r2 = r2
  r3 = r3
  s1 = s1
  s2 = s2
  NoRun = NoRun
  Runs = {r1, r2}
  Slices = {s1}
  Entries = {"start", "recover", "resume", "preempt"}
  Commands = {"pause", "stop", "edit", "accept"}
  Outcomes = {"mutate", "defer", "plan", "throw", "max_loss_hit"}
  MaxRequests = 1
  MaxRetries = 1
  MaxCrashes = 0
  LateHeartbeats = FALSE
INVARIANTS
  MissionAgrees
  PlanGate
SYMMETRY Symmetry
CHECK_DEADLOCK FALSE
