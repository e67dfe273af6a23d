SPECIFICATION MCSpec
CONSTANTS
  r1 = r1
  r2 = r2
  r3 = r3
  s1 = s1
  s2 = s2
  NoRun = NoRun
  Runs = {r1}
  Slices = {s1, s2}
  Entries = {"start", "resume", "retry", "approval", "wake"}
  Commands = {"stop", "edit", "approve"}
  Outcomes = {"approval", "mutate", "throw", "goal_reached", "iteration_limit", "no_progress"}
  MaxRequests = 2
  MaxRetries = 1
  MaxCrashes = 0
  LateHeartbeats = FALSE
INVARIANTS
  TypeOK
  AtMostOneRunner
  RunningIsDriven
  NoApprovalOfTheDead
PROPERTIES
  ReclaimSparesTheDriven
  AutoRetryIsSafe
  NoStopErased
CHECK_DEADLOCK FALSE
