SPECIFICATION MCFairSpec
CONSTANTS
  c1 = c1
  c2 = c2
  u1 = u1
  h1 = h1
  s1 = s1
  Cards = {c1, c2}
  Callers = {u1}
  Hooks = {h1}
  Sweeps = {s1}
  MaxTrouble = 1
INVARIANTS
  DispatchTypeOK
  OneDispatcher
  ResumeFollowsResult
  MissionStopIsABarrier
PROPERTIES
  KeepsPromise
  ApprovedIsDelivered
CHECK_DEADLOCK FALSE
