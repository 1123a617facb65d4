SPECIFICATION EngineSpec
CONSTANTS
  Pids = {p1, p2, p3, p4}
  NoPid = NoPid
  MaxAttempts = 1
  MaxReuses = 0
INVARIANT FailedLaunchLeavesNoEngine
CHECK_DEADLOCK FALSE
