SPECIFICATION InputSpec
CONSTANTS
  MaxReliable = 1
  MaxHandlers = 2
INVARIANT DetachReleases
CHECK_DEADLOCK FALSE
