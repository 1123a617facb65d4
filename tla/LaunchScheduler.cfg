SPECIFICATION Spec
CONSTANTS
  Keys = {a, b, c}
  Demands <- MCDemands
  MaxStarts = 2
  MemoryBudget = 5
  GpuSlots = 1
  NoLimit = NoLimit
  NoKey = NoKey
  MaxRequests = 3
SYMMETRY KeySymmetry
INVARIANTS
  HandlesOwnAllocations
  QueueIsOrderly
  StartLimitHolds
  NoLostWakeup
PROPERTIES
  AdmissionFitsBudget
CHECK_DEADLOCK FALSE
