SPECIFICATION PoolSpec
CONSTANTS
  Keys = {a, b, c}
  NoKey = NoKey
  Demands <- MCDemands
  MaxStarts = 1
  MemoryBudget = NoLimit
  GpuSlots = NoLimit
  NoLimit = NoLimit
  MaxRequests = 3
  PoolThreads = 2
PROPERTY BootedStartsFinish
CHECK_DEADLOCK FALSE
