SPECIFICATION ProgressSpec
CONSTANTS
  Keys = {a, b}
  NoKey = NoKey
  Demands <- MCDemands
  MaxStarts = 1
  MemoryBudget = 2
  GpuSlots = NoLimit
  NoLimit = NoLimit
  MaxRequests = 3
  PoolThreads = 2
  Viewports = {v1}
  MaxFiles = 2
  MaxFrames = 2
  FrameSizes = {1, 2}
  Attempts = 2
  MaxFileChanges = 4
  Pipes = {out, err}
  ChunkSizes = {1, 4}
  LogFileLimit = 4
  ChannelCapacity = 1
  MaxChunks = 3
INVARIANTS
  ProgressTypeOK
  NoReportIsForgotten
  NothingIsShownTwice
PROPERTIES
  ImplementsFifo
  EveryWaiterLeavesQueue
  TasksFinish
  LastFrameIsShown
  OutputIsTaken
CHECK_DEADLOCK FALSE
