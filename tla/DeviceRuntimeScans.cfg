SPECIFICATION Spec
CONSTANTS
  Avds = {a, b}
  NoAvd = NoAvd
  Ports = {5554}
  NoPort = NoPort
  Demand <- MCDemand
  MaxStarts = 1
  MemoryBudget = 2
  GpuSlots = NoLimit
  NoLimit = NoLimit
  Scanners = {"list"}
  Sdks = {s1, s2}
  NoSdk = NoSdk
  MaxEngines = 2
  MaxRequests = 2
  MaxGeneration = 3
  MaxSessions = 2
SYMMETRY MCSymmetry
INVARIANTS
  RuntimeIsSound
PROPERTIES
  ManagedEnginesCounted
  SessionsOutliveEngines
  LaunchesAreCurrent
CHECK_DEADLOCK FALSE
