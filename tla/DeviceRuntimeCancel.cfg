SPECIFICATION Spec
CONSTANTS
  Avds = {a, b}
  NoAvd = NoAvd
  Ports = {5554, 5556}
  NoPort = NoPort
  Demand <- MCDemand
  MaxStarts = 1
  MemoryBudget = 2
  GpuSlots = NoLimit
  NoLimit = NoLimit
  Scanners = {"list"}
  Sdks = {s1}
  NoSdk = NoSdk
  MaxEngines = 2
  MaxRequests = 2
  MaxGeneration = 4
  MaxSessions = 2
SYMMETRY MCSymmetry
INVARIANTS
  ClaimedByStart
CHECK_DEADLOCK FALSE
