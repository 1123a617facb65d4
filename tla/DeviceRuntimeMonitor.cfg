SPECIFICATION Spec
CONSTANTS
  Avds = {a, b}
  NoAvd = NoAvd
  Ports = {5554, 5556}
  NoPort = NoPort
  Demand <- MCDemand
  MaxStarts = 1
  MemoryBudget = 1
  GpuSlots = NoLimit
  NoLimit = NoLimit
  Scanners = {"monitor"}
  Sdks = {s1}
  NoSdk = NoSdk
  MaxEngines = 2
  MaxRequests = 2
  MaxGeneration = 4
  MaxSessions = 2
SYMMETRY MCSymmetry
PROPERTIES
  AdoptedCounted
CHECK_DEADLOCK FALSE
