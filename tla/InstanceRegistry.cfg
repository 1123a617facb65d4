SPECIFICATION Spec
CONSTANTS
  Avds = {a, b}
  Ports = {5554, 5556}
  NoPort = NoPort
  Pids = {p1, p2}
  MaxGeneration = 4
  MaxSessions = 2
SYMMETRY MCSymmetry
INVARIANTS
  TypeOK
  RegistryIsConsistent
  OneCurrentCommand
  ProjectionIsQuiet
PROPERTIES
  SessionKeepsIdentity
  StartOwnsDevice
  FinishedGenerationIsFinal
CHECK_DEADLOCK FALSE
