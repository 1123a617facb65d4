SPECIFICATION ServicesSpec
CONSTANTS
  MaxReliable = 1
  MaxHandlers = 3
  MicDevices = {d1, d2}
  MicSources = {s1, s2}
  NoSource = NoSource
  MaxMicChanges = 1
  RingCapacity = 3
  PacketFrames = 2
  SampleRate = 6
  MaxBlocks = 3
  MaxWavFrames = 4
  AudioManaged = {d1, d2}
  AudioAdopted = {e1}
  Unfocused = Unfocused
  MaxPumps = 2
  MaxAudioChanges = 3
  BufferCapacity = 2
  Prebuffer = 2
  FastStart = 1
  WorkspaceAvds = {a, b}
  NoAvd = NoAvd
  Syncers = {s, t}
  MaxSessions = 3
  MaxGestures = 2
  MaxRestarts = 1
  Targets = {1, 2}
  SameName = {1, 2}
  Items = 1
  Pids = {p1, p2, p3, p4}
  NoPid = NoPid
  MaxAttempts = 2
  MaxReuses = 1
  Processes = {1, 2}
  Keys = {1, 2}
  NoProcess = 0
  NoKey = 0
  MaxRunning = 2
  MaxFaults = 1
  PackageTasks = {1, 2}
  Packages = {tools, image}
  NoTask = 0
  Summed = {tools}
  Blocks = 2
  Length <- ServerLengths
  LongestFile = 3
  CacheLimit = 3
  RetryAttempts = 2
  MaxServerChanges = 1
  MaxCrashes = 1
  MaxClicks = 2
  AvdNames = {n1}
  AvdCreators = {c1, c2}
  OtherTool = tool
  Nobody = nobody
  MaxToolSteps = 3
  MaxAvdCrashes = 2
VIEW ServicesView
INVARIANTS
  ServicesTypeOK
  GuestFollowsInput
  MicrophoneIsTurned
  SourcesAreExact
  SoundIsHandedOver
  OperationsAreClean
  TrackedEnginesEnd
  SessionKeepsItsIdentity
  InstallsWhatWasChecked
  CacheKeepsItsLimit
  AvdsAreWhole
PROPERTIES
  ChoicesAreKept
  OthersFilesAreKept
  OnlyAnExitLeaks
  WholeCopyIsKept
CHECK_DEADLOCK FALSE
