SPECIFICATION QueueSpec
SYMMETRY MCSymmetry
CONSTANTS
  m1 = m1
  p1 = p1
  p2 = p2
  p3 = p3
  a1 = a1
  a2 = a2
  a3 = a3
  Monitors = {m1}
  Profiles = {p1}
  Addresses = {a1}
  HostMonitors = {}
  MonitorTarget <- MCMonitorTarget
  Targets <- MCTargets
  SixFamily = {}
  Workers = {w1, w2}
  Owners = {o1, o2}
  NoOwner = NoOwner
  Users = {u1}
  System = System
  Keys = {k1}
  NoKey = NoKey
  Outcomes = {"up", "down", "unknown"}
  Thresholds = {2}
  MaxRunning = 2
  QueueLimit = 1
  EnabledLimit = 2
  RetainedLimit = 2
  PruneBatch = 1
  LeaseTTL = 2
  WindowLength = 9
  ManualGap = 1
  Interval = 1
  RetryDelay = 2
  DeferDelay = 1
  RunLimit = 4
  ChunkSize = 1
  Ports = 1
  DnsCost = 1
  ResolveNames = FALSE
  Rate <- MCRate9
  MaxProbe = 1
  MaxWait = 0
  MaxClock = 3
  MaxJobs = 3
  MaxGen = 2
  Policies = {pol1, EmptyPolicy}
  EmptyPolicy = EmptyPolicy
INVARIANTS
  CurrentMeasurement
  FailureStreak
  IdempotentRequests
PROPERTIES
  LifecycleKept
