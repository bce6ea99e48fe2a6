SPECIFICATION TrafficSpec
SYMMETRY MCSymmetry
CONSTANTS
  m1 = m1
  p1 = p1
  p2 = p2
  p3 = p3
  a1 = a1
  a2 = a2
  a3 = a3
  Monitors = {m1}
  Profiles = {p1, p2, p3}
  Addresses = {a1, a2, a3}
  HostMonitors = {}
  MonitorTarget <- MCMonitorTarget
  Targets <- MCTargets
  SixFamily = {a3}
  Workers = {w1, w2}
  Owners = {o1, o2, o3}
  NoOwner = NoOwner
  Users = {u1}
  System = System
  Keys = {k1, k2}
  NoKey = NoKey
  Outcomes = {"up"}
  Thresholds = {1}
  MaxRunning = 2
  QueueLimit = 3
  EnabledLimit = 2
  RetainedLimit = 9
  PruneBatch = 1
  LeaseTTL = 2
  WindowLength = 9
  ManualGap = 1
  Interval = 1
  RetryDelay = 2
  DeferDelay = 1
  RunLimit = 3
  ChunkSize = 2
  Ports = 1
  DnsCost = 1
  ResolveNames = FALSE
  Rate <- MCRate9
  MaxProbe = 1
  MaxWait = 0
  MaxClock = 4
  MaxJobs = 3
  MaxGen = 2
  Policies = {pol1}
  EmptyPolicy = EmptyPolicy
INVARIANTS
  NoSharedContact
  OneOutstanding
  SharedSlots
  RunCoverage
  ManualSpacing
