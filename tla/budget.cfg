SPECIFICATION BudgetSpec
SYMMETRY MCSymmetry
CONSTANTS
  m1 = m1
  p1 = p1
  p2 = p2
  p3 = p3
  a1 = a1
  a2 = a2
  a3 = a3
  Monitors = {m1}
  Profiles = {p2}
  Addresses = {a1, a2}
  HostMonitors = {m1}
  MonitorTarget <- MCMonitorTarget
  Targets <- MCTargets
  SixFamily = {}
  Workers = {w1, w2}
  Owners = {o1, o2, o3}
  NoOwner = NoOwner
  Users = {u1}
  System = System
  Keys = {k1}
  NoKey = NoKey
  Outcomes = {"up"}
  Thresholds = {1}
  MaxRunning = 2
  QueueLimit = 2
  EnabledLimit = 2
  RetainedLimit = 9
  PruneBatch = 1
  LeaseTTL = 3
  WindowLength = 2
  ManualGap = 9
  Interval = 1
  RetryDelay = 2
  DeferDelay = 1
  RunLimit = 3
  ChunkSize = 1
  Ports = 1
  DnsCost = 1
  ResolveNames = TRUE
  Rate <- MCRate1
  MaxProbe = 1
  MaxWait = 1
  MaxClock = 3
  MaxJobs = 2
  MaxGen = 2
  Policies = {pol1}
  EmptyPolicy = EmptyPolicy
INVARIANTS
  PaidContacts
