SPECIFICATION LifecycleSpec
SYMMETRY MCSymmetry
CONSTANTS
  Rules = {r1, r2}
  Contents = {c1, c2}
  Blank = Blank
  Humans = {u1, u2}
  Tokens = {}
  Unknown = Unknown
  Policies = {v1, v2}
  Threads = {t1}
  Owners = {o1, o2}
  NoOwner = NoOwner
  Slots = 1
  ClaimTTL = 2
  MaxRun = 1
  RuleLimit = 2
  RevisionLimit = 3
  RunLimit = 2
  EventLimit = 8
  MaxClock = 0
INVARIANTS
  FrozenIsWorking
  TwoPersonPublication
  PageCurrent
  MirrorsPublished
PROPERTIES
  CatalogKept
