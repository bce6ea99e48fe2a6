SPECIFICATION CapacitySpec
SYMMETRY MCSymmetry
CHECK_DEADLOCK FALSE
CONSTANTS
  Rules = {r1}
  Contents = {c1}
  Blank = Blank
  Humans = {u1}
  Tokens = {}
  Unknown = Unknown
  Policies = {v1}
  Threads = {t1, t2, t3}
  Owners = {o1, o2, o3, o4}
  NoOwner = NoOwner
  Slots = 2
  ClaimTTL = 2
  MaxRun = 1
  RuleLimit = 1
  RevisionLimit = 3
  RunLimit = 1
  EventLimit = 5
  MaxClock = 4
INVARIANTS
  ProcessBound
