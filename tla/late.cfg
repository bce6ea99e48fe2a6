SPECIFICATION LateSpec
SYMMETRY MCSymmetry
CONSTANTS
  Rules = {r1}
  Contents = {c1}
  Blank = Blank
  Humans = {u1, u2}
  Tokens = {}
  Unknown = Unknown
  Policies = {v1}
  Threads = {t1, t2}
  Owners = {o1, o2}
  NoOwner = NoOwner
  Slots = 1
  ClaimTTL = 2
  MaxRun = 1
  RuleLimit = 2
  RevisionLimit = 2
  RunLimit = 2
  EventLimit = 8
  MaxClock = 0
INVARIANTS
  NoLateReport
