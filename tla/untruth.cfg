SPECIFICATION UntruthSpec
SYMMETRY MCSymmetry
CHECK_DEADLOCK FALSE
CONSTANTS
  n1 = n1
  n2 = n2
  n3 = n3
  t1 = t1
  t2 = t2
  Texts = {t1, t2}
  Targets = {g1}
  CaseLimit = 1
  EventLimit = 3
  NoteLimit = 1
  EvidenceLimit = 1
  ReferenceLimit = 1
  SnapshotLimit = 1
  Names = {n1, n2}
  Processes = {w1, w2}
  NoOne = NoOne
  NoName = NoName
  Never = Never
  Roles = {"admin", "analyst", "viewer"}
  Limits = {1, 2}
  SessionTTL = 1
  TokenTTLs = {1, Never}
  WindowLength = 2
  MaxLedger = 3
  MaxClock = 4
  MaxAccounts = 3
  MaxSessions = 2
  MaxTokens = 2
  MaxVersion = 2
INVARIANTS
  TruthfulEntries
