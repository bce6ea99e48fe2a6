SPECIFICATION ServiceSpec
CHECK_DEADLOCK FALSE
CONSTANTS
  Schedulers = {s1, s2}
  Callers = {q1}
  Nobody = Nobody
  Intervals = {1}
  LeaseTTL = 2
  RenewWithin = 1
  Absent = Absent
  MaxClock = 4
  MaxRecords = 1
  MaxChoices = 1
INVARIANTS
  RenewedIsHeld
  NoticeOnce
  ServedOnce
PROPERTIES
  DueServed
