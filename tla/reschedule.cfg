SPECIFICATION ReliableSpec
SYMMETRY MCSymmetry
CONSTANTS
  Schedulers = {s1, s2}
  Callers = {q1}
  Nobody = Nobody
  Intervals = {1, 2}
  LeaseTTL = 2
  RenewWithin = 1
  Absent = Absent
  MaxClock = 5
  MaxRecords = 2
  MaxChoices = 2
INVARIANTS
  ScheduleKept
