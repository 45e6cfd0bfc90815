SPECIFICATION Spec
CONSTANTS
  Ips = {a}
  Absent = Absent
  MaxRequests = 2
  Window = 3
  Lag = 1
  MaxTime = 12
INVARIANTS
  TypeOK
  AtMostTwice
  TurnedAwayForCause
CHECK_DEADLOCK FALSE
