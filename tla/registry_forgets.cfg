SPECIFICATION Spec
CONSTANTS
  Devices = {d1}
  Sessions = {s1, s2}
  Sweeper = Sweeper
  Statuses = {on, off}
  NoStatus = NoStatus
  LanIps = {}
  NoIp = NoIp
  Absent = Absent
  Persisting = TRUE
  HomeKit = FALSE
  IoErrors = FALSE
  Overlap = FALSE
SYMMETRY Symmetry
INVARIANT
  EveryKnownPersisted
