SPECIFICATION Spec
CONSTANTS
  Devices = {d1}
  Sessions = {s1, s2, s3}
  Sweeper = Sweeper
  Statuses = {on, off}
  NoStatus = NoStatus
  LanIps = {ip1}
  NoIp = NoIp
  Absent = Absent
  Persisting = TRUE
  HomeKit = TRUE
  IoErrors = FALSE
  Overlap = FALSE
SYMMETRY Symmetry
INVARIANTS
  ListedOnce
  FileIsCurrent
PROPERTIES
  ImplementsTable
  TakesOwnSession
