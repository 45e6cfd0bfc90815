SPECIFICATION LiveSpec
CONSTANTS
  Devices = {d1}
  Sessions = {s1, s2}
  Sweeper = Sweeper
  Statuses = {}
  NoStatus = NoStatus
  LanIps = {}
  NoIp = NoIp
  Absent = Absent
  Persisting = FALSE
  HomeKit = TRUE
  IoErrors = TRUE
  Overlap = TRUE
INVARIANTS
  TypeOK
  OnlineHasHandler
  NeverForgotten
PROPERTIES
  DeadLinkLeaves
  
