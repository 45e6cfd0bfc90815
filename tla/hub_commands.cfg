SPECIFICATION LiveSpec
CONSTANTS
  Sessions = {s1}
  Requests = {r1, r2}
  Sweeper = Sweeper
  Pong = Pong
  None = None
  Cap = 1
  Workers = 3
INVARIANTS
  TypeOK
  RefusedIsNotExecuted
  AcceptedIsDelivered
  WaitsForTheRegistered
PROPERTIES
  RequestsAnswered
  DeadDeviceLeaves
  SweeperKeepsGoing
CHECK_DEADLOCK FALSE
