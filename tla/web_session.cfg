SPECIFICATION Spec
CONSTANTS
  Idle = Idle
  Denied = Denied
  Failed = Failed
  Done = Done
  Empty = Empty
  Lists = {Empty, pc}
  Polls = {p1, p2}
  Refreshes = {f1, f2}
  Changes = 3
PROPERTIES
  EndedIsNoticed
  ListConverges
CHECK_DEADLOCK FALSE
