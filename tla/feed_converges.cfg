SPECIFICATION Spec
CONSTANTS
  Null = Null
  Idle = Idle
  Moving = Moving
  Emitting = Emitting
  Emitters = {e1, e2}
  Polls = {p1, p2}
  Buffer = 1
  Setups <- MCSetups
  Changes = 2
PROPERTIES
  StateConverges
  TileConverges
