SPECIFICATION Spec
CONSTANTS
  Ids = {i1, i2}
  EventCap = 2
  CommandCap = 1
  Load = 3
  MaxDue = 2
  MaxDrops = 2
  Prompt = FALSE
  Signals = TRUE
SYMMETRY Symmetry
INVARIANTS
  TypeOK
  LastWord
  OneAnswer
CHECK_DEADLOCK FALSE
