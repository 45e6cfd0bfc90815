SPECIFICATION LiveSpec
CONSTANTS
  Ids = {i1}
  EventCap = 2
  CommandCap = 2
  Load = 0
  MaxDue = 1
  MaxDrops = 5
  Prompt = TRUE
  Signals = FALSE
PROPERTIES
  AutoReconnects
CHECK_DEADLOCK FALSE
