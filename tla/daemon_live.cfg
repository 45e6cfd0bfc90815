SPECIFICATION LiveSpec
CONSTANTS
  Ids = {i1}
  EventCap = 4
  CommandCap = 4
  Load = 2
  MaxDue = 2
  MaxDrops = 2
  Prompt = TRUE
  Signals = FALSE
PROPERTIES
  NoFalseAlarm
  DeadLinkNoticed
  AutoReconnects
  ConnectReportsStatus
  CommandsAnswered
