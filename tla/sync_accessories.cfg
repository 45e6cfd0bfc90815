SPECIFICATION Spec
CONSTANTS
  Null = Null
  Idle = Idle
  pc = pc
  nas = nas
  hyphens = hyphens
  plain = plain
  a = a
  b = b
  lock = lock
  unlock = unlock
  locked = locked
  Uuids = {pc, nas}
  Forms = {hyphens, plain}
  Names = {a, b}
  Scripts = {lock, unlock, locked}
  Configs <- MCConfigs
  Polls = {p1, p2}
  Changes = 2
INVARIANTS
  AllSwitchesListed
  HandlersBacked
PROPERTIES
  StaysPaired
  ComesInSync
