SPECIFICATION LiveSpec
CONSTANTS
  Saves = {w1, w2, w3}
  NoFile = NoFile
  NoOne = NoOne
  Partial = Partial
INVARIANTS
  TypeOK
  NeverTorn
  LastAskedWins
PROPERTIES
  ImplementsFile
  EverySaveReturns
