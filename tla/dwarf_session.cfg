SPECIFICATION DwarfFairSpec
CONSTANTS
  v = v
  Values = {v}
  NoValue = NoValue
  MaxFiles = 2
  MaxCalls = 2
  MaxOnWire = 2
  PageSize = 1
  SeedSize = 1
  Backlog = 2
INVARIANTS
  DwarfTypeOK
  DialTruthful
PROPERTIES
  FilesAreAnnounced
CHECK_DEADLOCK FALSE
