SPECIFICATION MCSpec
CONSTANTS
  v1 = v1
  v2 = v2
  NoValue = NoValue
  Values <- TwoValues
  Kinds <- AllKinds
  MaxRequests = 2
  MaxAttempts = 1
INVARIANTS
  TypeOK
  LastRequestedWins
PROPERTIES
  RevertIsFinal
  EntriesSettle
