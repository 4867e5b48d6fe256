SPECIFICATION FairSpec
CONSTANTS
  a = a
  b = b
  Hosts <- OneHost
  MaxSeqs = 1
  Counts <- ThreeOrInfinite
  MaxFrames = 1
  MaxFailures = 2
  WorkerMayDie = TRUE
  AdapterMayVanish = FALSE
  SetsModes = TRUE
CHECK_DEADLOCK FALSE
INVARIANTS
  LedgersSound
  AutoFireGivenBack
PROPERTIES
  StopEnds
