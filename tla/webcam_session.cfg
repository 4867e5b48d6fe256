SPECIFICATION Spec
CONSTANTS
  MaxFrames = 5
  MaxNames = 2
  QueueSize = 2
INVARIANTS
  TypeOK
  MovieIsWhole
CHECK_DEADLOCK FALSE
