SPECIFICATION Spec
CONSTANTS
  a = a
  b = b
  NoHost = NoHost
  Hosts <- OneHost
  Usages <- JustBlocks
  LogSize = 2
  PageSize = 1
  MaxEvents = 5
  MaxEpochs = 1
  MaxActs = 3
INVARIANTS
  StopNeverShoots
CHECK_DEADLOCK FALSE
