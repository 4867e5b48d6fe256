SPECIFICATION Spec
CONSTANTS
  a = a
  b = b
  NoHost = NoHost
  Hosts <- TwoHosts
  Usages <- AllUsages
  LogSize = 2
  PageSize = 1
  MaxEvents = 4
  MaxEpochs = 2
  MaxActs = 2
SYMMETRY HostsAreAlike
INVARIANTS
  TypeOK
  NoSilentGap
  ToldTheTruth
  VideoModeIsBorrowed
  ClosedNotRecording
  ResultIsNotBacklog
CHECK_DEADLOCK FALSE
