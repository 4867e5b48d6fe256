SPECIFICATION FairSpec
CONSTANTS
  a = a
  b = b
  NoHost = NoHost
  Hosts <- BothHosts
  Connectors <- BothHosts
  MaxConnects = 2
  ConnectOverRemains = FALSE
  OverlapCalls = FALSE
INVARIANTS
  TypeOK
  ConnectedTruthful
  NoOrphan
  SingleOwner
PROPERTIES
  StopReleases
CHECK_DEADLOCK FALSE
