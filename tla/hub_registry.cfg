SPECIFICATION Spec
CONSTANTS
  a = a
  b = b
  x = x
  y = y
  NoHost = NoHost
  Default = Default
  Hosts <- TwoHosts
  Devices <- TwoDevices
  DefaultDevice = x
  MaxManagers = 3
INVARIANTS
  TypeOK
  ClaimsAreDistinct
  NoLeakedSession
SYMMETRY HostsAreAlike
CHECK_DEADLOCK FALSE
