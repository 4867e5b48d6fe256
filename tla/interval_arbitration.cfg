SPECIFICATION Spec
CONSTANTS
  a = a
  b = b
  Hosts <- TwoHosts
  MaxSeqs = 2
  Counts <- FiniteAndInfinite
  MaxFrames = 1
  MaxFailures = 2
  WorkerMayDie = TRUE
  AdapterMayVanish = TRUE
  SetsModes = FALSE
SYMMETRY HostsAreAlike
CHECK_DEADLOCK FALSE
INVARIANTS
  TypeOK
  OneActive
  NoForeignFire
  AutoNeverDuringSequence
PROPERTIES
  TerminalPersists
