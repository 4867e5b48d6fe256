SPECIFICATION Spec
CONSTANTS
  MaxFiles = 2
  MaxSessions = 2
  Families = {FALSE, TRUE}
  RepeatEvents = TRUE
INVARIANTS
  TypeOK
  Custody
  ClaimsAreFresh
CHECK_DEADLOCK FALSE
