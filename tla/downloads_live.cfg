SPECIFICATION FairSpec
CONSTANTS
  MaxFiles = 2
  MaxSessions = 1
  Families = {FALSE}
  RepeatEvents = FALSE
PROPERTIES
  QuietQueueEmpties
CHECK_DEADLOCK FALSE
