SPECIFICATION Spec
CONSTANTS
  e1 = e1
  e2 = e2
  cal = cal
  raw = raw
  p = p
  q = q
  r = r
  Entries <- Files
  Size <- Sizes
  Rel <- Relpaths
  Unsized <- Streams
  Protected <- Library
  NoFile = NoFile
SYMMETRY Twins
INVARIANTS
  TypeOK
  OkMeansDone
PROPERTIES
  IsSafeTransfer
CHECK_DEADLOCK FALSE
