SPECIFICATION Spec
CONSTANTS
  File <- ShyFiles
  Size <- MCSize
  BufSize = 2
  Unreadable <- ShyFiles
INVARIANTS
  MoveLosesNothing

CHECK_DEADLOCK FALSE
