SPECIFICATION Spec
CONSTANTS
  Dir <- Dirs
  File <- Files
  Root <- Folders
  Parent <- Where
  Tree <- Below
  Kind <- SplitKind
  Pieces <- Later
  Size <- Sizes
  CopyMode = 0
  BigFile = 4
  MaxFastFiles = 1
  FreeSpace <- SomeSpace
  OnHdd = TRUE
  CountMayFail = FALSE
  DeleteMayFail = TRUE
INVARIANTS
  MoveLosesNothing
CHECK_DEADLOCK FALSE
