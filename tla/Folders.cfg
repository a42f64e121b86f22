SPECIFICATION MCFairSpec
CONSTANTS
  Dir <- Dirs
  File <- Files
  Root <- Folders
  Parent <- Where
  Tree <- Below
  Kind <- SplitKind
  Pieces <- Later
  Size <- Sizes
  CopyMode = 0
  BigFile = 4
  MaxFastFiles = 1
  FreeSpace <- SomeSpace
  OnHdd = FALSE
  CountMayFail = FALSE
  DeleteMayFail = FALSE
INVARIANTS MoveLosesNothing ResultsReal
PROPERTY FoldersEnd
CHECK_DEADLOCK FALSE
