SPECIFICATION Spec
CONSTANTS
  Entry <- SplitEntries
  Kind <- MCKind
  NFrags <- MCNFrags
  Start <- MCStart
  CopyMode = 1
  MaxFastFiles = 2
  MaxFastFileSize = 2
  UsedMemLimit = 4
  BigFile = 7
  GigaLimit = 3
  NoEntry = NoEntry
INVARIANTS FragmentsSound ProgressExact
CHECK_DEADLOCK FALSE
