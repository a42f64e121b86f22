SPECIFICATION FairSpec
CONSTANTS
  Entry <- JoinEntries
  Kind <- MCKind
  NFrags <- MCNFrags
  Start <- MCStart
  CopyMode = 0
  MaxFastFiles = 1
  MaxFastFileSize = 2
  UsedMemLimit = 8
  BigFile = 7
  GigaLimit = 3
  NoEntry = NoEntry
INVARIANTS TypeOK CopyFaithful FreedWhenOver SuccessMeansCopied
PROPERTIES Implements CopyEnds
CHECK_DEADLOCK FALSE
