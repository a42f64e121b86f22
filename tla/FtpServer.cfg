SPECIFICATION FairSpec
CONSTANTS
  Client = {c1, c2}
  Path = {"f", "g"}
  Inode = {1, 2}
  Initial <- MCInitial
  NoFile = NoFile
  Old = Old
  Hole = Hole
  CounterSize = 256
  MaxInt = 1
  MaxRest = 2
  MaxBlocks = 2
  MaxCommands = 4
INVARIANTS TypeOK ClientsCounted 
PROPERTY ServiceQuiets
CHECK_DEADLOCK FALSE
