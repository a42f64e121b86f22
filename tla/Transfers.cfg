SPECIFICATION MCFairSpec
CONSTANTS
  File <- AllFiles
  Size <- MCSize
  BufSize = 2
  Unreadable = {}
  Cover = {"c1", "c2"}
  Package <- MCPackage
  Length <- MCLength
  Kilo = 2
  MAX_DOWN_LIST = 1
  Jobs = {"update_version", "showtime_version", "game_list", "theme"}
  MaxJobs = 1
  MaxCovers = 2
  Index <- MCIndex
  Tree <- MCTree
  Folder = {"d", "e", "f"}
  PathDepth <- MCPathDepth
  HostSize <- MCHostSize
  MAX_F_FILES = 3
  MaxOps = 1
INVARIANTS TypeOK MoveLosesNothing WholeOrNothing DownloadsSound CopiesSound
PROPERTIES UndisturbedResult TransfersEnd
CHECK_DEADLOCK FALSE
