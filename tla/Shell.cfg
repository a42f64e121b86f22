SPECIFICATION MCFairSpec
CONSTANTS
  Files <- MCFiles
  Games <- MCGames
  Film <- MCFilm
  Fav <- MCFav
  Names <- MCNames
  Main <- MCMain
  Letter <- MCLetter
  Mains = 2
  Other = 2
  Folder <- MCFolder
  MAX_XMB_MEMBERS = 6
  Starts <- MCStarts
INVARIANTS ListsComplete CursorRight ValuesKept
PROPERTY VisitedLoads
CHECK_DEADLOCK FALSE
