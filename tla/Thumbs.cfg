SPECIFICATION FairSpec
CONSTANTS
  Col <- MCCol
  Windowed = {3}
  Flushed = {3}
  MaxMembers = 4
  NBuffers = 2
  Above = 0
  Below = 1
  Pic <- MCPic
  Kind <- MCKind
  Broken = {7}
  Missing = {6}
  Saved <- MCSaved
  Listings <- MCListings
  MaxMoves = 2
INVARIANTS TypeOK PicturesUndisturbed
PROPERTY VisibleLoaded
CHECK_DEADLOCK FALSE
