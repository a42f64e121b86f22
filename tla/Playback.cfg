SPECIFICATION MCSpec
CONSTANTS
  Stream = {1, 2}
  Audio = 2
  Framed = {2}
  Data <- MCData
  Index <- MCIndex
  AuNum <- MCAuNum
  LibSize = 1
  MaxPlays = 1
  MaxStreams = 3
  MaxOpens = 1
  FileSize = 5
  BufSize = 2
  MaxBytes = 3
INVARIANTS UnitsWhole NoStall FilmFound ResourcesSound
CHECK_DEADLOCK FALSE
