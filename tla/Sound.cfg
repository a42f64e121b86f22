SPECIFICATION MCFairSpec
CONSTANTS
  MaxItems = 4
  NoSamples = {3}
  auSample = 3
  samples = 2
  pcmNum = 2
  Column <- MCColumn
  Small = {"s"}
  Bad = {}
  Blocks = 0
  MAX_MP3 = 4
  Handles = 2
  MaxRequests = 2
INVARIANTS SamplesInOrder PlaysCurrent
PROPERTY SoundGoesOn
CHECK_DEADLOCK FALSE
