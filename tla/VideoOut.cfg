SPECIFICATION MCFairSpec
CONSTANTS
  FrameNum = 2
  Pictures = 3
  FieldsUpTo <- MCFieldsUpTo
  Presentation = 2
  MaxAhead = 2
  MaxWait = 1
  Films <- MCFilms
  Half = 8
  MaxLead = 6
INVARIANTS FramesSound DecisionRight
PROPERTIES OutputEnds Implements
CHECK_DEADLOCK FALSE
