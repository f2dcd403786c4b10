CONSTANTS
  SyncIds <- MCSyncIds
  NumTile <- Growing
  MaxImages = 3
  MaxRestarts = 1
  MaxMerges = 1
  MaxQueue = 1
SPECIFICATION Spec
INVARIANTS
  FrameIsWhole
  NeverAhead
  FeedbackOfOneFrame
PROPERTIES
  MinusOneIsExact
CHECK_DEADLOCK FALSE
