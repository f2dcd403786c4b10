CONSTANTS
  SyncIds <- MCSyncIds
  NumTile <- Shrinking
  MaxImages = 3
  MaxRestarts = 0
  MaxMerges = 1
  MaxQueue = 1
SPECIFICATION Spec
INVARIANTS
  TilesFit
CHECK_DEADLOCK FALSE
