CONSTANTS
  Machines = {m1, m2}
  Followed = {m1}
  Regions = {r1, r2}
  Viewports = {v1}
  RdlWindows <- MCRdlWindows
  MaxSyncId = 3
  MaxJson = 2
  MaxSent = 4
SYMMETRY RegionSymmetry
SPECIFICATION Spec
INVARIANTS
  SessionInv
  VerifiedMeansExact
  PreprocessKeepsOutcome
  CanceledIsRebuilt
  SenderAgrees
  PicksAnswered
CHECK_DEADLOCK FALSE
