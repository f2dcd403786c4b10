CONSTANTS
  Contexts = {c1, c2, c3, c4}
  None = None
SPECIFICATION FairSpec
INVARIANTS IInv OneOwner NothingLeftBehind
PROPERTIES BacklogIsTaken ResetDoesNotWait ShutDownReturnsOrIsLost
\* After onStop() nothing is left to do.
CHECK_DEADLOCK FALSE
