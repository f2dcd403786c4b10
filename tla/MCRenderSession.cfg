CONSTANTS
  Machines = {m1, m2}
  SyncIds <- MCSyncIds
  ViewportsOf <- MCViewportsOf
  Target = 1
  InitialCredits <- MCInitialCredits
  MaxProgress = 1
  MaxOwed = 1
  MaxRestarts <- MCMaxRestarts
SPECIFICATION FairSpec
INVARIANTS
  CompletedOnce
  NoFrameIsCutShort
  CreditNeverLeaks
PROPERTIES
  ShownInOrder
  LastImageIsShown
  OvershootIsStopped
CHECK_DEADLOCK FALSE
