CONSTANTS
  InitialCredits <- TriedCredits
  MaxCredit = 4
  MaxMsgs = 2
SPECIFICATION FairSpec
PROPERTY DeferredAreHandled
CHECK_DEADLOCK FALSE
