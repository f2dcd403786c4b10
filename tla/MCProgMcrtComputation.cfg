CONSTANTS
  InitialCredits <- TriedCredits
  MaxCredit = 3
  MaxMsgs = 3
SPECIFICATION FairSpec
INVARIANTS IInv CreditConserved NothingOvertakes
PROPERTIES HandledInOrder CreditComesBack DeferredAreHandledOnCredit
\* With the credit used up and every message received nothing may be left to do.
CHECK_DEADLOCK FALSE
