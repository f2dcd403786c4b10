CONSTANTS MaxMsgs = 3 MaxFilm = 2
SPECIFICATION FairSpec
INVARIANTS IInv PrepOnStoppedContext StopIsObeyed NothingMissed
PROPERTIES UpdatesWaitForSnapshot CompleteFrameIsFinished UpdatesAreApplied
CHECK_DEADLOCK FALSE
