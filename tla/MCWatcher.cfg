CONSTANT MaxResume = 2
SPECIFICATION FairSpec
INVARIANTS IInv WaitMeansQuiet
PROPERTIES ResumeRunsOrIsLost ShutDownReturnsOrIsLost ImplementsStopAndGo
\* After shutDown() the watcher is finished.
CHECK_DEADLOCK FALSE
