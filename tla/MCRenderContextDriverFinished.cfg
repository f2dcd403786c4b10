CONSTANTS MaxMsgs = 2 MaxFilm = 2
SPECIFICATION Spec
INVARIANT FinishedIsLast
CHECK_DEADLOCK FALSE
