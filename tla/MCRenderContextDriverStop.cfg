CONSTANTS MaxMsgs = 2 MaxFilm = 2
SPECIFICATION Spec
INVARIANT StopBeforePrepStops
CHECK_DEADLOCK FALSE
