--------------------------- MODULE MCFeedbackSession ---------------------------
EXTENDS FeedbackSession
MCSyncIds == 0 .. 1
Growing == [s \in MCSyncIds |-> s + 1]
Shrinking == [s \in MCSyncIds |-> 2 - s]
===============================================================================
