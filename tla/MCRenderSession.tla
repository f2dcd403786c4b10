---------------------------- MODULE MCRenderSession ----------------------------
EXTENDS RenderSession
MCSyncIds == 0 .. 1
MCViewportsOf == [s \in MCSyncIds |-> IF s = 0 THEN {0, 1} ELSE {1}]
MCInitialCredits == {-1, 1}
MCMaxRestarts == [c \in MCInitialCredits |-> IF c < 0 THEN 1 ELSE 0]
===============================================================================
