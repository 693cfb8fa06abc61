--------------------------- MODULE MCBackground ---------------------------
EXTENDS Background, TLC

CONSTANTS j1, j2

TwoJobs == {j1, j2}
AskTwiceOnce == j1 :> 2 @@ j2 :> 1
=============================================================================
