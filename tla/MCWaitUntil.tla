---------------------------- MODULE MCWaitUntil ----------------------------
EXTENDS WaitUntil

CONSTANTS w1, w2, w3

ThreeWaiters == {w1, w2, w3}
Thresholds == (w1 :> 1 @@ w2 :> 2 @@ w3 :> 2)
=============================================================================
