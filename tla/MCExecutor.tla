---------------------------- MODULE MCExecutor ----------------------------
(***************************************************************************)
(* Two executors; two contexts below the dispatcher, one of which preempts *)
(* the other, and one above it.                                            *)
(***************************************************************************)
EXTENDS Executor, TLC

CONSTANTS e1, e2, low, mid, high

TwoExecs == {e1, e2}
InTurn == <<e1, e2>>
AllContexts == {low, mid, high}
Priorities == low :> 1 @@ mid :> 2 @@ high :> 4
=============================================================================
