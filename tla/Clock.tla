------------------------------- MODULE Clock --------------------------------
(***************************************************************************)
(* What a monotonic promises: now is the number of ticks that have passed, *)
(* at the moment of the call (TimerQueueBackend::now, "Get the current     *)
(* time").  The result has Range values and starts again after the last.   *)
(***************************************************************************)
EXTENDS Integers

CONSTANT Range   \* the number of values of now

VARIABLES
  time,   \* the number of ticks that have passed
  now     \* the last result of now

Init == time \in Nat /\ now = 0

Pass == time' = time + 1 /\ UNCHANGED now

Now == now' = time % Range /\ UNCHANGED time

Spec == Init /\ [][Pass \/ Now]_<<time, now>>
=============================================================================
