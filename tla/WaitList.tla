------------------------------ MODULE WaitList ------------------------------
(***************************************************************************)
(* What rtic_common::wait_queue promises: a FIFO of waiters, from which a  *)
(* waiter can also remove itself, wherever it stands.  Who waits is known  *)
(* besides the order, so that a waiter cannot get lost in between.         *)
(***************************************************************************)
EXTENDS Integers, SequencesExt

CONSTANT Links

VARIABLES
  queue,     \* the waiters, the longest-waiting one first
  waiting    \* the links that believe to be in the queue

vars == <<queue, waiting>>

Init == queue = << >> /\ waiting = {}

Push(l) ==
  /\ l \notin waiting
  /\ waiting' = waiting \cup {l}
  /\ queue' = Append(queue, l)

Pop ==
  /\ queue # << >>
  /\ waiting' = waiting \ {Head(queue)}
  /\ queue' = Tail(queue)

RemoveFromList(l) ==
  /\ waiting' = waiting \ {l}
  /\ \E i \in DOMAIN queue : queue[i] = l /\ queue' = RemoveAt(queue, i)

Next == Pop \/ \E l \in Links : Push(l) \/ RemoveFromList(l)

Spec == Init /\ [][Next]_vars
=============================================================================
