---------------------------- MODULE FifoChannel ----------------------------
(***************************************************************************)
(* What rtic_sync::channel promises its users: a bounded FIFO of messages  *)
(* with many producers and one consumer.  A message enters at most once,   *)
(* the messages of one sender leave in the order in which they were sent,  *)
(* and what the consumer receives is always the oldest message.  A message *)
(* is admitted while the channel is open and put into it later, perhaps    *)
(* after it was closed; no message is admitted to a closed channel.  The   *)
(* receiver that goes away throws the messages that are there away.        *)
(*                                                                         *)
(* A message is a pair <<sender, number of the call>>.                     *)
(***************************************************************************)
EXTENDS Integers, Sequences

CONSTANTS
  Senders,    \* the Sender handles
  MaxSends,   \* bound on the number of calls a handle makes
  Capacity    \* the capacity N of the channel

VARIABLES
  queue,      \* the messages in the channel, oldest first
  received,   \* the messages handed to the receiver, in order
  admitted,   \* the messages let in and not yet in the queue
  closed,     \* senders are told NoReceiver
  listening   \* there is a Receiver

vars == <<queue, received, admitted, closed, listening>>

Messages == Senders \X (1..MaxSends)

\* m was sent after every message of the same sender that got in before
InOrder(m) ==
  \A i \in DOMAIN (received \o queue) :
    LET e == (received \o queue)[i] IN e[1] = m[1] => e[2] < m[2]

Init ==
  /\ queue = << >>
  /\ received = << >>
  /\ admitted = {}
  /\ closed = FALSE
  /\ listening = TRUE

\* A sender finds the channel open.
Admit(m) ==
  /\ ~closed
  /\ m \notin admitted
  /\ admitted' = admitted \cup {m}
  /\ UNCHANGED <<queue, received, closed, listening>>

\* It finds the channel full after that.
Withdraw(m) ==
  /\ m \in admitted
  /\ admitted' = admitted \ {m}
  /\ UNCHANGED <<queue, received, closed, listening>>

\* A send that succeeds.
Put(m) ==
  /\ m \in admitted
  /\ Len(queue) < Capacity
  /\ InOrder(m)
  /\ admitted' = admitted \ {m}
  /\ queue' = Append(queue, m)
  /\ UNCHANGED <<received, closed, listening>>

Take ==
  /\ listening
  /\ queue # << >>
  /\ received' = Append(received, Head(queue))
  /\ queue' = Tail(queue)
  /\ UNCHANGED <<admitted, closed, listening>>

Close ==
  /\ listening
  /\ listening' = FALSE
  /\ closed' = TRUE
  /\ UNCHANGED <<queue, received, admitted>>

\* The dropped receiver throws the youngest message away.
Discard ==
  /\ ~listening
  /\ queue # << >>
  /\ queue' = SubSeq(queue, 1, Len(queue) - 1)
  /\ UNCHANGED <<received, admitted, closed, listening>>

\* A new receiver for a channel that nobody uses any more.  A message put in
\* after the old one had gone is there for the new one.  Whether the channel
\* is open again is left to the implementation.
Split ==
  /\ ~listening
  /\ admitted = {}
  /\ listening' = TRUE
  /\ closed' \in BOOLEAN
  /\ UNCHANGED <<queue, received, admitted>>

Next ==
  \/ \E m \in Messages : Admit(m) \/ Withdraw(m) \/ Put(m)
  \/ Take
  \/ Close
  \/ Discard
  \/ Split

Spec == Init /\ [][Next]_vars
=============================================================================
