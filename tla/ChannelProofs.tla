--------------------------- MODULE ChannelProofs ---------------------------
(***************************************************************************)
(* Proofs about Channel, for every capacity, every set of senders and both *)
(* build profiles: the memcpys never meet, and an index is in one place    *)
(* only, so the unchecked pushes do not overflow (but see leftover);       *)
(* nobody waits while a slot is free; a waiter that is popped is served,   *)
(* the receiver misses no wake; and the whole is a bounded FIFO.           *)
(*                                                                         *)
(* ChannelInv and FifoInv are inductive.  Each lemma takes one part of     *)
(* them through a step of the specification, action by action; the queue   *)
(* operations enter by the lemmas of QueueLemmas only.                     *)
(***************************************************************************)
EXTENDS Channel, QueueLemmas, FiniteSetTheorems

\* The facts every step proof starts from.
LEMMA ConstantFacts ==
  /\ None \notin Slots
  /\ None \notin Senders
  /\ RX \notin Senders
  /\ N \in Nat
  /\ AllSlots \in Seq(Slots)
  /\ IsInjective(AllSlots)
  /\ Range(AllSlots) = Slots
<1>1. N \in Nat /\ None \notin Slots /\ None \notin Senders /\ RX \notin Senders
  BY CapacityAssumption, ActorsAssumption, NoneAssumption DEF Slots
<1>2. /\ AllSlots \in [1..N -> Slots]
      /\ DOMAIN AllSlots = 1..N
      /\ \A i \in 1..N : AllSlots[i] = i - 1
  BY <1>1 DEF AllSlots, Slots
<1>3. AllSlots \in Seq(Slots)
  BY <1>1, <1>2, IsASeq DEF AllSlots
<1>4. IsInjective(AllSlots)
  BY <1>1, <1>2 DEF IsInjective
<1>5. Range(AllSlots) = Slots
  <2>1. \A k \in Slots : k + 1 \in 1..N /\ AllSlots[k + 1] = k
    BY <1>1, <1>2 DEF Slots
  <2> QED BY <1>1, <1>2, <2>1 DEF Range
<1> QED BY <1>1, <1>3, <1>4, <1>5

\* A queue of slots that does not hold them all has room for one more.
LEMMA RoomLeft ==
  ASSUME NEW q \in Seq(Slots), IsInjective(q), NEW x \in Slots, x \notin Range(q)
  PROVE  Len(q) < N
<1>1. N \in Nat /\ N >= 1 /\ Slots = 0..(N - 1)
  BY CapacityAssumption DEF Slots
<1>2. IsFiniteSet(Slots) /\ Cardinality(Slots) = N
  BY <1>1, FS_Interval
<1>3. IsFiniteSet(Slots \ {x}) /\ Cardinality(Slots \ {x}) = N - 1
  BY <1>2, FS_RemoveElement
<1>4. Len(q) \in Nat /\ DOMAIN q = 1..Len(q) /\ \A i \in 1..Len(q) : q[i] \in Slots
  BY LenProperties, ElementOfSeq
<1>5. q \in [1..Len(q) -> Slots \ {x}]
  <2>1. q = [i \in 1..Len(q) |-> q[i]]
    BY <1>4, LenProperties
  <2>2. \A i \in 1..Len(q) : q[i] \in Slots \ {x}
    BY <1>4 DEF Range
  <2> QED BY <2>1, <2>2
<1>6. q \in Injection(1..Len(q), Slots \ {x})
  BY <1>5 DEF Injection
<1>7. Cardinality(1..Len(q)) <= N - 1
  BY <1>3, <1>6, FS_Injection
<1>8. Cardinality(1..Len(q)) = Len(q)
  <2> DEFINE n == Len(q)
  <2>1. n \in Nat
    BY <1>4
  <2> HIDE DEF n
  <2>2. Cardinality(1..n) = IF 1 > n THEN 0 ELSE n - 1 + 1
    BY <2>1, FS_Interval
  <2>3. Cardinality(1..n) = n
    BY <2>1, <2>2
  <2> QED BY <2>3 DEF n
<1> QED BY <1>1, <1>4, <1>7, <1>8

\* An unchecked push of an index that the queue does not hold has room.
LEMMA PushElement ==
  ASSUME NEW q \in Seq(Slots), NEW e \in Slots
  PROVE  /\ PushUnchecked(q, e) \in Seq(Slots)
         /\ IsInjective(q) /\ e \notin Range(q) =>
              Len(q) < N /\ PushUnchecked(q, e) = Append(q, e)
<1>1. Append(q, e) \in Seq(Slots) /\ <<e>> \in Seq(Slots)
  BY AppendElement
<1>2. IsInjective(q) /\ e \notin Range(q) => Len(q) < N
  BY RoomLeft
<1> QED BY <1>1, <1>2 DEF PushUnchecked

-----------------------------------------------------------------------------
LEMMA InitSlotInv == Init => SlotInv
<1> SUFFICES ASSUME Init PROVE SlotInv
  OBVIOUS
<1>1. TypeOK
  <2>1. PICK s \in Senders : pc = Handles(s)
    BY DEF Init
  <2>2. /\ pc \in [Actors -> SenderStates \cup ReceiverStates]
        /\ \A t \in Senders : pc[t] \in SenderStates
        /\ pc[RX] \in ReceiverStates
    BY <2>1, ConstantFacts
       DEF Handles, Actors, SenderStates, ReceiverStates
  <2>3. /\ freeq \in Seq(Slots)
        /\ readyq \in Seq(Slots)
        /\ waitq \in Seq(Senders)
        /\ received \in Seq(Messages \cup {None})
    BY ConstantFacts, EmptySeq DEF Init
  <2>4. /\ sent \in [Senders -> 0..MaxSends]
        /\ splits \in 1..MaxSplits
    BY BoundsAssumption DEF Init
  <2>5. /\ slots \in [Slots -> Messages \cup {None}]
        /\ slot \in [Actors -> Slots \cup {None}]
        /\ link \in [Senders -> {"none", "linked", "popped"}]
        /\ woken \in [Actors -> BOOLEAN]
    BY DEF Init
  <2>6. /\ receiver_waker \in BOOLEAN /\ receiver_dropped \in BOOLEAN
        /\ leftover \in BOOLEAN
    BY Zenon DEF Init
  <2>7. /\ num_senders \in Int
        /\ mode \in {"try_recv", "recv"}
        /\ waking \in Senders \cup {None}
    BY DEF Init
  <2> QED BY <2>2, <2>3, <2>4, <2>5, <2>6, <2>7 DEF TypeOK
<1>2. HandsInv
  <2>1. PICK s \in Senders : pc = Handles(s)
    BY DEF Init
  <2> QED BY <2>1, ConstantFacts DEF Init, HandsInv, Handles, Actors
<1>3. Range(<< >>) = {} /\ IsInjective(<< >>)
  BY DEF Range, IsInjective
<1>4. LinksInv
  BY <1>3 DEF Init, LinksInv
<1>5. Range(slot) \subseteq {None}
  BY DEF Init, Range
<1>6. SlotExclusive /\ SlotNotLost /\ NoFreeSlotWhileWaiting
  BY <1>3, <1>5, ConstantFacts
     DEF Init, SlotExclusive, ReadySlotsExclusive, FreeSlotsExclusive, SlotNotLost,
         NoFreeSlotWhileWaiting, Actors
<1>7. LeftoverShut
  BY DEF Init, LeftoverShut
<1> QED BY <1>1, <1>2, <1>4, <1>6, <1>7 DEF SlotInv

-----------------------------------------------------------------------------
\* return_free_slot keeps the types of what it touches.
LEMMA ReturnType ==
  ASSUME TypeOK, NEW a \in Actors, slot[a] \in Slots, ReturnFreeSlot(a)
  PROVE  /\ freeq' \in Seq(Slots)
         /\ waitq' \in Seq(Senders)
         /\ slot' \in [Actors -> Slots \cup {None}]
         /\ link' \in [Senders -> {"none", "linked", "popped"}]
         /\ woken' \in [Actors -> BOOLEAN]
<1>1. CASE waitq # << >>
  <2>1. Head(waitq) \in Senders /\ Tail(waitq) \in Seq(Senders)
    BY <1>1, TailElements DEF TypeOK
  <2> QED BY <1>1, <2>1 DEF ReturnFreeSlot, TypeOK, Actors
<1>2. CASE waitq = << >>
  <2>1. PushUnchecked(freeq, slot[a]) \in Seq(Slots)
    BY PushElement DEF TypeOK
  <2> QED BY <1>2, <2>1 DEF ReturnFreeSlot, TypeOK
<1> QED BY <1>1, <1>2

LEMMA TypeStep == TypeOK /\ HandsInv /\ [Next]_vars => TypeOK'
<1> SUFFICES ASSUME TypeOK, HandsInv, [Next]_vars PROVE TypeOK'
  OBVIOUS
<1> USE ConstantFacts DEF TypeOK, Goto, chan, Actors, SenderStates, ReceiverStates
<1>1. ASSUME Split PROVE TypeOK'
  <2>1. PICK s \in Senders : pc' = Handles(s)
    BY <1>1 DEF Split
  <2>2. /\ pc' \in [Actors -> SenderStates \cup ReceiverStates]
        /\ \A t \in Senders : pc'[t] \in SenderStates
        /\ pc'[RX] \in ReceiverStates
    BY <2>1 DEF Handles
  <2>3. leftover' \in BOOLEAN
    BY <1>1 DEF Split
  <2> QED BY <1>1, <2>2, <2>3, BoundsAssumption DEF Split, Refilled
<1>2. ASSUME NEW s \in Senders, TrySend(s) PROVE TypeOK'
  BY <1>2, BoundsAssumption DEF TrySend, BeginSend
<1>3. ASSUME NEW s \in Senders, TrySendClosed(s) PROVE TypeOK'
  BY <1>3 DEF TrySendClosed
<1>4. ASSUME NEW s \in Senders, TrySendPop(s) PROVE TypeOK'
  <2>1. freeq # << >> => Head(freeq) \in Slots /\ Tail(freeq) \in Seq(Slots)
    BY TailElements
  <2>2. CASE freeq = << >>
    BY <1>4, <2>2 DEF TrySendPop
  <2>3. CASE freeq # << >>
    <3>1. PICK h \in Slots, r \in Seq(Slots) :
            freeq' = r /\ slot' = [slot EXCEPT ![s] = h]
      BY <1>4, <2>1, <2>3, Zenon DEF TrySendPop
    <3> QED BY <1>4, <2>3, <3>1 DEF TrySendPop
  <2> QED BY <2>2, <2>3
<1>5. ASSUME NEW s \in Senders, Send(s) PROVE TypeOK'
  BY <1>5, BoundsAssumption DEF Send, BeginSend
<1>6. ASSUME NEW s \in Senders, PollSend(s) PROVE TypeOK'
  <2>1. freeq # << >> => Last(freeq) \in Slots /\ Front(freeq) \in Seq(Slots)
    BY FrontElements
  <2>2. Append(waitq, s) \in Seq(Senders)
    BY AppendElement
  <2>3. /\ waitq' \in Seq(Senders)
        /\ link' \in [Senders -> {"none", "linked", "popped"}]
    BY <1>6, <2>2 DEF PollSend
  <2>4. freeq' \in Seq(Slots) /\ slot' \in [Actors -> Slots \cup {None}]
    <3>1. CASE UNCHANGED <<freeq, slot>>
      BY <3>1
    <3>2. CASE ~UNCHANGED <<freeq, slot>>
      <4>1. freeq # << >> /\ freeq' = Front(freeq)
            /\ slot' = [slot EXCEPT ![s] = Last(freeq)]
        BY <1>6, <3>2, Zenon DEF PollSend
      <4>2. PICK e \in Slots : e = Last(freeq)
        BY <2>1, <4>1
      <4> QED BY <2>1, <4>1, <4>2
    <3> QED BY <3>1, <3>2
  <2>5. \/ pc' = pc
        \/ pc' = [pc EXCEPT ![s] = "dropper"]
        \/ pc' = [pc EXCEPT ![s] = "write"]
    BY <1>6 DEF PollSend
  <2> QED BY <1>6, <2>3, <2>4, <2>5 DEF PollSend
<1>7. ASSUME NEW s \in Senders, CancelSend(s) PROVE TypeOK'
  BY <1>7 DEF CancelSend
<1>8. ASSUME NEW s \in Senders, DropLink(s) PROVE TypeOK'
  BY <1>8, RemoveAtElements DEF DropLink
<1>9. ASSUME NEW s \in Senders, GiveBack(s) PROVE TypeOK'
  BY <1>9, ReturnType DEF GiveBack
<1>10. ASSUME NEW s \in Senders, WriteSlot(s) PROVE TypeOK'
  <2>1. slot[s] \in Slots /\ <<s, sent[s]>> \in Messages
    BY <1>10 DEF WriteSlot, HandsInv, Messages
  <2> QED BY <1>10, <2>1 DEF WriteSlot
<1>11. ASSUME NEW s \in Senders, PushReady(s) PROVE TypeOK'
  <2>1. slot[s] \in Slots
    BY <1>11 DEF PushReady, HandsInv
  <2>2. PushUnchecked(readyq, slot[s]) \in Seq(Slots)
    BY <2>1, PushElement
  <2> QED BY <1>11, <2>2 DEF PushReady
<1>12. ASSUME NEW s \in Senders, WakeReceiver(s) PROVE TypeOK'
  BY <1>12 DEF WakeReceiver
<1>13. ASSUME NEW s \in Senders, DropSender(s) PROVE TypeOK'
  BY <1>13 DEF DropSender
<1>14. ASSUME NEW s \in Senders, NEW t \in Senders, CloneSender(s, t)
       PROVE  TypeOK'
  BY <1>14 DEF CloneSender
<1>15. ASSUME TryRecv \/ PollRecv \/ CheckClosed \/ CancelRecv PROVE TypeOK'
  BY <1>15 DEF TryRecv, PollRecv, CheckClosed, CancelRecv
<1>16. ASSUME PopReady PROVE TypeOK'
  <2>1. readyq # << >> => Head(readyq) \in Slots /\ Tail(readyq) \in Seq(Slots)
    BY TailElements
  <2>2. CASE readyq # << >>
    <3>1. slot' = [slot EXCEPT ![RX] = Head(readyq)] /\ readyq' = Tail(readyq)
      BY <1>16, <2>2 DEF PopReady
    <3>2. slot' \in [Actors -> Slots \cup {None}] /\ readyq' \in Seq(Slots)
      BY <2>1, <2>2, <3>1
    <3>3. /\ pc' = [pc EXCEPT ![RX] = "copy"]
          /\ UNCHANGED <<freeq, slots, waitq, receiver_waker, receiver_dropped,
                         num_senders, link, sent, woken, mode, waking, received, splits, leftover>>
      BY <1>16, <2>2 DEF PopReady
    <3>4. /\ pc' \in [Actors -> SenderStates \cup ReceiverStates]
          /\ \A s \in Senders : pc'[s] \in SenderStates
          /\ pc'[RX] \in ReceiverStates
      BY <3>3
    <3> QED BY <3>2, <3>3, <3>4
  <2>3. CASE readyq = << >>
    BY <1>16, <2>3 DEF PopReady
  <2> QED BY <2>2, <2>3
<1>17. ASSUME CopyOut PROVE TypeOK'
  <2>1. slots[slot[RX]] \in Messages \cup {None}
    BY <1>17 DEF CopyOut, HandsInv
  <2> QED BY <1>17, <2>1, AppendElement DEF CopyOut
<1>18. ASSUME ReturnSlot PROVE TypeOK'
  <2>1. slot[RX] \in Slots
    BY <1>18 DEF ReturnSlot, HandsInv
  <2> QED BY <1>18, <2>1, ReturnType DEF ReturnSlot
<1>19. ASSUME DropReceiver PROVE TypeOK'
  BY <1>19 DEF DropReceiver
<1>20. ASSUME Drain PROVE TypeOK'
  <2>1. readyq # << >> => Last(readyq) \in Slots /\ Front(readyq) \in Seq(Slots)
    BY FrontElements
  <2>2. CASE readyq # << >>
    <3>1. slot' = [slot EXCEPT ![RX] = Last(readyq)] /\ readyq' = Front(readyq)
      BY <1>20, <2>2 DEF Drain
    <3>2. slot' \in [Actors -> Slots \cup {None}] /\ readyq' \in Seq(Slots)
      BY <2>1, <2>2, <3>1
    <3>3. /\ pc' = [pc EXCEPT ![RX] = "drop_value"]
          /\ UNCHANGED <<freeq, slots, waitq, receiver_waker, receiver_dropped,
                         num_senders, link, sent, woken, mode, waking, received, splits, leftover>>
      BY <1>20, <2>2 DEF Drain
    <3>4. /\ pc' \in [Actors -> SenderStates \cup ReceiverStates]
          /\ \A s \in Senders : pc'[s] \in SenderStates
          /\ pc'[RX] \in ReceiverStates
      BY <3>3
    <3> QED BY <3>2, <3>3, <3>4
  <2>3. CASE readyq = << >>
    BY <1>20, <2>3 DEF Drain
  <2> QED BY <2>2, <2>3
<1>21. ASSUME DropValue PROVE TypeOK'
  BY <1>21 DEF DropValue
<1>22. ASSUME PopWaiter PROVE TypeOK'
  <2>1. waitq # << >> => Head(waitq) \in Senders /\ Tail(waitq) \in Seq(Senders)
    BY TailElements
  <2> QED BY <1>22, <2>1 DEF PopWaiter
<1>23. ASSUME WakeWaiter PROVE TypeOK'
  BY <1>23 DEF WakeWaiter, HandsInv
<1>24. ASSUME UNCHANGED vars PROVE TypeOK'
  BY <1>24 DEF vars
<1> QED
  BY <1>1, <1>2, <1>3, <1>4, <1>5, <1>6, <1>7, <1>8, <1>9, <1>10, <1>11,
     <1>12, <1>13, <1>14, <1>15, <1>16, <1>17, <1>18, <1>19, <1>20, <1>21,
     <1>22, <1>23, <1>24
     DEF Next, SenderNext, ReceiverNext

-----------------------------------------------------------------------------
\* return_free_slot gives the slot of one actor away: to the sender at the
\* head of wait_queue, whose link it pops, or to freeq.
LEMMA ReturnHands ==
  ASSUME TypeOK, LinksInv, NEW a \in Actors, slot[a] \in Slots,
         ReturnFreeSlot(a), NEW s \in Senders, s # a
  PROVE  \/ slot'[s] = slot[s] /\ link'[s] = link[s]
         \/ /\ link[s] = "linked"
            /\ link'[s] = "popped"
            /\ slot'[s] = slot[a]
<1>1. CASE waitq # << >>
  <2>1. PICK w \in Senders :
          /\ w \in Range(waitq)
          /\ link' = [link EXCEPT ![w] = "popped"]
          /\ slot' = [slot EXCEPT ![a] = None, ![w] = slot[a]]
    BY <1>1, TailElements, Zenon DEF ReturnFreeSlot, TypeOK
  <2>2. link[w] = "linked"
    BY <2>1 DEF LinksInv
  <2> QED BY <2>1, <2>2 DEF TypeOK, Actors
<1>2. CASE waitq = << >>
  BY <1>2 DEF ReturnFreeSlot, TypeOK, Actors
<1> QED BY <1>1, <1>2

LEMMA ReturnHand ==
  ASSUME TypeOK, LinksInv, NEW a \in Actors, slot[a] \in Slots,
         ReturnFreeSlot(a), NEW b \in Actors, b \notin Senders \/ b = a
  PROVE  slot'[b] = IF b = a THEN None ELSE slot[b]
<1>1. CASE waitq # << >>
  <2>1. PICK w \in Senders :
          /\ w \in Range(waitq)
          /\ slot' = [slot EXCEPT ![a] = None, ![w] = slot[a]]
    BY <1>1, TailElements, Zenon DEF ReturnFreeSlot, TypeOK
  <2>2. link[w] = "linked" /\ slot[w] = None
    BY <2>1 DEF LinksInv
  <2>3. w # a
    BY <2>2, ConstantFacts
  <2> QED BY <2>1, <2>3, ConstantFacts DEF TypeOK, Actors
<1>2. CASE waitq = << >>
  BY <1>2 DEF ReturnFreeSlot, TypeOK, Actors
<1> QED BY <1>1, <1>2

LEMMA HandsStep == TypeOK /\ LinksInv /\ HandsInv /\ [Next]_vars => HandsInv'
<1> SUFFICES ASSUME TypeOK, LinksInv, HandsInv, [Next]_vars PROVE HandsInv'
  OBVIOUS
<1> USE ConstantFacts DEF TypeOK, HandsInv, Goto, chan, Actors
<1>1. ASSUME Split PROVE HandsInv'
  <2>1. PICK s \in Senders : pc' = Handles(s)
    BY <1>1 DEF Split
  <2>2. receiver_dropped /\ slot' = slot /\ \A a \in Actors : slot[a] = None
    BY <1>1 DEF Split, AllDropped
  <2>3. waking' = None /\ receiver_dropped'
    BY <1>1, <2>2 DEF Split, AllDropped
  <2>4. \A t \in Senders : pc'[t] \in {"idle", "absent"}
    BY <2>1 DEF Handles
  <2>5. pc'[RX] = "idle"
    BY <2>1 DEF Handles
  <2> HIDE DEF Actors
  <2>6. RX \in Actors /\ Senders \subseteq Actors
    BY DEF Actors
  <2> QED BY <2>2, <2>3, <2>4, <2>5, <2>6
<1>2. ASSUME NEW s \in Senders, TrySend(s) \/ Send(s) PROVE HandsInv'
  <2>1. /\ sent'[s] >= 1
        /\ \A t \in Senders \ {s} : sent'[t] = sent[t]
    BY <1>2 DEF TrySend, Send, BeginSend
  <2>2. CASE TrySend(s)
    BY <2>1, <2>2 DEF TrySend, BeginSend
  <2>3. CASE Send(s)
    BY <2>1, <2>3 DEF Send, BeginSend
  <2> QED BY <1>2, <2>2, <2>3
<1>3. ASSUME NEW s \in Senders, TrySendClosed(s) \/ TrySendPop(s) PROVE HandsInv'
  <2>1. TrySendPop(s) /\ freeq # << >> => slot'[s] # None
    BY TailElements DEF TrySendPop
  <2> QED BY <1>3, <2>1 DEF TrySendClosed, TrySendPop
<1>4. ASSUME NEW s \in Senders, PollSend(s) PROVE HandsInv'
  <2>1. freeq # << >> => Last(freeq) # None
    BY FrontElements
  <2> QED BY <1>4, <2>1 DEF PollSend, LinksInv
<1>5. ASSUME NEW s \in Senders, CancelSend(s) \/ DropLink(s) PROVE HandsInv'
  BY <1>5 DEF CancelSend, DropLink
<1>6. ASSUME NEW s \in Senders, GiveBack(s) PROVE HandsInv'
  <2>1. CASE slot[s] = None
    BY <1>6, <2>1 DEF GiveBack
  <2>2. CASE slot[s] # None
    <3>1. slot[s] \in Slots /\ ReturnFreeSlot(s)
      BY <1>6, <2>2 DEF GiveBack
    <3>2. slot'[s] = None /\ slot'[RX] = slot[RX]
      BY <3>1, ReturnHand
    <3>3. \A t \in Senders \ {s} :
            \/ slot'[t] = slot[t] /\ link'[t] = link[t]
            \/ link[t] = "linked" /\ link'[t] = "popped" /\ slot'[t] = slot[s]
      BY <3>1, ReturnHands
    <3> QED BY <1>6, <3>1, <3>2, <3>3 DEF GiveBack, LinksInv
  <2> QED BY <2>1, <2>2
<1>7. ASSUME NEW s \in Senders, WriteSlot(s) \/ PushReady(s) \/ WakeReceiver(s)
      PROVE  HandsInv'
  BY <1>7 DEF WriteSlot, PushReady, WakeReceiver
<1>8. ASSUME NEW s \in Senders, DropSender(s) PROVE HandsInv'
  BY <1>8 DEF DropSender
<1>9. ASSUME NEW s \in Senders, NEW t \in Senders, CloneSender(s, t)
      PROVE  HandsInv'
  BY <1>9 DEF CloneSender
<1>10. ASSUME TryRecv \/ PollRecv \/ CheckClosed \/ CancelRecv PROVE HandsInv'
  BY <1>10 DEF TryRecv, PollRecv, CheckClosed, CancelRecv
<1>11. ASSUME PopReady PROVE HandsInv'
  <2>1. readyq # << >> => Head(readyq) # None
    BY TailElements
  <2> QED BY <1>11, <2>1 DEF PopReady
<1>12. ASSUME CopyOut PROVE HandsInv'
  BY <1>12 DEF CopyOut
<1>13. ASSUME ReturnSlot PROVE HandsInv'
  <2>1. slot[RX] \in Slots /\ ReturnFreeSlot(RX)
    BY <1>13 DEF ReturnSlot
  <2>2. slot'[RX] = None
    BY <2>1, ReturnHand
  <2>3. \A t \in Senders :
          \/ slot'[t] = slot[t] /\ link'[t] = link[t]
          \/ link[t] = "linked" /\ link'[t] = "popped" /\ slot'[t] = slot[RX]
    BY <2>1, ReturnHands
  <2> QED BY <1>13, <2>1, <2>2, <2>3 DEF ReturnSlot, LinksInv
<1>14. ASSUME DropReceiver PROVE HandsInv'
  BY <1>14 DEF DropReceiver
<1>15. ASSUME Drain PROVE HandsInv'
  <2>1. readyq # << >> => Last(readyq) # None
    BY FrontElements
  <2> QED BY <1>15, <2>1 DEF Drain
<1>16. ASSUME DropValue PROVE HandsInv'
  BY <1>16 DEF DropValue
<1>17. ASSUME PopWaiter PROVE HandsInv'
  <2>1. waitq # << >> => Head(waitq) \in Senders
    BY TailElements
  <2> QED BY <1>17, <2>1 DEF PopWaiter
<1>18. ASSUME WakeWaiter PROVE HandsInv'
  BY <1>18 DEF WakeWaiter
<1>19. ASSUME UNCHANGED vars PROVE HandsInv'
  BY <1>19 DEF vars
<1> QED
  BY <1>1, <1>2, <1>3, <1>4, <1>5, <1>6, <1>7, <1>8, <1>9, <1>10, <1>11,
     <1>12, <1>13, <1>14, <1>15, <1>16, <1>17, <1>18, <1>19
     DEF Next, SenderNext, ReceiverNext

-----------------------------------------------------------------------------
\* return_free_slot keeps wait_queue and the links together.
LEMMA ReturnLinks ==
  ASSUME TypeOK, LinksInv, NEW a \in Actors, slot[a] \in Slots,
         ReturnFreeSlot(a)
  PROVE  /\ IsInjective(waitq')
         /\ \A s \in Senders :
              /\ link'[s] = "linked" <=> s \in Range(waitq')
              /\ link'[s] # "none" <=> link[s] # "none"
              /\ link'[s] = "linked" => link[s] = "linked" /\ slot'[s] = None
<1> USE DEF LinksInv, TypeOK, Actors
<1>1. CASE waitq # << >>
  <2> DEFINE w == Head(waitq)
  <2>1. /\ w \in Senders
        /\ w \in Range(waitq)
        /\ IsInjective(Tail(waitq))
        /\ Range(Tail(waitq)) = Range(waitq) \ {w}
    BY <1>1, TailElements
  <2>2. /\ waitq' = Tail(waitq)
        /\ link' = [link EXCEPT ![w] = "popped"]
        /\ slot' = [slot EXCEPT ![a] = None, ![w] = slot[a]]
    BY <1>1 DEF ReturnFreeSlot
  <2> HIDE DEF w
  <2> QED BY <2>1, <2>2
<1>2. CASE waitq = << >>
  BY <1>2 DEF ReturnFreeSlot
<1> QED BY <1>1, <1>2

LEMMA LinksStep == TypeOK /\ HandsInv /\ LinksInv /\ [Next]_vars => LinksInv'
<1> SUFFICES ASSUME TypeOK, HandsInv, LinksInv, [Next]_vars PROVE LinksInv'
  OBVIOUS
<1> USE ConstantFacts DEF TypeOK, LinksInv, Goto, chan, Actors
<1>1. ASSUME Split PROVE LinksInv'
  <2>1. \A s \in Senders : link[s] = "none"
    BY <1>1 DEF Split, AllDropped
  <2> QED BY <1>1, <2>1 DEF Split
<1>2. ASSUME NEW s \in Senders,
             TrySend(s) \/ TrySendClosed(s) \/ TrySendPop(s) \/ Send(s)
      PROVE  LinksInv'
  <2>1. UNCHANGED <<waitq, link>> /\ link[s] = "none"
    BY <1>2 DEF TrySend, TrySendClosed, TrySendPop, Send, BeginSend
  <2>2. \A t \in Senders \ {s} : pc'[t] = pc[t] /\ slot'[t] = slot[t]
    BY <1>2 DEF TrySend, TrySendClosed, TrySendPop, Send, BeginSend
  <2> QED BY <2>1, <2>2
<1>3. ASSUME NEW s \in Senders, PollSend(s) PROVE LinksInv'
  <2>1. CASE UNCHANGED <<waitq, slot>> /\ link' \in {link, [link EXCEPT ![s] = "none"]}
    BY <1>3, <2>1 DEF PollSend
  <2>2. CASE waitq' = Append(waitq, s) /\ link' = [link EXCEPT ![s] = "linked"]
    <3>1. link[s] = "none" /\ UNCHANGED <<pc, slot>>
      BY <1>3, <2>2 DEF PollSend
    <3>2. s \notin Range(waitq) /\ slot[s] = None
      BY <1>3, <3>1 DEF PollSend, HandsInv
    <3>3. IsInjective(waitq') /\ Range(waitq') = Range(waitq) \cup {s}
      BY <2>2, <3>2, AppendElement
    <3> QED BY <1>3, <2>2, <3>1, <3>2, <3>3 DEF PollSend
  <2>3. CASE UNCHANGED <<waitq, link>> /\ link[s] = "none"
    BY <1>3, <2>3 DEF PollSend
  <2> QED BY <1>3, <2>1, <2>2, <2>3 DEF PollSend
<1>4. ASSUME NEW s \in Senders, CancelSend(s) PROVE LinksInv'
  BY <1>4 DEF CancelSend
<1>5. ASSUME NEW s \in Senders, DropLink(s) PROVE LinksInv'
  <2>1. IsInjective(waitq') /\ Range(waitq') = Range(waitq) \ {s}
    <3>1. CASE link[s] = "linked"
      <4>1. PICK i \in DOMAIN waitq : waitq[i] = s /\ waitq' = RemoveAt(waitq, i)
        BY <1>5, <3>1 DEF DropLink
      <4> QED BY <4>1, RemoveAtElements
    <3>2. CASE link[s] # "linked"
      BY <1>5, <3>2 DEF DropLink
    <3> QED BY <3>1, <3>2
  <2> QED BY <1>5, <2>1 DEF DropLink
<1>6. ASSUME NEW s \in Senders, GiveBack(s) PROVE LinksInv'
  <2>1. link[s] = "none"
    BY <1>6 DEF GiveBack
  <2>2. CASE slot[s] = None
    BY <1>6, <2>1, <2>2 DEF GiveBack
  <2>3. CASE slot[s] # None
    <3>1. slot[s] \in Slots /\ ReturnFreeSlot(s)
      BY <1>6, <2>3 DEF GiveBack
    <3>2. /\ IsInjective(waitq')
          /\ \A t \in Senders :
               /\ link'[t] = "linked" <=> t \in Range(waitq')
               /\ link'[t] # "none" <=> link[t] # "none"
               /\ link'[t] = "linked" => link[t] = "linked" /\ slot'[t] = None
      BY <3>1, ReturnLinks
    <3> QED BY <1>6, <2>1, <3>2 DEF GiveBack
  <2> QED BY <2>2, <2>3
<1>7. ASSUME NEW s \in Senders, WriteSlot(s) \/ PushReady(s) \/ WakeReceiver(s)
      PROVE  LinksInv'
  BY <1>7 DEF WriteSlot, PushReady, WakeReceiver
<1>8. ASSUME NEW s \in Senders, DropSender(s) PROVE LinksInv'
  BY <1>8 DEF DropSender
<1>9. ASSUME NEW s \in Senders, NEW t \in Senders, CloneSender(s, t)
      PROVE  LinksInv'
  BY <1>9 DEF CloneSender
<1>10. ASSUME \/ TryRecv \/ PollRecv \/ PopReady \/ CopyOut \/ CheckClosed
              \/ CancelRecv \/ DropReceiver \/ Drain \/ DropValue \/ WakeWaiter
       PROVE  LinksInv'
  <2>1. UNCHANGED <<waitq, link>>
    BY <1>10 DEF TryRecv, PollRecv, PopReady, CopyOut, CheckClosed, CancelRecv,
                 DropReceiver, Drain, DropValue, WakeWaiter
  <2>2. \A s \in Senders : pc'[s] = pc[s] /\ slot'[s] = slot[s]
    BY <1>10 DEF TryRecv, PollRecv, PopReady, CopyOut, CheckClosed, CancelRecv,
                 DropReceiver, Drain, DropValue, WakeWaiter
  <2> QED BY <2>1, <2>2
<1>11. ASSUME ReturnSlot PROVE LinksInv'
  <2>1. slot[RX] \in Slots /\ ReturnFreeSlot(RX)
    BY <1>11 DEF ReturnSlot, HandsInv
  <2>2. /\ IsInjective(waitq')
        /\ \A t \in Senders :
             /\ link'[t] = "linked" <=> t \in Range(waitq')
             /\ link'[t] # "none" <=> link[t] # "none"
             /\ link'[t] = "linked" => link[t] = "linked" /\ slot'[t] = None
    BY <2>1, ReturnLinks
  <2> QED BY <1>11, <2>2 DEF ReturnSlot
<1>12. ASSUME PopWaiter PROVE LinksInv'
  <2>1. CASE waitq = << >>
    BY <1>12, <2>1 DEF PopWaiter
  <2>2. CASE waitq # << >>
    <3> DEFINE w == Head(waitq)
    <3>1. /\ w \in Senders
          /\ w \in Range(waitq)
          /\ IsInjective(Tail(waitq))
          /\ Range(Tail(waitq)) = Range(waitq) \ {w}
      BY <2>2, TailElements
    <3>2. /\ waitq' = Tail(waitq)
          /\ link' = [link EXCEPT ![w] = "popped"]
      BY <1>12, <2>2 DEF PopWaiter
    <3> HIDE DEF w
    <3> QED BY <1>12, <3>1, <3>2 DEF PopWaiter
  <2> QED BY <2>1, <2>2
<1>13. ASSUME UNCHANGED vars PROVE LinksInv'
  BY <1>13 DEF vars
<1> QED
  BY <1>1, <1>2, <1>3, <1>4, <1>5, <1>6, <1>7, <1>8, <1>9, <1>10, <1>11,
     <1>12, <1>13
     DEF Next, SenderNext, ReceiverNext

-----------------------------------------------------------------------------
(***************************************************************************)
(* What happens to a slot: an actor takes it from one of the two queues,   *)
(* an actor puts it into one of them, or an actor hands it to another.     *)
(***************************************************************************)
SlotsPlaced == Slots \subseteq Range(freeq) \cup Range(readyq) \cup Range(slot)

LEMMA TakeFree ==
  ASSUME TypeOK, SlotExclusive, ~leftover, ~leftover', NEW a \in Actors, slot[a] = None,
         NEW e \in Range(freeq), e \in Slots, slot' = [slot EXCEPT ![a] = e],
         IsInjective(freeq'), Range(freeq') = Range(freeq) \ {e}, readyq' = readyq
  PROVE  SlotExclusive' /\ (SlotsPlaced => SlotsPlaced')
<1> USE ConstantFacts DEF TypeOK
<1>1. slot'[a] = e /\ \A b \in Actors \ {a} : slot'[b] = slot[b]
  OBVIOUS
<1>2. \A b \in Actors : slot[b] \in Range(slot)
  BY DEF Range
<1>3. /\ e \notin Range(readyq)
      /\ \A b \in Actors : slot[b] # e
  BY <1>2 DEF SlotExclusive, FreeSlotsExclusive
<1>4. ReadySlotsExclusive'
  BY <1>1, <1>3 DEF SlotExclusive, ReadySlotsExclusive
<1>5. Range(slot') \subseteq Range(slot) \cup {e}
  BY <1>1 DEF Range
<1>6. FreeSlotsExclusive'
  BY <1>5 DEF SlotExclusive, FreeSlotsExclusive
<1>7. Range(slot) \ {None} \subseteq Range(slot') /\ e \in Range(slot')
  BY <1>1 DEF Range
<1> QED BY <1>4, <1>6, <1>7 DEF SlotsPlaced, SlotExclusive

LEMMA TakeReady ==
  ASSUME TypeOK, SlotExclusive, leftover' = leftover, NEW a \in Actors, slot[a] = None,
         NEW e \in Range(readyq), e \in Slots, slot' = [slot EXCEPT ![a] = e],
         IsInjective(readyq'), Range(readyq') = Range(readyq) \ {e}, freeq' = freeq
  PROVE  SlotExclusive' /\ (SlotsPlaced => SlotsPlaced')
<1> USE ConstantFacts DEF TypeOK
<1>1. slot'[a] = e /\ \A b \in Actors \ {a} : slot'[b] = slot[b]
  OBVIOUS
<1>2. ReadySlotsExclusive'
  BY <1>1 DEF SlotExclusive, ReadySlotsExclusive
<1>3. Range(slot') \subseteq Range(slot) \cup {e}
  BY <1>1 DEF Range
<1>4. ASSUME FreeSlotsExclusive PROVE FreeSlotsExclusive'
  <2>1. Range(readyq') \cup Range(slot') \subseteq Range(readyq) \cup Range(slot)
    BY <1>3
  <2> QED BY <1>4, <2>1 DEF FreeSlotsExclusive
<1>5. Range(slot) \ {None} \subseteq Range(slot') /\ e \in Range(slot')
  BY <1>1 DEF Range
<1> QED BY <1>2, <1>4, <1>5 DEF SlotsPlaced, SlotExclusive

LEMMA PutReady ==
  ASSUME TypeOK, SlotExclusive, ~leftover, ~leftover', NEW a \in Actors, slot[a] \in Slots,
         slot' = [slot EXCEPT ![a] = None],
         readyq' = PushUnchecked(readyq, slot[a]), freeq' = freeq
  PROVE  SlotExclusive' /\ (SlotsPlaced => SlotsPlaced')
<1> USE ConstantFacts DEF TypeOK
<1> DEFINE e == slot[a]
<1>1. slot'[a] = None /\ \A b \in Actors \ {a} : slot'[b] = slot[b]
  OBVIOUS
<1>2. e \notin Range(readyq) /\ e \notin Range(freeq) /\ IsInjective(readyq)
  <2>1. e \in Range(slot) /\ e # None
    BY DEF Range
  <2> QED BY <2>1 DEF SlotExclusive, ReadySlotsExclusive, FreeSlotsExclusive
<1>3. IsInjective(readyq') /\ Range(readyq') = Range(readyq) \cup {e}
  <2>1. readyq' = Append(readyq, e)
    BY <1>2, PushElement
  <2> QED BY <1>2, <2>1, AppendElement
<1>4. ReadySlotsExclusive'
  BY <1>1, <1>3 DEF SlotExclusive, ReadySlotsExclusive
<1>5. Range(slot') \subseteq Range(slot) \cup {None}
  BY <1>1 DEF Range
<1>6. None \notin Range(freeq)
  BY ElementOfSeq, LenProperties DEF Range
<1>7. FreeSlotsExclusive'
  <2>1. Range(readyq') \cup Range(slot')
          \subseteq (Range(readyq) \cup Range(slot)) \cup {e, None}
    BY <1>3, <1>5
  <2>2. IsInjective(freeq) /\ Range(freeq) \cap (Range(readyq) \cup Range(slot)) = {}
    BY DEF SlotExclusive, FreeSlotsExclusive
  <2> HIDE DEF e
  <2>3. Range(freeq) \cap (Range(readyq') \cup Range(slot')) = {}
    BY <1>2, <1>6, <2>1, <2>2
  <2> QED BY <2>2, <2>3 DEF FreeSlotsExclusive
<1>8. Range(slot) \ {e} \subseteq Range(slot')
  BY <1>1 DEF Range
<1> QED BY <1>3, <1>4, <1>7, <1>8 DEF SlotsPlaced, SlotExclusive

LEMMA PutFree ==
  ASSUME TypeOK, SlotExclusive, leftover' = leftover, NEW a \in Actors, slot[a] \in Slots,
         slot' = [slot EXCEPT ![a] = None],
         freeq' = PushUnchecked(freeq, slot[a]), readyq' = readyq
  PROVE  SlotExclusive' /\ (leftover \/ (SlotsPlaced => SlotsPlaced'))
<1> USE ConstantFacts DEF TypeOK
<1> DEFINE e == slot[a]
<1>1. slot'[a] = None /\ \A b \in Actors \ {a} : slot'[b] = slot[b]
  OBVIOUS
<1>2. ReadySlotsExclusive'
  BY <1>1 DEF SlotExclusive, ReadySlotsExclusive
<1>3. ASSUME ~leftover PROVE FreeSlotsExclusive' /\ (SlotsPlaced => SlotsPlaced')
  <2>0. e \in Range(slot) /\ e # None
    BY DEF Range
  <2>1. e \notin Range(readyq) /\ e \notin Range(freeq) /\ IsInjective(freeq)
    BY <1>3, <2>0 DEF SlotExclusive, ReadySlotsExclusive, FreeSlotsExclusive
  <2>2. IsInjective(freeq') /\ Range(freeq') = Range(freeq) \cup {e}
    <3>1. freeq' = Append(freeq, e)
      BY <2>1, PushElement
    <3> QED BY <2>1, <3>1, AppendElement
  <2>3. Range(slot') \subseteq (Range(slot) \ {e}) \cup {None}
    <3>1. \A b \in Actors \ {a} : slot[b] # e
      BY <2>0 DEF SlotExclusive, ReadySlotsExclusive
    <3>2. \A b \in Actors : slot'[b] \in (Range(slot) \ {e}) \cup {None}
      BY <1>1, <3>1 DEF Range
    <3>3. DOMAIN slot' = Actors
      OBVIOUS
    <3> HIDE DEF e
    <3> QED BY <3>2, <3>3 DEF Range
  <2>4. None \notin Range(freeq) /\ e # None
    BY ElementOfSeq, LenProperties DEF Range
  <2>5. FreeSlotsExclusive'
    <3>1. Range(freeq) \cap (Range(readyq) \cup Range(slot)) = {}
      BY <1>3 DEF SlotExclusive, FreeSlotsExclusive
    <3> HIDE DEF e
    <3>2. Range(freeq') \cap (Range(readyq) \cup Range(slot')) = {}
      BY <2>1, <2>2, <2>3, <2>4, <3>1
    <3> QED BY <2>2, <3>2 DEF FreeSlotsExclusive
  <2>6. Range(slot) \ {e} \subseteq Range(slot')
    BY <1>1 DEF Range
  <2> QED BY <2>2, <2>5, <2>6 DEF SlotsPlaced
<1> QED BY <1>2, <1>3 DEF SlotExclusive

LEMMA HandOver ==
  ASSUME TypeOK, SlotExclusive, NEW a \in Actors, NEW b \in Actors, a # b,
         slot[a] \in Slots, slot[b] = None,
         slot' = [slot EXCEPT ![a] = None, ![b] = slot[a]],
         UNCHANGED <<freeq, readyq, leftover>>
  PROVE  SlotExclusive' /\ (SlotsPlaced => SlotsPlaced')
<1> USE ConstantFacts DEF TypeOK
<1>1. /\ slot'[a] = None
      /\ slot'[b] = slot[a]
      /\ \A c \in Actors \ {a, b} : slot'[c] = slot[c]
  OBVIOUS
<1>2. ReadySlotsExclusive'
  BY <1>1 DEF SlotExclusive, ReadySlotsExclusive
<1>3. Range(slot) = Range(slot')
  <2>1. DOMAIN slot = Actors /\ DOMAIN slot' = Actors
    OBVIOUS
  <2>2. \A c \in Actors : slot[c] \in Range(slot')
    <3>1. slot'[a] \in Range(slot') /\ slot'[b] \in Range(slot')
      BY <2>1 DEF Range
    <3>2. \A c \in Actors \ {a, b} : slot[c] \in Range(slot')
      BY <1>1, <2>1 DEF Range
    <3> QED BY <1>1, <3>1, <3>2
  <2>3. \A c \in Actors : slot'[c] \in Range(slot)
    <3>1. slot[a] \in Range(slot) /\ slot[b] \in Range(slot)
      BY <2>1 DEF Range
    <3>2. \A c \in Actors \ {a, b} : slot'[c] \in Range(slot)
      BY <1>1, <2>1 DEF Range
    <3> QED BY <1>1, <3>1, <3>2
  <2>4. Range(slot) \subseteq Range(slot')
    BY <2>1, <2>2 DEF Range
  <2>5. Range(slot') \subseteq Range(slot)
    BY <2>1, <2>3 DEF Range
  <2> QED BY <2>4, <2>5
<1>4. FreeSlotsExclusive => FreeSlotsExclusive'
  BY <1>3 DEF FreeSlotsExclusive
<1> QED BY <1>2, <1>3, <1>4 DEF SlotsPlaced, SlotExclusive

\* return_free_slot hands the slot over or puts it into freeq, and leaves
\* freeq empty when somebody still waits.
LEMMA ReturnKeepsSlots ==
  ASSUME TypeOK, LinksInv, SlotExclusive, NoFreeSlotWhileWaiting,
         NEW a \in Actors, slot[a] \in Slots, ReturnFreeSlot(a),
         UNCHANGED <<readyq, leftover>>
  PROVE  /\ SlotExclusive'
         /\ leftover \/ (SlotsPlaced => SlotsPlaced')
         /\ NoFreeSlotWhileWaiting'
<1>1. CASE waitq # << >>
  <2> DEFINE w == Head(waitq)
  <2>1. w \in Senders /\ w \in Range(waitq)
    BY <1>1, TailElements DEF TypeOK
  <2>2. slot[w] = None /\ w # a
    BY <2>1, ConstantFacts DEF LinksInv
  <2>3. slot' = [slot EXCEPT ![a] = None, ![w] = slot[a]] /\ freeq' = freeq
    BY <1>1 DEF ReturnFreeSlot
  <2>4. freeq = << >>
    BY <1>1 DEF NoFreeSlotWhileWaiting
  <2> HIDE DEF w
  <2>5. w \in Actors
    BY <2>1 DEF Actors
  <2>6. SlotExclusive' /\ (SlotsPlaced => SlotsPlaced')
    BY <2>2, <2>3, <2>5, HandOver
  <2> QED BY <2>3, <2>4, <2>6 DEF NoFreeSlotWhileWaiting
<1>2. CASE waitq = << >>
  <2>1. /\ freeq' = PushUnchecked(freeq, slot[a])
        /\ slot' = [slot EXCEPT ![a] = None]
        /\ waitq' = waitq
    BY <1>2 DEF ReturnFreeSlot
  <2>2. SlotExclusive' /\ (leftover \/ (SlotsPlaced => SlotsPlaced'))
    BY <2>1, PutFree
  <2> QED BY <1>2, <2>1, <2>2 DEF NoFreeSlotWhileWaiting
<1> QED BY <1>1, <1>2

\* After a split that met leftover messages no sender gets past is_closed.
LEMMA LeftoverStep ==
  TypeOK /\ HandsInv /\ LinksInv /\ LeftoverShut /\ [Next]_vars => LeftoverShut'
<1> SUFFICES ASSUME TypeOK, HandsInv, LinksInv, LeftoverShut, [Next]_vars
             PROVE  LeftoverShut'
  OBVIOUS
<1> USE ConstantFacts DEF Goto, chan, Actors
<1>0. leftover => /\ ~DebugAssertions
                  /\ receiver_dropped
                  /\ \A s \in Senders :
                       pc[s] # "try_pop" /\ slot[s] = None /\ link[s] = "none"
  BY DEF LeftoverShut
<1>1. ASSUME UNCHANGED leftover,
             leftover => /\ receiver_dropped'
                         /\ \A s \in Senders :
                              pc'[s] # "try_pop" /\ slot'[s] = None /\ link'[s] = "none"
      PROVE  LeftoverShut'
  BY <1>0, <1>1 DEF LeftoverShut
<1>2. CASE UNCHANGED vars
  BY <1>0, <1>1, <1>2 DEF vars
<1>3. CASE Split
  <2>1. PICK s \in Senders : pc' = Handles(s)
    BY <1>3 DEF Split
  <2>2. receiver_dropped' /\ (leftover' => ~DebugAssertions)
    BY <1>3 DEF Split, AllDropped, HandsInv
  <2>3. \A t \in Senders : slot'[t] = None /\ link'[t] = "none"
    BY <1>3 DEF Split, AllDropped, HandsInv, LinksInv
  <2>4. \A t \in Senders : pc'[t] # "try_pop"
    BY <2>1 DEF Handles
  <2> QED BY <2>2, <2>3, <2>4 DEF LeftoverShut
<1> USE DEF TypeOK
<1>4. ASSUME NEW s \in Senders,
             \/ TrySend(s) \/ TrySendClosed(s) \/ Send(s) \/ CancelSend(s)
             \/ WriteSlot(s) \/ WakeReceiver(s) \/ DropSender(s)
             \/ \E t \in Senders : CloneSender(s, t)
      PROVE  LeftoverShut'
  <2>1. UNCHANGED <<leftover, slot, link, receiver_dropped>>
    BY <1>4 DEF TrySend, BeginSend, TrySendClosed, Send, CancelSend, WriteSlot,
                WakeReceiver, DropSender, CloneSender
  <2>2. ASSUME receiver_dropped, NEW t \in Senders, pc'[t] = "try_pop" PROVE pc[t] = "try_pop"
    BY <1>4, <2>2 DEF TrySend, BeginSend, TrySendClosed, Send, CancelSend, WriteSlot,
                      WakeReceiver, DropSender, CloneSender
  <2> QED BY <1>0, <1>1, <2>1, <2>2
<1>5. ASSUME NEW s \in Senders, TrySendPop(s) PROVE LeftoverShut'
  <2>1. ~leftover /\ UNCHANGED leftover
    BY <1>0, <1>5 DEF TrySendPop
  <2> QED BY <1>1, <2>1
<1>6. ASSUME NEW s \in Senders, PollSend(s) PROVE LeftoverShut'
  <2>1. UNCHANGED <<leftover, receiver_dropped>>
    BY <1>6 DEF PollSend
  <2>2. ASSUME receiver_dropped
        PROVE  UNCHANGED <<slot, link>> /\ pc' = [pc EXCEPT ![s] = "dropper"]
    BY <1>6, <2>2 DEF PollSend
  <2> QED BY <1>0, <1>1, <2>1, <2>2
<1>7. ASSUME NEW s \in Senders, DropLink(s) PROVE LeftoverShut'
  <2>1. /\ UNCHANGED <<leftover, receiver_dropped, slot>>
        /\ link' = [link EXCEPT ![s] = "none"]
        /\ pc' = [pc EXCEPT ![s] = "give_back"]
    BY <1>7 DEF DropLink
  <2> QED BY <1>0, <1>1, <2>1
<1>8. ASSUME NEW s \in Senders, GiveBack(s) PROVE LeftoverShut'
  <2>1. /\ UNCHANGED <<leftover, receiver_dropped>>
        /\ pc' = [pc EXCEPT ![s] = "idle"]
    BY <1>8 DEF GiveBack
  <2>2. ASSUME leftover PROVE UNCHANGED <<slot, link>>
    BY <1>0, <1>8, <2>2 DEF GiveBack
  <2> QED BY <1>0, <1>1, <2>1, <2>2
<1>9. ASSUME NEW s \in Senders, PushReady(s) PROVE LeftoverShut'
  <2>1. ~leftover /\ UNCHANGED leftover
    BY <1>0, <1>9 DEF PushReady, HandsInv
  <2> QED BY <1>1, <2>1
<1>10. CASE \/ TryRecv \/ PollRecv \/ PopReady \/ CopyOut \/ CheckClosed
            \/ CancelRecv \/ DropReceiver \/ Drain \/ DropValue \/ WakeWaiter
  <2>1. UNCHANGED <<leftover, link>> /\ (receiver_dropped => receiver_dropped')
    BY <1>10 DEF TryRecv, PollRecv, PopReady, CopyOut, CheckClosed, CancelRecv,
                 DropReceiver, Drain, DropValue, WakeWaiter
  <2>2. \A s \in Senders : pc'[s] = pc[s] /\ slot'[s] = slot[s]
    BY <1>10 DEF TryRecv, PollRecv, PopReady, CopyOut, CheckClosed, CancelRecv,
                 DropReceiver, Drain, DropValue, WakeWaiter
  <2> QED BY <1>0, <1>1, <2>1, <2>2
<1>11. ASSUME waitq # << >> PROVE ~leftover
  <2>1. Head(waitq) \in Senders /\ Head(waitq) \in Range(waitq)
    BY <1>11, TailElements
  <2> QED BY <1>0, <2>1 DEF LinksInv
<1>12. CASE ReturnSlot
  <2>1. /\ UNCHANGED <<leftover, receiver_dropped>>
        /\ \A s \in Senders : pc'[s] = pc[s]
    BY <1>12 DEF ReturnSlot
  <2>2. ASSUME leftover PROVE link' = link /\ \A s \in Senders : slot'[s] = slot[s]
    BY <1>11, <1>12, <2>2 DEF ReturnSlot, ReturnFreeSlot
  <2> QED BY <1>0, <1>1, <2>1, <2>2
<1>13. CASE PopWaiter
  <2>1. /\ UNCHANGED <<leftover, receiver_dropped, slot>>
        /\ \A s \in Senders : pc'[s] = pc[s]
    BY <1>13 DEF PopWaiter
  <2>2. ASSUME leftover PROVE link' = link
    BY <1>11, <1>13, <2>2 DEF PopWaiter
  <2> QED BY <1>0, <1>1, <2>1, <2>2
<1> QED BY <1>2, <1>3, <1>4, <1>5, <1>6, <1>7, <1>8, <1>9, <1>10, <1>12, <1>13
        DEF Next, SenderNext, ReceiverNext

LEMMA SlotsStep ==
  SlotInv /\ [Next]_vars => /\ SlotExclusive'
                            /\ SlotNotLost'
                            /\ NoFreeSlotWhileWaiting'
<1> DEFINE Kept == /\ SlotExclusive'
                   /\ SlotNotLost'
                   /\ NoFreeSlotWhileWaiting'
<1> SUFFICES ASSUME SlotInv, [Next]_vars PROVE Kept
  OBVIOUS
<1>0. /\ TypeOK /\ HandsInv /\ LinksInv /\ LeftoverShut
      /\ SlotExclusive /\ SlotNotLost /\ NoFreeSlotWhileWaiting
      /\ ~receiver_dropped => SlotsPlaced
      /\ leftover => receiver_dropped
  BY DEF SlotInv, SlotNotLost, SlotsPlaced, LeftoverShut
<1> USE ConstantFacts DEF Goto, chan
<1>1. ASSUME UNCHANGED <<freeq, readyq, slot, leftover>>,
             receiver_dropped => receiver_dropped',
             waitq' # << >> => waitq # << >> \/ freeq = << >>
      PROVE  Kept
  BY <1>0, <1>1 DEF SlotExclusive, ReadySlotsExclusive, FreeSlotsExclusive,
                    SlotNotLost, NoFreeSlotWhileWaiting
<1>2. ASSUME SlotExclusive', leftover \/ (SlotsPlaced => SlotsPlaced'),
             receiver_dropped' = receiver_dropped,
             NoFreeSlotWhileWaiting'
      PROVE  Kept
  BY <1>0, <1>2 DEF SlotNotLost, SlotsPlaced
<1>3. ASSUME Split PROVE Kept
  <2>1. receiver_dropped' /\ \A a \in Actors : slot[a] = None
    BY <1>0, <1>3 DEF Split, AllDropped, HandsInv, TypeOK, Actors
  <2>2. waitq = << >>
    <3>1. \A s \in Senders : link[s] = "none"
      BY <1>0, <1>3 DEF Split, AllDropped, LinksInv
    <3>2. waitq # << >> => Head(waitq) \in Senders /\ Head(waitq) \in Range(waitq)
      BY <1>0, TailElements DEF TypeOK
    <3> QED BY <1>0, <3>1, <3>2 DEF LinksInv
  <2>3. /\ freeq' = AllSlots
        /\ UNCHANGED <<slot, waitq, readyq>>
        /\ leftover' = (readyq # << >>)
    BY <1>3 DEF Split, Refilled
  <2>4. ReadySlotsExclusive'
    BY <1>0, <2>3 DEF SlotExclusive, ReadySlotsExclusive
  <2>5. Range(slot) \subseteq {None}
    BY <1>0, <2>1 DEF TypeOK, Range
  <2>6. ~leftover' => FreeSlotsExclusive'
    <3>1. ASSUME ~leftover' PROVE Range(readyq') = {}
      <4>1. readyq' = << >>
        BY <2>3, <3>1
      <4> QED BY <4>1 DEF Range
    <3>2. Range(slot') \subseteq {None} /\ None \notin Slots
      BY <2>3, <2>5, ConstantFacts
    <3>3. IsInjective(freeq') /\ Range(freeq') = Slots
      BY <2>3, ConstantFacts
    <3> QED BY <3>1, <3>2, <3>3 DEF FreeSlotsExclusive
  <2> QED BY <2>1, <2>2, <2>3, <2>4, <2>6
          DEF SlotExclusive, SlotNotLost, NoFreeSlotWhileWaiting
<1>4. ASSUME NEW s \in Senders, TrySendPop(s) PROVE Kept
  <2>1. CASE freeq = << >>
    BY <1>1, <1>4, <2>1 DEF TrySendPop
  <2>2. CASE freeq # << >>
    <3> DEFINE e == Head(freeq)
    <3>0. ~leftover
      BY <1>0, <1>4 DEF LeftoverShut, TrySendPop
    <3>1. /\ e \in Slots /\ e \in Range(freeq)
          /\ IsInjective(Tail(freeq))
          /\ Range(Tail(freeq)) = Range(freeq) \ {e}
      BY <1>0, <2>2, <3>0, TailElements DEF TypeOK, SlotExclusive, FreeSlotsExclusive
    <3>2. /\ freeq' = Tail(freeq)
          /\ slot' = [slot EXCEPT ![s] = e]
          /\ UNCHANGED <<readyq, waitq, receiver_dropped, leftover>>
      BY <1>4, <2>2 DEF TrySendPop
    <3>3. slot[s] = None /\ waitq = << >> /\ s \in Actors
      BY <1>0, <1>4, <2>2 DEF TrySendPop, HandsInv, NoFreeSlotWhileWaiting, Actors
    <3> HIDE DEF e
    <3>4. SlotExclusive' /\ (SlotsPlaced => SlotsPlaced')
      BY <1>0, <3>0, <3>1, <3>2, <3>3, TakeFree
    <3> QED BY <1>2, <3>2, <3>3, <3>4 DEF NoFreeSlotWhileWaiting
  <2> QED BY <2>1, <2>2
<1>5. ASSUME NEW s \in Senders, PollSend(s) PROVE Kept
  <2>1. CASE UNCHANGED <<freeq, slot>>
    BY <1>1, <1>5, <2>1 DEF PollSend
  <2>2. CASE ~UNCHANGED <<freeq, slot>>
    <3> DEFINE e == Last(freeq)
    <3>1. /\ freeq # << >>
          /\ freeq' = Front(freeq)
          /\ slot' = [slot EXCEPT ![s] = e]
          /\ UNCHANGED <<readyq, waitq, receiver_dropped, leftover>>
          /\ ~receiver_dropped
          /\ link[s] = "none" /\ waitq = << >> /\ pc[s] = "sending"
      BY <1>5, <2>2 DEF PollSend
    <3>0. ~leftover
      BY <1>0, <3>1
    <3>2. /\ e \in Slots /\ e \in Range(freeq)
          /\ IsInjective(Front(freeq))
          /\ Range(Front(freeq)) = Range(freeq) \ {e}
      BY <1>0, <3>0, <3>1, FrontElements DEF TypeOK, SlotExclusive, FreeSlotsExclusive
    <3>3. slot[s] = None /\ s \in Actors
      BY <1>0, <3>1 DEF HandsInv, Actors
    <3> HIDE DEF e
    <3>4. SlotExclusive' /\ (SlotsPlaced => SlotsPlaced')
      BY <1>0, <3>0, <3>1, <3>2, <3>3, TakeFree
    <3> QED BY <1>2, <3>1, <3>4 DEF NoFreeSlotWhileWaiting
  <2> QED BY <2>1, <2>2
<1>6. ASSUME NEW s \in Senders, DropLink(s) PROVE Kept
  <2>1. waitq = << >> => waitq' = << >>
    <3>1. waitq = << >> => link[s] # "linked"
      BY <1>0 DEF LinksInv, Range
    <3> QED BY <1>6, <3>1 DEF DropLink
  <2> QED BY <1>1, <1>6, <2>1 DEF DropLink
<1>7. ASSUME NEW s \in Senders, GiveBack(s) PROVE Kept
  <2>1. CASE slot[s] = None
    BY <1>1, <1>7, <2>1 DEF GiveBack
  <2>2. CASE slot[s] # None
    <3>1. /\ s \in Actors /\ slot[s] \in Slots /\ ReturnFreeSlot(s)
          /\ UNCHANGED <<readyq, receiver_dropped, leftover>>
      BY <1>0, <1>7, <2>2 DEF GiveBack, TypeOK, Actors
    <3>2. /\ SlotExclusive' /\ NoFreeSlotWhileWaiting'
          /\ leftover \/ (SlotsPlaced => SlotsPlaced')
      BY <1>0, <3>1, ReturnKeepsSlots
    <3> QED BY <1>2, <3>1, <3>2
  <2> QED BY <2>1, <2>2
<1>8. ASSUME NEW s \in Senders, PushReady(s) PROVE Kept
  <2>1. /\ s \in Actors /\ slot[s] \in Slots
        /\ readyq' = PushUnchecked(readyq, slot[s])
        /\ slot' = [slot EXCEPT ![s] = None]
        /\ UNCHANGED <<freeq, waitq, receiver_dropped, leftover>>
    BY <1>0, <1>8 DEF PushReady, TypeOK, HandsInv, Actors
  <2>2. ~leftover
    BY <1>0, <2>1, ConstantFacts DEF LeftoverShut
  <2>3. SlotExclusive' /\ (SlotsPlaced => SlotsPlaced')
    BY <1>0, <2>1, <2>2, PutReady
  <2> QED BY <1>0, <1>2, <2>1, <2>3 DEF NoFreeSlotWhileWaiting
<1>9. ASSUME NEW s \in Senders,
             \/ TrySend(s) \/ TrySendClosed(s) \/ Send(s) \/ CancelSend(s)
             \/ WriteSlot(s) \/ WakeReceiver(s) \/ DropSender(s)
             \/ \E t \in Senders : CloneSender(s, t)
      PROVE  Kept
  <2>1. UNCHANGED <<freeq, readyq, slot, waitq, receiver_dropped, leftover>>
    BY <1>9 DEF TrySend, BeginSend, TrySendClosed, Send, CancelSend, WriteSlot,
                WakeReceiver, DropSender, CloneSender
  <2> QED BY <1>1, <2>1
<1>10. ASSUME PopReady \/ Drain PROVE Kept
  <2>1. CASE readyq = << >>
    BY <1>1, <1>10, <2>1 DEF PopReady, Drain
  <2>2. CASE readyq # << >>
    <3>1. PICK e \in Slots :
            /\ e \in Range(readyq)
            /\ slot' = [slot EXCEPT ![RX] = e]
            /\ IsInjective(readyq')
            /\ Range(readyq') = Range(readyq) \ {e}
      <4>1. readyq \in Seq(Slots) /\ IsInjective(readyq)
        BY <1>0 DEF TypeOK, SlotExclusive, ReadySlotsExclusive
      <4>2. CASE PopReady
        <5>1. slot' = [slot EXCEPT ![RX] = Head(readyq)] /\ readyq' = Tail(readyq)
          BY <2>2, <4>2 DEF PopReady
        <5> QED BY <2>2, <4>1, <5>1, TailElements, Zenon
      <4>3. CASE Drain
        <5>1. slot' = [slot EXCEPT ![RX] = Last(readyq)] /\ readyq' = Front(readyq)
          BY <2>2, <4>3 DEF Drain
        <5> QED BY <2>2, <4>1, <5>1, FrontElements, Zenon
      <4> QED BY <1>10, <4>2, <4>3
    <3>2. /\ slot[RX] = None /\ RX \in Actors
          /\ UNCHANGED <<freeq, waitq, receiver_dropped, leftover>>
      BY <1>0, <1>10 DEF PopReady, Drain, HandsInv, Actors
    <3>3. SlotExclusive' /\ (SlotsPlaced => SlotsPlaced')
      BY <1>0, <3>1, <3>2, TakeReady
    <3> QED BY <1>0, <1>2, <3>2, <3>3 DEF NoFreeSlotWhileWaiting
  <2> QED BY <2>1, <2>2
<1>11. ASSUME ReturnSlot PROVE Kept
  <2>1. /\ RX \in Actors /\ slot[RX] \in Slots /\ ReturnFreeSlot(RX)
        /\ UNCHANGED <<readyq, receiver_dropped, leftover>>
    BY <1>0, <1>11 DEF ReturnSlot, TypeOK, HandsInv, Actors
  <2>2. /\ SlotExclusive' /\ NoFreeSlotWhileWaiting'
        /\ leftover \/ (SlotsPlaced => SlotsPlaced')
    BY <1>0, <2>1, ReturnKeepsSlots
  <2> QED BY <1>2, <2>1, <2>2
<1>12. ASSUME DropValue PROVE Kept
  <2>1. /\ receiver_dropped'
        /\ slot' = [slot EXCEPT ![RX] = None]
        /\ UNCHANGED <<freeq, readyq, waitq, leftover>>
    BY <1>0, <1>12 DEF DropValue, HandsInv
  <2>2. ReadySlotsExclusive'
    BY <1>0, <2>1 DEF SlotExclusive, ReadySlotsExclusive, TypeOK
  <2>3. FreeSlotsExclusive => FreeSlotsExclusive'
    <3>1. Range(slot') \subseteq Range(slot) \cup {None}
      BY <1>0, <2>1 DEF TypeOK, Range
    <3>2. None \notin Range(freeq)
      BY <1>0, ElementOfSeq, LenProperties DEF TypeOK, Range
    <3> QED BY <2>1, <3>1, <3>2 DEF FreeSlotsExclusive
  <2> QED BY <1>0, <2>1, <2>2, <2>3 DEF SlotExclusive, SlotNotLost, NoFreeSlotWhileWaiting
<1>13. ASSUME PopWaiter PROVE Kept
  <2>1. UNCHANGED <<freeq, readyq, slot, receiver_dropped, leftover>>
    BY <1>13 DEF PopWaiter
  <2>2. waitq' # << >> => waitq # << >>
    BY <1>13 DEF PopWaiter
  <2> QED BY <1>1, <2>1, <2>2
<1>14. ASSUME \/ TryRecv \/ PollRecv \/ CopyOut \/ CheckClosed \/ CancelRecv
              \/ DropReceiver \/ WakeWaiter
       PROVE  Kept
  <2>1. UNCHANGED <<freeq, readyq, slot, waitq, leftover>>
    BY <1>14 DEF TryRecv, PollRecv, CopyOut, CheckClosed, CancelRecv,
                 DropReceiver, WakeWaiter
  <2>2. receiver_dropped => receiver_dropped'
    BY <1>14 DEF TryRecv, PollRecv, CopyOut, CheckClosed, CancelRecv,
                 DropReceiver, WakeWaiter
  <2> QED BY <1>1, <2>1, <2>2
<1>15. ASSUME UNCHANGED vars PROVE Kept
  BY <1>1, <1>15 DEF vars
<1> HIDE DEF Kept
<1>16. Kept
  BY <1>3, <1>4, <1>5, <1>6, <1>7, <1>8, <1>9, <1>10, <1>11, <1>12, <1>13,
     <1>14, <1>15
     DEF Next, SenderNext, ReceiverNext
<1> QED BY <1>16

-----------------------------------------------------------------------------
\* SlotInv is an inductive invariant of the channel.
LEMMA SlotInvStep == SlotInv /\ [Next]_vars => SlotInv'
<1> SUFFICES ASSUME SlotInv, [Next]_vars PROVE SlotInv'
  OBVIOUS
<1>1. TypeOK /\ HandsInv /\ LinksInv /\ LeftoverShut
  BY DEF SlotInv
<1>2. TypeOK' /\ HandsInv' /\ LinksInv' /\ LeftoverShut'
  BY <1>1, TypeStep, HandsStep, LinksStep, LeftoverStep
<1>3. SlotExclusive' /\ SlotNotLost' /\ NoFreeSlotWhileWaiting'
  BY SlotsStep
<1> QED BY <1>2, <1>3 DEF SlotInv

THEOREM SlotInvariance == Spec => []SlotInv
BY InitSlotInv, SlotInvStep, PTL DEF Spec

\* Every field keeps its type, for any capacity and any senders.
THEOREM TypeCorrect == Spec => []TypeOK
<1>1. SlotInv => TypeOK
  BY DEF SlotInv
<1> QED BY <1>1, SlotInvariance, PTL

\* The memcpys of send_footer and read_slot are exclusive in every build, and a
\* free slot is nowhere else unless a split met leftover messages.
THEOREM SlotsExclusive == Spec => []SlotExclusive
<1>1. SlotInv => SlotExclusive
  BY DEF SlotInv
<1> QED BY <1>1, SlotInvariance, PTL

\* The unchecked pushes have room, with debug assertions always, and without them
\* unless a split met leftover messages.
THEOREM PushesFit == Spec => []((leftover /\ ~DebugAssertions) \/ PushesHaveRoom)
<1>1. ASSUME SlotInv PROVE (leftover /\ ~DebugAssertions) \/ PushesHaveRoom
  <2>0. /\ TypeOK /\ HandsInv /\ SlotExclusive
        /\ leftover => ~DebugAssertions
    BY <1>1 DEF SlotInv, LeftoverShut
  <2>1. ASSUME NEW s \in Senders, pc[s] = "push" PROVE Len(readyq) < N
    <3>0. slot[s] \in Slots /\ s \in Actors
      BY <2>0, <2>1 DEF HandsInv, TypeOK, Actors
    <3>1. slot[s] \notin Range(readyq) /\ IsInjective(readyq)
      BY <2>0, <3>0, ConstantFacts DEF SlotExclusive, ReadySlotsExclusive
    <3> QED BY <2>0, <3>0, <3>1, RoomLeft DEF TypeOK
  <2>2. ASSUME ~leftover, NEW a \in Actors, slot[a] # None PROVE Len(freeq) < N
    <3>0. slot[a] \in Slots /\ slot[a] \in Range(slot)
      BY <2>0, <2>2 DEF TypeOK, Range
    <3>1. slot[a] \notin Range(freeq) /\ IsInjective(freeq)
      BY <2>0, <2>2, <3>0 DEF SlotExclusive, FreeSlotsExclusive
    <3> QED BY <2>0, <3>0, <3>1, RoomLeft DEF TypeOK
  <2> QED BY <2>0, <2>1, <2>2 DEF PushesHaveRoom
<1> QED BY <1>1, SlotInvariance, PTL

\* No capacity is lost while the receiver exists, whatever is cancelled.
THEOREM SlotsNotLost == Spec => []SlotNotLost
<1>1. SlotInv => SlotNotLost
  BY DEF SlotInv
<1> QED BY <1>1, SlotInvariance, PTL

\* No sender waits while a slot is free.
THEOREM WaitersOnlyWhenFull == Spec => []NoFreeSlotWhileWaiting
<1>1. SlotInv => NoFreeSlotWhileWaiting
  BY DEF SlotInv
<1> QED BY <1>1, SlotInvariance, PTL
-----------------------------------------------------------------------------
(***************************************************************************)
(* The senders are counted: num_senders is 0 exactly when the last handle  *)
(* is dropped, whoever clones in between.                                  *)
(***************************************************************************)
LEMMA CountStep ==
  TypeOK /\ SendersCounted /\ [Next]_vars => SendersCounted'
<1> SUFFICES ASSUME TypeOK, SendersCounted, [Next]_vars PROVE SendersCounted'
  OBVIOUS
<1>0. IsFiniteSet(LiveSenders) /\ Cardinality(LiveSenders) \in Nat
  BY ActorsAssumption, FS_Subset, FS_CardinalityType DEF LiveSenders
<1>1. ASSUME UNCHANGED num_senders, LiveSenders' = LiveSenders PROVE SendersCounted'
  BY <1>1 DEF SendersCounted
<1> USE ConstantFacts DEF TypeOK, Goto, chan, Actors
<1>2. ASSUME Split PROVE SendersCounted'
  <2>1. PICK s \in Senders : pc' = Handles(s)
    BY <1>2 DEF Split
  <2>2. LiveSenders' = {s}
    BY <2>1 DEF LiveSenders, Handles
  <2>3. Cardinality({s}) = 1
    BY FS_Singleton
  <2> QED BY <1>2, <2>2, <2>3 DEF Split, SendersCounted
<1>3. ASSUME NEW s \in Senders, NEW t \in Senders, CloneSender(s, t)
      PROVE  SendersCounted'
  <2>1. t \notin LiveSenders /\ LiveSenders' = LiveSenders \cup {t}
    BY <1>3 DEF CloneSender, LiveSenders
  <2>2. Cardinality(LiveSenders') = Cardinality(LiveSenders) + 1
    BY <1>0, <2>1, FS_AddElement
  <2> QED BY <1>3, <2>2 DEF CloneSender, SendersCounted
<1>4. ASSUME NEW s \in Senders, DropSender(s) PROVE SendersCounted'
  <2>1. s \in LiveSenders /\ LiveSenders' = LiveSenders \ {s}
    BY <1>4 DEF DropSender, LiveSenders
  <2>2. Cardinality(LiveSenders') = Cardinality(LiveSenders) - 1
    BY <1>0, <2>1, FS_RemoveElement
  <2> QED BY <1>4, <2>2 DEF DropSender, SendersCounted
<1>5. ASSUME NEW s \in Senders,
             \/ TrySend(s) \/ TrySendClosed(s) \/ TrySendPop(s) \/ Send(s)
             \/ CancelSend(s) \/ DropLink(s) \/ GiveBack(s) \/ WriteSlot(s)
             \/ PushReady(s)
      PROVE  SendersCounted'
  <2>1. UNCHANGED num_senders /\ LiveSenders' = LiveSenders
    BY <1>5 DEF TrySend, TrySendClosed, TrySendPop, Send, BeginSend, CancelSend,
                DropLink, GiveBack, WriteSlot, PushReady, LiveSenders
  <2> QED BY <1>1, <2>1
<1>6. ASSUME NEW s \in Senders, PollSend(s) \/ WakeReceiver(s) PROVE SendersCounted'
  <2>1. UNCHANGED num_senders
    BY <1>6 DEF PollSend, WakeReceiver
  <2>2. LiveSenders' = LiveSenders
    BY <1>6 DEF PollSend, WakeReceiver, LiveSenders
  <2> QED BY <1>1, <2>1, <2>2
<1>7. ASSUME ReceiverNext PROVE SendersCounted'
  <2>1. UNCHANGED num_senders /\ \A s \in Senders : pc'[s] = pc[s]
    BY <1>7 DEF ReceiverNext, TryRecv, PollRecv, PopReady, CopyOut, ReturnSlot,
                CheckClosed, CancelRecv, DropReceiver, Drain, DropValue,
                PopWaiter, WakeWaiter
  <2> QED BY <1>1, <2>1 DEF LiveSenders
<1>8. ASSUME UNCHANGED vars PROVE SendersCounted'
  BY <1>1, <1>8 DEF vars, LiveSenders
<1> QED BY <1>2, <1>3, <1>4, <1>5, <1>6, <1>7, <1>8 DEF Next, SenderNext

-----------------------------------------------------------------------------
(***************************************************************************)
(* Waiting senders are served.                                             *)
(***************************************************************************)

\* return_free_slot wakes the sender it pops and takes nothing from the rest.
LEMMA ReturnServes ==
  ASSUME TypeOK, NEW a \in Actors, slot[a] \in Slots, ReturnFreeSlot(a)
  PROVE  /\ woken'[RX] = woken[RX]
         /\ waitq = << >> => waitq' = << >>
         /\ \A s \in Senders \ {a} :
              \/ /\ slot'[s] = slot[s] /\ link'[s] = link[s]
                 /\ woken'[s] = woken[s]
              \/ slot'[s] # None /\ woken'[s]
<1> USE ConstantFacts DEF TypeOK, Actors
<1>1. CASE waitq # << >>
  <2>1. PICK w \in Senders :
          /\ link' = [link EXCEPT ![w] = "popped"]
          /\ slot' = [slot EXCEPT ![a] = None, ![w] = slot[a]]
          /\ woken' = [woken EXCEPT ![w] = TRUE]
    BY <1>1, TailElements, Zenon DEF ReturnFreeSlot, TypeOK
  <2> QED BY <1>1, <2>1
<1>2. CASE waitq = << >>
  BY <1>2 DEF ReturnFreeSlot
<1> QED BY <1>1, <1>2

LEMMA ServedStep ==
  SlotInv /\ PoppedWaiterIsServed /\ [Next]_vars => PoppedWaiterIsServed'
<1> SUFFICES ASSUME SlotInv, PoppedWaiterIsServed, [Next]_vars
             PROVE  PoppedWaiterIsServed'
  OBVIOUS
<1>0. TypeOK /\ HandsInv /\ LinksInv
  BY DEF SlotInv
<1> DEFINE Served(s) ==
             pc[s] = "sending" /\ link[s] = "popped" =>
               /\ woken[s] \/ waking = s
               /\ slot[s] # None \/ receiver_dropped
           NoneLeft == pc[RX] = "dropped" => waitq = << >>
<1>1. (\A s \in Senders : Served(s)) /\ NoneLeft
  BY DEF PoppedWaiterIsServed
<1>2. ASSUME \A s \in Senders : Served(s)', NoneLeft' PROVE PoppedWaiterIsServed'
  BY <1>2 DEF PoppedWaiterIsServed
<1> USE ConstantFacts, <1>0, <1>1 DEF TypeOK, Goto, chan, Actors
<1>3. ASSUME Split PROVE PoppedWaiterIsServed'
  BY <1>2, <1>3 DEF Split, AllDropped, Handles, LinksInv
<1>4. ASSUME NEW s \in Senders,
             \/ TrySend(s) \/ TrySendClosed(s) \/ TrySendPop(s) \/ Send(s)
             \/ CancelSend(s) \/ WriteSlot(s) \/ PushReady(s)
             \/ WakeReceiver(s) \/ DropSender(s)
             \/ \E t \in Senders : CloneSender(s, t)
      PROVE  PoppedWaiterIsServed'
  <2>1. /\ UNCHANGED <<waitq, waking, receiver_dropped, link>> /\ pc'[RX] = pc[RX]
        /\ \A t \in Senders : woken[t] => woken'[t]
    BY <1>4 DEF TrySend, TrySendClosed, TrySendPop, Send, BeginSend, CancelSend,
                WriteSlot, PushReady, WakeReceiver, DropSender, CloneSender
  <2>2. \A t \in Senders : pc'[t] = "sending" =>
          slot'[t] = slot[t] /\ (pc[t] = "sending" \/ link[t] = "none")
    BY <1>4 DEF TrySend, TrySendClosed, TrySendPop, Send, BeginSend, CancelSend,
                WriteSlot, PushReady, WakeReceiver, DropSender, CloneSender, LinksInv
  <2> QED BY <1>2, <2>1, <2>2
<1>5. ASSUME NEW s \in Senders, PollSend(s) PROVE PoppedWaiterIsServed'
  <2>1. /\ UNCHANGED <<waking, receiver_dropped>> /\ pc'[RX] = pc[RX]
        /\ \A t \in Senders \ {s} :
             pc'[t] = pc[t] /\ link'[t] = link[t] /\ slot'[t] = slot[t]
             /\ woken'[t] = woken[t]
    BY <1>5 DEF PollSend
  <2>2. pc'[s] = "sending" => link'[s] # "popped"
    BY <1>5 DEF PollSend
  <2>3. receiver_dropped => UNCHANGED waitq
    BY <1>5 DEF PollSend
  <2> QED BY <1>2, <2>1, <2>2, <2>3 DEF HandsInv
<1>6. ASSUME NEW s \in Senders, DropLink(s) PROVE PoppedWaiterIsServed'
  <2>1. waitq = << >> => waitq' = << >>
    BY <1>6 DEF DropLink, LinksInv, Range
  <2> QED BY <1>2, <1>6, <2>1 DEF DropLink
<1>7. ASSUME NEW s \in Senders, GiveBack(s) PROVE PoppedWaiterIsServed'
  <2>1. /\ UNCHANGED <<waking, receiver_dropped>>
        /\ pc' = [pc EXCEPT ![s] = "idle"]
    BY <1>7 DEF GiveBack
  <2>2. CASE slot[s] = None
    BY <1>2, <1>7, <2>1, <2>2 DEF GiveBack
  <2>3. CASE slot[s] # None
    <3>1. slot[s] \in Slots /\ ReturnFreeSlot(s)
      BY <1>7, <2>3 DEF GiveBack
    <3>2. /\ waitq = << >> => waitq' = << >>
          /\ \A t \in Senders \ {s} :
               \/ /\ slot'[t] = slot[t] /\ link'[t] = link[t]
                  /\ woken'[t] = woken[t]
               \/ slot'[t] # None /\ woken'[t]
      BY <3>1, ReturnServes
    <3> QED BY <1>2, <2>1, <3>2
  <2> QED BY <2>2, <2>3
<1>8. ASSUME ReturnSlot PROVE PoppedWaiterIsServed'
  <2>1. /\ UNCHANGED <<waking, receiver_dropped>>
        /\ pc' = [pc EXCEPT ![RX] = "idle"]
        /\ slot[RX] \in Slots /\ ReturnFreeSlot(RX)
    BY <1>8 DEF ReturnSlot, HandsInv
  <2>2. \A t \in Senders \ {RX} :
          \/ /\ slot'[t] = slot[t] /\ link'[t] = link[t]
             /\ woken'[t] = woken[t]
          \/ slot'[t] # None /\ woken'[t]
    BY <2>1, ReturnServes
  <2> QED BY <1>2, <2>1, <2>2
<1>9. ASSUME \/ TryRecv \/ PollRecv \/ PopReady \/ CopyOut \/ CheckClosed
             \/ CancelRecv \/ DropReceiver \/ Drain \/ DropValue
      PROVE  PoppedWaiterIsServed'
  <2>1. UNCHANGED <<waitq, waking, link>> /\ pc'[RX] # "dropped"
    BY <1>9 DEF TryRecv, PollRecv, PopReady, CopyOut, CheckClosed, CancelRecv,
                DropReceiver, Drain, DropValue
  <2>2. /\ \A t \in Senders : pc'[t] = pc[t] /\ slot'[t] = slot[t] /\ woken'[t] = woken[t]
        /\ receiver_dropped => receiver_dropped'
    BY <1>9 DEF TryRecv, PollRecv, PopReady, CopyOut, CheckClosed, CancelRecv,
                DropReceiver, Drain, DropValue
  <2> QED BY <1>2, <2>1, <2>2
<1>10. ASSUME PopWaiter PROVE PoppedWaiterIsServed'
  <2>1. waking = None /\ receiver_dropped
    BY <1>10 DEF PopWaiter, HandsInv
  <2>2. CASE waitq = << >>
    BY <1>2, <1>10, <2>2 DEF PopWaiter
  <2>3. CASE waitq # << >>
    <3>1. /\ link' = [link EXCEPT ![waking'] = "popped"]
          /\ pc' = [pc EXCEPT ![RX] = "wake_one"]
          /\ UNCHANGED <<slot, woken, receiver_dropped>>
      BY <1>10, <2>3 DEF PopWaiter
    <3>2. \A t \in Senders : Served(t)'
      <4> SUFFICES ASSUME NEW t \in Senders PROVE Served(t)'
        OBVIOUS
      <4>1. CASE t = waking'
        BY <2>1, <3>1, <4>1
      <4>2. CASE t # waking'
        BY <2>1, <3>1, <4>2
      <4> QED BY <4>1, <4>2
    <3> QED BY <1>2, <3>1, <3>2
  <2> QED BY <2>2, <2>3
<1>11. ASSUME WakeWaiter PROVE PoppedWaiterIsServed'
  BY <1>2, <1>11 DEF WakeWaiter, HandsInv
<1>12. ASSUME UNCHANGED vars PROVE PoppedWaiterIsServed'
  BY <1>2, <1>12 DEF vars
<1> QED BY <1>3, <1>4, <1>5, <1>6, <1>7, <1>8, <1>9, <1>10, <1>11, <1>12
        DEF Next, SenderNext, ReceiverNext

-----------------------------------------------------------------------------
(***************************************************************************)
(* The receiver misses no message: between its look at readyq and its      *)
(* sleep any number of senders may push, but each of them still has its    *)
(* wake to give.                                                           *)
(***************************************************************************)
LEMMA RecvStep ==
  SlotInv /\ SendersCounted /\ RecvInv /\ [Next]_vars => RecvInv'
<1> SUFFICES ASSUME SlotInv, SendersCounted, RecvInv, [Next]_vars PROVE RecvInv'
  OBVIOUS
<1>0. TypeOK /\ HandsInv
  BY DEF SlotInv
<1> USE ConstantFacts, <1>0 DEF TypeOK, Goto, chan, Actors, RecvInv
<1>1. ASSUME Split PROVE RecvInv'
  BY <1>1 DEF Split, Handles
<1>2. ASSUME NEW s \in Senders,
             \/ TrySend(s) \/ TrySendClosed(s) \/ TrySendPop(s) \/ Send(s)
             \/ CancelSend(s) \/ DropLink(s) \/ WriteSlot(s)
      PROVE  RecvInv'
  <2>1. /\ UNCHANGED <<mode, receiver_waker, readyq, num_senders>>
        /\ pc'[RX] = pc[RX] /\ woken'[RX] = woken[RX]
    BY <1>2 DEF TrySend, TrySendClosed, TrySendPop, Send, BeginSend, CancelSend,
                DropLink, WriteSlot
  <2>2. \A t \in Senders : pc[t] \in {"wake", "drop_wake"} => pc'[t] = pc[t]
    BY <1>2 DEF TrySend, TrySendClosed, TrySendPop, Send, BeginSend, CancelSend,
                DropLink, WriteSlot
  <2> QED BY <2>1, <2>2
<1>3. ASSUME NEW s \in Senders, PollSend(s) \/ GiveBack(s) PROVE RecvInv'
  <2>1. UNCHANGED <<mode, receiver_waker, readyq, num_senders>> /\ pc'[RX] = pc[RX]
    BY <1>3 DEF PollSend, GiveBack
  <2>2. \A t \in Senders : pc[t] \in {"wake", "drop_wake"} => pc'[t] = pc[t]
    BY <1>3 DEF PollSend, GiveBack
  <2>3. woken'[RX] = woken[RX]
    <3>1. CASE GiveBack(s) /\ slot[s] # None
      BY <3>1, ReturnServes DEF GiveBack
    <3>2. CASE PollSend(s) \/ slot[s] = None
      BY <1>3, <3>2 DEF PollSend, GiveBack
    <3> QED BY <1>3, <3>1, <3>2
  <2> QED BY <2>1, <2>2, <2>3
<1>4. ASSUME NEW s \in Senders, PushReady(s) PROVE RecvInv'
  <2>1. /\ UNCHANGED <<mode, receiver_waker, num_senders, woken>>
        /\ pc[s] = "push" /\ pc' = [pc EXCEPT ![s] = "wake"]
    BY <1>4 DEF PushReady
  <2> QED BY <2>1
<1>5. ASSUME NEW s \in Senders, WakeReceiver(s) PROVE RecvInv'
  <2>1. /\ UNCHANGED <<mode, readyq, num_senders>>
        /\ pc'[RX] = pc[RX]
        /\ woken'[RX] <=> woken[RX] \/ receiver_waker
    BY <1>5 DEF WakeReceiver
  <2> QED BY <2>1
<1>6. ASSUME NEW s \in Senders, DropSender(s) PROVE RecvInv'
  <2>1. /\ UNCHANGED <<mode, readyq, receiver_waker, woken>>
        /\ pc'[RX] = pc[RX]
        /\ num_senders' = 0 => pc'[s] = "drop_wake"
        /\ \A t \in Senders : pc[t] \in {"wake", "drop_wake"} => pc'[t] = pc[t]
    BY <1>6 DEF DropSender
  <2> HIDE DEF TypeOK, Actors
  <2> QED BY <2>1
<1>7. ASSUME NEW s \in Senders, NEW t \in Senders, CloneSender(s, t) PROVE RecvInv'
  <2>1. /\ UNCHANGED <<mode, readyq, receiver_waker, woken>>
        /\ pc'[RX] = pc[RX]
        /\ num_senders' = num_senders + 1
        /\ \A u \in Senders : pc[u] \in {"wake", "drop_wake"} => pc'[u] = pc[u]
    BY <1>7 DEF CloneSender
  <2>2. num_senders' # 0
    <3>1. num_senders \in Nat
      BY ActorsAssumption, FS_Subset, FS_CardinalityType DEF SendersCounted, LiveSenders
    <3> QED BY <2>1, <3>1
  <2> HIDE DEF TypeOK, Actors
  <2> QED BY <2>1, <2>2
<1>8. ASSUME TryRecv \/ CopyOut \/ CancelRecv \/ DropReceiver \/ Drain
             \/ DropValue \/ PopWaiter \/ WakeWaiter
      PROVE  RecvInv'
  <2>1. /\ pc'[RX] \notin {"check_closed", "parked"}
        /\ pc'[RX] = "pop" => mode' = "try_recv"
    BY <1>8 DEF TryRecv, CopyOut, CancelRecv, DropReceiver, Drain, DropValue,
                PopWaiter, WakeWaiter
  <2> QED BY <2>1
<1>9. ASSUME PollRecv PROVE RecvInv'
  BY <1>9 DEF PollRecv
<1>10. ASSUME PopReady PROVE RecvInv'
  <2>1. UNCHANGED <<mode, receiver_waker, woken>> /\ pc[RX] = "pop"
    BY <1>10 DEF PopReady
  <2>2. \/ pc'[RX] = "copy"
        \/ pc'[RX] = "check_closed" /\ readyq' = << >>
    BY <1>10 DEF PopReady
  <2> QED BY <2>1, <2>2
<1>11. ASSUME ReturnSlot PROVE RecvInv'
  BY <1>11 DEF ReturnSlot
<1>12. ASSUME CheckClosed PROVE RecvInv'
  <2>1. UNCHANGED <<mode, receiver_waker, readyq, woken, num_senders>> /\ pc[RX] = "check_closed"
    BY <1>12 DEF CheckClosed
  <2>2. \/ pc'[RX] = "parked" /\ num_senders # 0 /\ mode = "recv"
        \/ pc'[RX] = "idle"
    BY <1>12 DEF CheckClosed
  <2>3. \A t \in Senders : pc'[t] = pc[t]
    BY <1>12 DEF CheckClosed
  <2> QED BY <2>1, <2>2, <2>3
<1>13. ASSUME UNCHANGED vars PROVE RecvInv'
  BY <1>13 DEF vars
<1> QED BY <1>1, <1>2, <1>3, <1>4, <1>5, <1>6, <1>7, <1>8, <1>9, <1>10, <1>11,
           <1>12, <1>13
        DEF Next, SenderNext, ReceiverNext

LEMMA InitChannelInv == Init => ChannelInv
<1> SUFFICES ASSUME Init PROVE ChannelInv
  OBVIOUS
<1>1. PICK s \in Senders : pc = Handles(s)
  BY DEF Init
<1>2. LiveSenders = {s}
  BY <1>1, ConstantFacts DEF LiveSenders, Handles, Actors
<1>3. SendersCounted
  BY <1>2, FS_Singleton DEF SendersCounted, Init
<1>4. PoppedWaiterIsServed /\ RecvInv
  BY <1>1, ConstantFacts DEF Init, PoppedWaiterIsServed, RecvInv, Handles, Actors
<1> QED BY <1>3, <1>4, InitSlotInv DEF ChannelInv

LEMMA ChannelInvStep == ChannelInv /\ [Next]_vars => ChannelInv'
<1> SUFFICES ASSUME ChannelInv, [Next]_vars PROVE ChannelInv'
  OBVIOUS
<1>1. SlotInv /\ TypeOK /\ SendersCounted /\ PoppedWaiterIsServed /\ RecvInv
  BY DEF ChannelInv, SlotInv
<1> QED BY <1>1, SlotInvStep, CountStep, ServedStep, RecvStep DEF ChannelInv

\* ChannelInv is an inductive invariant of the channel.
THEOREM ChannelInvariance == Spec => []ChannelInv
BY InitChannelInv, ChannelInvStep, PTL DEF Spec

\* No waiting sender is forgotten: the one that is popped is woken, with a slot
\* unless the receiver is gone, and Receiver::drop leaves none behind.
THEOREM WaitersServed == Spec => []PoppedWaiterIsServed
<1>1. ChannelInv => PoppedWaiterIsServed
  BY DEF ChannelInv
<1> QED BY <1>1, ChannelInvariance, PTL

\* A pending recv is woken for every message and for the last sender's drop.
THEOREM ReceiverWakeupsKept == Spec => []NoLostReceiverWakeup
<1>1. ChannelInv => NoLostReceiverWakeup
  BY DEF ChannelInv, RecvInv, NoLostReceiverWakeup
<1> QED BY <1>1, ChannelInvariance, PTL

-----------------------------------------------------------------------------
(***************************************************************************)
(* The channel implements the bounded FIFO.  Only three steps move a       *)
(* message: PushReady, PopReady and Drain; the memcpys happen to slots     *)
(* that nobody else holds, so what a queued index stands for stays.        *)
(***************************************************************************)
Got == received \o Taken
Values == Messages \cup {None}

\* readyq, read through the slots, and what the receiver got.
LEMMA Contents ==
  ASSUME FifoInv
  PROVE  /\ SlotInv /\ TypeOK /\ HandsInv /\ LinksInv /\ SlotExclusive /\ ContentInv
         /\ readyq \in Seq(Slots) /\ slots \in [Slots -> Values]
         /\ Queued = Through(readyq, slots) /\ Queued \in Seq(Values)
         /\ Len(Queued) = Len(readyq) /\ (readyq = << >> => Queued = << >>)
         /\ received \in Seq(Values) /\ Taken \in Seq(Values) /\ Got \in Seq(Values)
<1>1. SlotInv /\ TypeOK /\ HandsInv /\ LinksInv /\ SlotExclusive /\ ContentInv
  BY DEF FifoInv, ChannelInv, SlotInv
<1>2. readyq \in Seq(Slots) /\ slots \in [Slots -> Values] /\ received \in Seq(Values)
  BY <1>1 DEF TypeOK, Values
<1>3. Queued = Through(readyq, slots)
  BY DEF Queued, Through
<1>4. Queued \in Seq(Values) /\ Len(Queued) = Len(readyq)
  <2>1. \A x \in Slots : slots[x] \in Values
    BY <1>2
  <2> QED BY <2>1, <1>2, <1>3, ThroughElements
<1>5. readyq = << >> => Queued = << >>
  BY <1>4, EmptySeq
<1>6. Taken \in Seq(Values)
  <2>1. CASE pc[RX] = "copy"
    <3>1. slot[RX] \in Slots
      BY <2>1, <1>1 DEF HandsInv, TypeOK, Actors
    <3>2. slots[slot[RX]] \in Values
      BY <3>1, <1>2
    <3> QED BY <2>1, <3>2 DEF Taken
  <2>2. CASE pc[RX] # "copy"
    BY <2>2, EmptySeq DEF Taken
  <2> QED BY <2>1, <2>2
<1>7. Got \in Seq(Values)
  BY <1>2, <1>6, ConcatProperties DEF Got
<1> QED BY <1>1, <1>2, <1>3, <1>4, <1>5, <1>6, <1>7

\* A step that the users of the channel do not see.
Quiet ==
  /\ UNCHANGED <<readyq, slots, received, receiver_dropped>>
  /\ pc'[RX] = "copy" <=> pc[RX] = "copy"
  /\ pc[RX] = "copy" => slot'[RX] = slot[RX]

\* It leaves what they observe as it is.
LEMMA QuietStutters ==
  ASSUME Quiet PROVE UNCHANGED <<Queued, Got, receiver_dropped>>
<1>1. Queued' = Queued
  BY DEF Quiet, Queued
<1>2. Taken' = Taken
  BY DEF Quiet, Taken
<1> QED BY <1>1, <1>2 DEF Quiet, Got

\* All steps but the memcpys, PushReady, PopReady, DropReceiver and Drain are
\* quiet.
LEMMA QuietSteps ==
  ASSUME TypeOK, HandsInv, LinksInv, [Next]_vars,
         ~PopReady, ~CopyOut, ~DropReceiver, ~Drain,
         \A s \in Senders : ~WriteSlot(s) /\ ~PushReady(s)
  PROVE  Quiet
<1> USE ConstantFacts DEF TypeOK, Goto, chan, Actors
<1>1. CASE UNCHANGED vars
  BY <1>1 DEF vars, Quiet
<1>2. CASE Split
  <2>1. PICK s \in Senders : pc' = Handles(s)
    BY <1>2 DEF Split
  <2>2. pc'[RX] = "idle"
    BY <2>1 DEF Handles
  <2> QED BY <1>2, <2>2 DEF Split, AllDropped, Quiet
<1>3. ASSUME NEW s \in Senders, TrySend(s) \/ TrySendClosed(s) \/ Send(s) \/ CancelSend(s)
      PROVE  Quiet
  BY <1>3 DEF TrySend, TrySendClosed, Send, CancelSend, BeginSend, Quiet
<1>4. ASSUME NEW s \in Senders, TrySendPop(s) PROVE Quiet
  BY <1>4 DEF TrySendPop, Quiet
<1>5. ASSUME NEW s \in Senders, PollSend(s) PROVE Quiet
  <2>1. slot'[RX] = slot[RX] /\ pc'[RX] = pc[RX]
    BY <1>5 DEF PollSend
  <2> QED BY <1>5, <2>1 DEF PollSend, Quiet
<1>6. ASSUME NEW s \in Senders, DropLink(s) PROVE Quiet
  BY <1>6 DEF DropLink, Quiet
<1>7. ASSUME NEW s \in Senders, GiveBack(s) PROVE Quiet
  <2>1. slot'[RX] = slot[RX]
    BY <1>7, ReturnHand DEF GiveBack
  <2> QED BY <1>7, <2>1 DEF GiveBack, Quiet
<1>8. ASSUME NEW s \in Senders, WakeReceiver(s) \/ DropSender(s) PROVE Quiet
  BY <1>8 DEF WakeReceiver, DropSender, Quiet
<1>9. ASSUME NEW s \in Senders, NEW t \in Senders, CloneSender(s, t) PROVE Quiet
  BY <1>9 DEF CloneSender, Quiet
<1>10. CASE TryRecv \/ PollRecv \/ CheckClosed \/ CancelRecv
  BY <1>10 DEF TryRecv, PollRecv, CheckClosed, CancelRecv, Quiet
<1>11. CASE ReturnSlot
  BY <1>11 DEF ReturnSlot, Quiet
<1>12. CASE DropValue \/ PopWaiter \/ WakeWaiter
  BY <1>12 DEF DropValue, PopWaiter, WakeWaiter, Quiet
<1> QED BY <1>1, <1>2, <1>3, <1>4, <1>5, <1>6, <1>7, <1>8, <1>9, <1>10, <1>11, <1>12
        DEF Next, SenderNext, ReceiverNext

\* A memcpy into a slot touches no message: the slot is neither queued nor in
\* the hand of the receiver.
LEMMA WriteStutters ==
  ASSUME FifoInv, NEW s \in Senders, WriteSlot(s)
  PROVE  UNCHANGED <<Queued, Got, receiver_dropped>>
<1>1. /\ TypeOK /\ SlotExclusive /\ HandsInv
      /\ readyq \in Seq(Slots) /\ slots \in [Slots -> Values]
  BY Contents
<1>2. slot[s] \in Slots /\ RX # s /\ s \in Actors /\ RX \in Actors
  BY <1>1, ConstantFacts DEF WriteSlot, HandsInv, TypeOK, Actors
<1>3. /\ slots' = [slots EXCEPT ![slot[s]] = <<s, sent[s]>>]
      /\ UNCHANGED <<readyq, slot, received, receiver_dropped>>
      /\ pc'[RX] = pc[RX]
  BY <1>1, <1>2 DEF WriteSlot, Goto, TypeOK
<1>4. slot[s] \notin Range(readyq) /\ slot[RX] # slot[s] /\ slot[s] # None
  BY <1>1, <1>2, ConstantFacts DEF SlotExclusive, ReadySlotsExclusive
<1>5. Queued' = Queued
  <2>1. \A i \in DOMAIN readyq : slots'[readyq[i]] = slots[readyq[i]]
    <3>1. \A i \in DOMAIN readyq : readyq[i] \in Slots /\ readyq[i] # slot[s]
      BY <1>1, <1>4, LenProperties, ElementOfSeq DEF Range
    <3> QED BY <3>1, <1>1, <1>3
  <2> QED BY <2>1, <1>3 DEF Queued
<1>6. Taken' = Taken
  <2>1. pc[RX] = "copy" => slots'[slot[RX]] = slots[slot[RX]]
    <3>1. pc[RX] = "copy" => slot[RX] \in Slots
      BY <1>1, <1>2 DEF HandsInv, TypeOK
    <3> QED BY <3>1, <1>1, <1>3, <1>4
  <2> QED BY <2>1, <1>3 DEF Taken
<1> QED BY <1>3, <1>5, <1>6 DEF Got

\* The memcpy out of a slot takes a message that was taken already.
LEMMA CopyStutters ==
  ASSUME FifoInv, CopyOut
  PROVE  UNCHANGED <<Queued, Got, receiver_dropped>>
<1>1. TypeOK /\ HandsInv /\ received \in Seq(Values) /\ slots \in [Slots -> Values]
  BY Contents
<1>2. /\ pc[RX] = "copy" /\ pc'[RX] = "return"
      /\ received' = Append(received, slots[slot[RX]])
      /\ UNCHANGED <<readyq, slots, receiver_dropped>>
  BY <1>1 DEF CopyOut, chan, Goto, TypeOK, Actors
<1>3. slots[slot[RX]] \in Values
  <2>1. slot[RX] \in Slots
    BY <1>1, <1>2 DEF HandsInv, TypeOK, Actors
  <2> QED BY <2>1, <1>1
<1>4. Got = received \o <<slots[slot[RX]]>>
  BY <1>2 DEF Got, Taken
<1>5. Got' = received' \o << >>
  BY <1>2 DEF Got, Taken
<1>6. received' \in Seq(Values) /\ received' = received \o <<slots[slot[RX]]>>
  BY <1>1, <1>2, <1>3, AppendProperties, AppendIsConcat
<1>7. received' \o << >> = received'
  BY <1>6, ConcatEmptySeq
<1>8. Queued' = Queued
  BY <1>2 DEF Queued
<1> QED BY <1>2, <1>4, <1>5, <1>6, <1>7, <1>8

\* The message of a sender gets in.
LEMMA PushPuts ==
  ASSUME FifoInv, NEW s \in Senders, PushReady(s)
  PROVE  /\ <<s, sent[s]>> \in Messages /\ IsSending(s)
         /\ Len(Queued) < N
         /\ Queued' = Append(Queued, <<s, sent[s]>>)
         /\ UNCHANGED <<Got, receiver_dropped>>
<1>1. /\ TypeOK /\ SlotExclusive /\ HandsInv /\ ContentInv
      /\ readyq \in Seq(Slots) /\ slots \in [Slots -> Values]
      /\ Queued = Through(readyq, slots) /\ Len(Queued) = Len(readyq)
  BY Contents
<1>2. slot[s] \in Slots /\ slot[s] # None /\ RX # s /\ s \in Actors /\ RX \in Actors
  BY <1>1, ConstantFacts DEF PushReady, HandsInv, TypeOK, Actors
<1>3. slot[s] \notin Range(readyq) /\ IsInjective(readyq)
  BY <1>1, <1>2 DEF SlotExclusive, ReadySlotsExclusive
<1>4. /\ Len(readyq) < N
      /\ PushUnchecked(readyq, slot[s]) = Append(readyq, slot[s])
  BY <1>1, <1>2, <1>3, RoomLeft, PushElement
<1>5. /\ pc[s] = "push" /\ readyq' = Append(readyq, slot[s])
      /\ UNCHANGED <<slots, received, receiver_dropped>>
      /\ pc'[RX] = pc[RX] /\ slot'[RX] = slot[RX]
  BY <1>1, <1>2, <1>4 DEF PushReady, Goto, TypeOK
<1>6. slots[slot[s]] = <<s, sent[s]>>
  BY <1>1, <1>5 DEF ContentInv
<1>7. Queued' = Append(Queued, slots[slot[s]])
  <2>1. Queued' = Through(Append(readyq, slot[s]), slots)
    BY <1>5 DEF Queued, Through
  <2>2. readyq \in Seq(Slots)
    BY <1>1
  <2>3. \A e \in Slots :
          Through(Append(readyq, e), slots) = Append(Through(readyq, slots), slots[e])
    BY <2>2, ThroughAppend
  <2> QED BY <2>1, <2>3, <1>1, <1>2
<1>8. Got' = Got
  BY <1>5 DEF Got, Taken
<1>9. <<s, sent[s]>> \in Messages /\ IsSending(s)
  <2>1. sent[s] \in 0..MaxSends /\ sent[s] >= 1
    BY <1>1, <1>5 DEF TypeOK, HandsInv
  <2> QED BY <2>1, <1>5, BoundsAssumption DEF Messages, IsSending
<1> QED BY <1>1, <1>4, <1>5, <1>6, <1>7, <1>8, <1>9

\* The receiver gets the oldest message.
LEMMA PopTakes ==
  ASSUME FifoInv, PopReady, readyq # << >>
  PROVE  /\ Queued # << >> /\ Listening
         /\ Head(Queued) \in Range(Queued)
         /\ Range(Queued') \subseteq Range(Queued)
         /\ Queued' = Tail(Queued)
         /\ Got' = Append(Got, Head(Queued))
         /\ UNCHANGED receiver_dropped
<1>1. /\ TypeOK /\ SlotExclusive /\ ContentInv
      /\ readyq \in Seq(Slots) /\ slots \in [Slots -> Values]
      /\ Queued = Through(readyq, slots) /\ Queued \in Seq(Values)
      /\ received \in Seq(Values)
  BY Contents
<1>2. RX \in Actors /\ Head(readyq) \in Slots /\ Tail(readyq) \in Seq(Slots)
  BY <1>1, TailElements DEF Actors
<1>3. /\ pc[RX] = "pop" /\ pc'[RX] = "copy"
      /\ readyq' = Tail(readyq) /\ slot'[RX] = Head(readyq)
      /\ UNCHANGED <<slots, received, receiver_dropped>>
  BY <1>1, <1>2 DEF PopReady, Goto, TypeOK
<1>4. Listening
  BY <1>3 DEF Listening
<1>5. /\ Queued # << >> /\ Head(Queued) = slots[Head(readyq)]
      /\ Through(Tail(readyq), slots) = Tail(Queued)
  <2>1. readyq \in Seq(Slots)
    BY <1>1
  <2>2. /\ Through(readyq, slots) # << >>
        /\ Head(Through(readyq, slots)) = slots[Head(readyq)]
        /\ Through(Tail(readyq), slots) = Tail(Through(readyq, slots))
    BY <2>1, ThroughTail
  <2> QED BY <2>2, <1>1
<1>6. Queued' = Through(Tail(readyq), slots)
  BY <1>3 DEF Queued, Through
<1>7. Range(Queued') \subseteq Range(Queued)
  <2>1. Range(Tail(readyq)) \subseteq Range(readyq)
    BY <1>1, TailElements DEF SlotExclusive, ReadySlotsExclusive
  <2> QED BY <2>1, <1>1, <1>6, ThroughRange
<1>8. Head(Queued) \in Range(Queued) /\ Head(Queued) \in Values
  BY <1>1, <1>5, TailElements
<1>9. Got' = Append(Got, Head(Queued))
  <2>1. Got = received \o << >> /\ Got' = received \o <<Head(Queued)>>
    BY <1>3, <1>5 DEF Got, Taken
  <2>2. received \o << >> = received
    BY <1>1, ConcatEmptySeq
  <2>3. Append(received, Head(Queued)) = received \o <<Head(Queued)>>
    BY <1>1, <1>8, AppendIsConcat
  <2> QED BY <2>1, <2>2, <2>3
<1> QED BY <1>3, <1>4, <1>5, <1>6, <1>7, <1>8, <1>9

\* The receiver that is dropped throws the youngest message away.
LEMMA DrainDiscards ==
  ASSUME FifoInv, Drain, readyq # << >>
  PROVE  /\ Queued # << >> /\ ~Listening
         /\ Range(Queued') \subseteq Range(Queued)
         /\ Queued' = SubSeq(Queued, 1, Len(Queued) - 1)
         /\ UNCHANGED <<Got, receiver_dropped>>
<1>1. /\ TypeOK /\ SlotExclusive /\ HandsInv
      /\ readyq \in Seq(Slots) /\ slots \in [Slots -> Values]
      /\ Queued = Through(readyq, slots)
  BY Contents
<1>2. RX \in Actors
  BY DEF Actors
<1>3. /\ pc[RX] = "drain" /\ pc'[RX] = "drop_value"
      /\ readyq' = Front(readyq)
      /\ UNCHANGED <<slots, received, receiver_dropped>>
  BY <1>1, <1>2 DEF Drain, Goto, TypeOK
<1>4. ~Listening
  BY <1>3 DEF Listening
<1>5. /\ Queued # << >>
      /\ Through(Front(readyq), slots) = SubSeq(Queued, 1, Len(Queued) - 1)
  <2>1. readyq \in Seq(Slots)
    BY <1>1
  <2>2. /\ Through(readyq, slots) # << >>
        /\ Through(Front(readyq), slots)
             = SubSeq(Through(readyq, slots), 1, Len(Through(readyq, slots)) - 1)
    BY <2>1, ThroughFront
  <2> QED BY <2>2, <1>1
<1>6. Queued' = Through(Front(readyq), slots)
  BY <1>3 DEF Queued, Through
<1>7. Range(Queued') \subseteq Range(Queued)
  <2>1. Range(Front(readyq)) \subseteq Range(readyq)
    BY <1>1, FrontElements DEF SlotExclusive, ReadySlotsExclusive
  <2> QED BY <2>1, <1>1, <1>6, ThroughRange
<1>8. Got' = Got
  BY <1>3 DEF Got, Taken
<1> QED BY <1>3, <1>4, <1>5, <1>6, <1>7, <1>8

\* With nothing queued the receiver moves on.
LEMMA EmptyStutters ==
  ASSUME TypeOK, PopReady \/ Drain, readyq = << >>
  PROVE  UNCHANGED <<Queued, Got, receiver_dropped>>
<1>1. Quiet
  BY DEF PopReady, Drain, Quiet, Goto, TypeOK, Actors
<1> QED BY <1>1, QuietStutters

\* Receiver::drop closes the channel before it empties it.
LEMMA DropCloses ==
  ASSUME TypeOK, DropReceiver
  PROVE  UNCHANGED <<Queued, Got>> /\ receiver_dropped'
<1>1. /\ pc[RX] = "idle" /\ pc'[RX] = "drain" /\ receiver_dropped'
      /\ UNCHANGED <<readyq, slots, received>>
  BY DEF DropReceiver, Goto, TypeOK, Actors
<1> QED BY <1>1 DEF Queued, Got, Taken

\* What a step can do to the messages.
LEMMA Observed ==
  ASSUME FifoInv, [Next]_vars
  PROVE  \/ UNCHANGED <<Queued, Got, receiver_dropped>>
         \/ \E s \in Senders : PushReady(s)
         \/ (PopReady \/ Drain) /\ readyq # << >>
         \/ DropReceiver
<1>1. TypeOK /\ HandsInv /\ LinksInv
  BY Contents
<1>2. CASE \E s \in Senders : WriteSlot(s)
  BY <1>2, WriteStutters
<1>3. CASE CopyOut
  BY <1>3, CopyStutters
<1>4. CASE (PopReady \/ Drain) /\ readyq = << >>
  BY <1>1, <1>4, EmptyStutters
<1>5. CASE /\ ~PopReady /\ ~CopyOut /\ ~DropReceiver /\ ~Drain
           /\ \A s \in Senders : ~WriteSlot(s) /\ ~PushReady(s)
  BY <1>1, <1>5, QuietSteps, QuietStutters
<1> QED BY <1>2, <1>3, <1>4, <1>5

\* A message gets in by PushReady only, as the one its sender holds.
LEMMA AcceptedStep ==
  ASSUME FifoInv, [Next]_vars
  PROVE  \A m \in Accepted' : \/ m \in Accepted
                              \/ \E s \in Senders : PushReady(s) /\ m = <<s, sent[s]>>
<1>1. Queued \in Seq(Values) /\ Got \in Seq(Values) /\ TypeOK
  BY Contents
<1>2. Accepted = Range(Got) \cup Range(Queued) /\ Accepted' = Range(Got') \cup Range(Queued')
  BY DEF Accepted, Got
<1>3. CASE UNCHANGED <<Queued, Got, receiver_dropped>>
  BY <1>2, <1>3
<1>4. ASSUME NEW s \in Senders, PushReady(s)
      PROVE  Accepted' = Accepted \cup {<<s, sent[s]>>}
  <2>1. Got' = Got /\ Queued' = Append(Queued, <<s, sent[s]>>) /\ <<s, sent[s]>> \in Values
    BY <1>4, PushPuts DEF Values
  <2>2. Range(Append(Queued, <<s, sent[s]>>)) = Range(Queued) \cup {<<s, sent[s]>>}
    <3>1. Queued \in Seq(Values)
      BY <1>1
    <3>2. \A e \in Values : Range(Append(Queued, e)) = Range(Queued) \cup {e}
      BY <3>1, AppendElement
    <3> QED BY <2>1, <3>2
  <2> QED BY <2>1, <2>2, <1>2
<1>5. CASE PopReady /\ readyq # << >>
  <2>1. /\ Head(Queued) \in Range(Queued) /\ Range(Queued') \subseteq Range(Queued)
        /\ Got' = Append(Got, Head(Queued)) /\ Queued # << >>
    BY <1>5, PopTakes
  <2>2. Head(Queued) \in Values
    BY <2>1, <1>1, TailElements
  <2>3. Range(Got') = Range(Got) \cup {Head(Queued)}
    BY <2>1, <2>2, <1>1, AppendElement
  <2> QED BY <2>1, <2>3, <1>2
<1>6. CASE Drain /\ readyq # << >>
  BY <1>2, <1>6, DrainDiscards
<1>7. CASE DropReceiver
  BY <1>1, <1>2, <1>7, DropCloses
<1> QED BY <1>3, <1>4, <1>5, <1>6, <1>7, Observed

\* A sender that begins a call begins a new message.
LEMMA SendingStep ==
  ASSUME TypeOK, [Next]_vars, NEW s \in Senders
  PROVE  /\ sent[s] \in Int /\ sent'[s] \in Int /\ sent'[s] >= sent[s]
         /\ IsSending(s)' => sent'[s] > sent[s] \/ IsSending(s)
         /\ PushReady(s) => sent'[s] = sent[s] /\ ~IsSending(s)'
<1> USE ConstantFacts DEF TypeOK, Goto, chan, Actors, IsSending
<1>0. sent[s] \in 0..MaxSends /\ sent[s] \in Int
  BY BoundsAssumption
<1>1. CASE UNCHANGED vars
  BY <1>0, <1>1 DEF vars, PushReady
<1>2. CASE Split
  <2>1. PICK u \in Senders : pc' = Handles(u)
    BY <1>2 DEF Split
  <2>2. pc'[s] \in {"idle", "absent"}
    BY <2>1 DEF Handles
  <2> QED BY <1>0, <1>2, <2>2 DEF Split
<1>3. ASSUME NEW u \in Senders, TrySend(u) \/ Send(u)
      PROVE  /\ sent'[s] \in Int /\ sent'[s] >= sent[s]
             /\ IsSending(s)' => sent'[s] > sent[s] \/ IsSending(s)
             /\ ~PushReady(s)
  <2>1. pc[u] = "idle" /\ sent' = [sent EXCEPT ![u] = @ + 1] /\ \E l : pc' = [pc EXCEPT ![u] = l]
    BY <1>3 DEF TrySend, Send, BeginSend
  <2>2. CASE u = s
    BY <1>0, <2>1, <2>2 DEF PushReady
  <2>3. CASE u # s
    <3>1. sent'[s] = sent[s] /\ pc'[s] = pc[s]
      BY <2>1, <2>3
    <3>2. ~PushReady(s)
      BY <2>1, <1>3 DEF PushReady, TrySend, Send, BeginSend
    <3> QED BY <1>0, <3>1, <3>2
  <2> QED BY <2>2, <2>3
<1>4. ASSUME NEW u \in Senders,
             \/ TrySendClosed(u) \/ TrySendPop(u) \/ PollSend(u) \/ CancelSend(u)
             \/ DropLink(u) \/ GiveBack(u) \/ WriteSlot(u)
      PROVE  /\ sent' = sent /\ ~PushReady(s)
             /\ IsSending(s)' => IsSending(s)
  <2>1. /\ sent' = sent
        /\ pc[u] \in {"try_closed", "try_pop", "sending", "dropper", "give_back", "write"}
        /\ \/ pc' = pc
           \/ \E l \in SenderStates : pc' = [pc EXCEPT ![u] = l]
        /\ pc'[u] # "wake"
    BY <1>4 DEF TrySendClosed, TrySendPop, PollSend, CancelSend, DropLink, GiveBack,
                WriteSlot, SenderStates
  <2>2. ~PushReady(s)
    BY <2>1 DEF PushReady
  <2>3. IsSending(s)' => IsSending(s)
    BY <2>1
  <2> QED BY <2>1, <2>2, <2>3
<1>5. ASSUME NEW u \in Senders, PushReady(u) \/ WakeReceiver(u) \/ DropSender(u)
      PROVE  /\ sent' = sent
             /\ IsSending(s)' => IsSending(s)
             /\ PushReady(s) => ~IsSending(s)'
  BY <1>5 DEF PushReady, WakeReceiver, DropSender
<1>6. ASSUME NEW u \in Senders, NEW t \in Senders, CloneSender(u, t)
      PROVE  sent' = sent /\ (IsSending(s)' => IsSending(s)) /\ ~PushReady(s)
  BY <1>6 DEF CloneSender, PushReady
<1>7. CASE ReceiverNext
  <2>1. sent' = sent /\ \E l : pc' = [pc EXCEPT ![RX] = l]
    BY <1>7 DEF ReceiverNext, TryRecv, PollRecv, PopReady, CopyOut, ReturnSlot, CheckClosed,
                CancelRecv, DropReceiver, Drain, DropValue, PopWaiter, WakeWaiter
  <2>2. pc'[s] = pc[s]
    BY <2>1
  <2>3. ~PushReady(s)
    BY <2>2 DEF PushReady
  <2> QED BY <1>0, <2>1, <2>2, <2>3
<1> QED BY <1>0, <1>1, <1>2, <1>3, <1>4, <1>5, <1>6, <1>7 DEF Next, SenderNext

\* A sender publishes an index after its memcpy, and nobody writes to the slot
\* in between.
LEMMA PushedStep ==
  ASSUME FifoInv, [Next]_vars, NEW s \in Senders, pc'[s] = "push"
  PROVE  slots'[slot'[s]] = <<s, sent'[s]>>
<1>0. /\ TypeOK /\ HandsInv /\ LinksInv /\ SlotExclusive
      /\ slots \in [Slots -> Values]
      /\ pc[s] = "push" => slots[slot[s]] = <<s, sent[s]>>
  BY Contents DEF ContentInv
<1>1. ASSUME pc[s] = "push", slots' = slots, slot'[s] = slot[s], sent'[s] = sent[s]
      PROVE  slots'[slot'[s]] = <<s, sent'[s]>>
  BY <1>0, <1>1
<1> USE ConstantFacts, <1>0 DEF TypeOK, Goto, chan, Actors
<1>2. CASE UNCHANGED vars
  BY <1>1, <1>2 DEF vars
<1>3. CASE Split
  BY <1>3 DEF Split, Handles
<1>4. CASE WriteSlot(s)
  <2>1. slot[s] \in Slots
    BY <1>4 DEF WriteSlot, HandsInv
  <2> QED BY <1>4, <2>1 DEF WriteSlot
<1>5. ASSUME NEW t \in Senders, t # s, WriteSlot(t)
      PROVE  slots'[slot'[s]] = <<s, sent'[s]>>
  <2>1. pc[s] = "push" /\ slot' = slot /\ sent' = sent
    BY <1>5 DEF WriteSlot
  <2>2. slot[t] \in Slots /\ slot[s] \in Slots /\ slot[s] # slot[t]
    BY <1>5, <2>1 DEF WriteSlot, HandsInv, SlotExclusive, ReadySlotsExclusive
  <2>3. slots'[slot[s]] = slots[slot[s]]
    BY <1>5, <2>2 DEF WriteSlot
  <2> QED BY <1>0, <2>1, <2>3
<1>6. ASSUME NEW t \in Senders,
             \/ TrySend(t) \/ TrySendClosed(t) \/ TrySendPop(t)
             \/ Send(t) \/ CancelSend(t) \/ DropLink(t)
             \/ PushReady(t) \/ WakeReceiver(t) \/ DropSender(t)
             \/ \E u \in Senders : CloneSender(t, u)
      PROVE  slots'[slot'[s]] = <<s, sent'[s]>>
  <2>1. pc[s] = "push" /\ slots' = slots /\ slot'[s] = slot[s] /\ sent'[s] = sent[s]
    BY <1>6 DEF TrySend, TrySendClosed, TrySendPop, Send, BeginSend, CancelSend, DropLink,
                PushReady, WakeReceiver, DropSender, CloneSender
  <2> QED BY <1>1, <2>1
<1>7. ASSUME NEW t \in Senders, PollSend(t)
      PROVE  slots'[slot'[s]] = <<s, sent'[s]>>
  <2>1. pc[s] = "push" /\ slots' = slots /\ sent' = sent
    BY <1>7 DEF PollSend
  <2>2. t # s
    BY <1>7, <2>1 DEF PollSend
  <2>3. slot'[s] = slot[s]
    BY <1>7, <2>2 DEF PollSend
  <2> QED BY <1>1, <2>1, <2>3
<1>8. ASSUME NEW a \in Actors, a # s, slot[a] \in Slots, ReturnFreeSlot(a),
             pc[s] = "push"
      PROVE  slot'[s] = slot[s]
  BY <1>8, ReturnHands DEF LinksInv
<1>9. ASSUME NEW t \in Senders, GiveBack(t)
      PROVE  slots'[slot'[s]] = <<s, sent'[s]>>
  <2>1. pc[s] = "push" /\ t # s /\ slots' = slots /\ sent' = sent
    BY <1>9 DEF GiveBack
  <2>2. slot'[s] = slot[s]
    BY <1>8, <1>9, <2>1 DEF GiveBack
  <2> QED BY <1>1, <2>1, <2>2
<1>10. CASE ReturnSlot
  <2>1. pc[s] = "push" /\ slots' = slots /\ sent' = sent /\ slot[RX] \in Slots
    BY <1>10 DEF ReturnSlot, HandsInv
  <2>2. slot'[s] = slot[s]
    BY <1>8, <1>10, <2>1 DEF ReturnSlot
  <2> QED BY <1>1, <2>1, <2>2
<1>11. CASE \/ TryRecv \/ PollRecv \/ PopReady \/ CopyOut \/ CheckClosed \/ CancelRecv
            \/ DropReceiver \/ Drain \/ DropValue \/ PopWaiter \/ WakeWaiter
  <2>1. pc[s] = "push" /\ slots' = slots /\ slot'[s] = slot[s] /\ sent' = sent
    BY <1>11 DEF TryRecv, PollRecv, PopReady, CopyOut, CheckClosed, CancelRecv,
                 DropReceiver, Drain, DropValue, PopWaiter, WakeWaiter
  <2> QED BY <1>1, <2>1
<1> QED BY <1>2, <1>3, <1>4, <1>5, <1>6, <1>7, <1>9, <1>10, <1>11
        DEF Next, SenderNext, ReceiverNext

\* What is known of the messages is kept.
LEMMA ContentStep == ASSUME FifoInv, [Next]_vars PROVE ContentInv'
<1>1. TypeOK /\ HandsInv /\ ContentInv
  BY Contents
<1>2. \A m \in Accepted : /\ m \in Messages /\ m[2] <= sent[m[1]]
                          /\ IsSending(m[1]) => m[2] # sent[m[1]]
  BY <1>1 DEF ContentInv
<1>3. ASSUME NEW m \in Accepted'
      PROVE  /\ m \in Messages
             /\ m[2] <= sent'[m[1]]
             /\ IsSending(m[1])' => m[2] # sent'[m[1]]
  <2>1. CASE m \in Accepted
    <3>1. m \in Messages /\ m[1] \in Senders /\ m[2] \in Int
      BY <1>2, <2>1, BoundsAssumption DEF Messages
    <3>2. /\ sent[m[1]] \in Int /\ sent'[m[1]] \in Int /\ sent'[m[1]] >= sent[m[1]]
          /\ IsSending(m[1])' => sent'[m[1]] > sent[m[1]] \/ IsSending(m[1])
      BY <1>1, <3>1, SendingStep
    <3>3. m[2] <= sent[m[1]] /\ (IsSending(m[1]) => m[2] # sent[m[1]])
      BY <1>2, <2>1
    <3> QED BY <3>1, <3>2, <3>3
  <2>2. ASSUME NEW s \in Senders, PushReady(s), m = <<s, sent[s]>>
        PROVE  /\ m \in Messages
               /\ m[2] <= sent'[m[1]]
               /\ IsSending(m[1])' => m[2] # sent'[m[1]]
    <3>1. m \in Messages /\ m[1] = s /\ m[2] = sent[s]
      BY <2>2, PushPuts
    <3>2. sent[s] \in Int /\ sent'[s] = sent[s] /\ ~IsSending(s)'
      BY <1>1, <2>2, SendingStep
    <3> QED BY <3>1, <3>2
  <2> QED BY <1>3, <2>1, <2>2, AcceptedStep
<1>4. \A s \in Senders : pc'[s] = "push" => slots'[slot'[s]] = <<s, sent'[s]>>
  BY PushedStep
<1> QED BY <1>3, <1>4 DEF ContentInv

\* At first nothing is queued or received.
LEMMA InitQueued == Init => Queued = << >> /\ Got = << >>
<1> SUFFICES ASSUME Init PROVE Queued = << >> /\ Got = << >>
  OBVIOUS
<1>1. PICK s \in Senders : pc = Handles(s)
  BY DEF Init
<1>2. pc[RX] = "idle" /\ received = << >> /\ readyq = << >>
  BY <1>1 DEF Init, Handles, Actors
<1>3. Queued = << >>
  BY <1>2 DEF Queued
<1>4. << >> \in Seq(Values)
  BY EmptySeq
<1>5. << >> \o << >> = << >>
  BY <1>4, ConcatEmptySeq
<1> QED BY <1>2, <1>3, <1>5 DEF Got, Taken

\* FifoInv holds after Channel::new and split.
LEMMA InitFifoInv == Init => FifoInv
<1> SUFFICES ASSUME Init PROVE ContentInv
  BY InitChannelInv DEF FifoInv
<1>1. PICK s \in Senders : pc = Handles(s)
  BY DEF Init
<1>2. Accepted = {}
  BY InitQueued DEF Accepted, Got, Range
<1>3. \A t \in Senders : pc[t] \in {"idle", "absent"}
  BY <1>1 DEF Handles, Actors
<1> QED BY <1>2, <1>3 DEF ContentInv, Init

\* FifoInv is an inductive invariant of the channel.
LEMMA FifoInvStep == FifoInv /\ [Next]_vars => FifoInv'
BY ChannelInvStep, ContentStep DEF FifoInv

THEOREM FifoInvariance == Spec => []FifoInv
BY InitFifoInv, FifoInvStep, PTL DEF Spec

\* The message of a push is newer than all messages of its sender in the
\* channel or received, so a sender's messages keep their order.
LEMMA PushInOrder ==
  ASSUME FifoInv, NEW s \in Senders, PushReady(s)
  PROVE  Fifo!InOrder(<<s, sent[s]>>)
<1>1. /\ TypeOK /\ ContentInv
      /\ Queued \in Seq(Values) /\ Got \in Seq(Values)
  BY Contents
<1>2. IsSending(s)
  BY PushPuts
<1>3. Range(Got \o Queued) = Accepted
  <2>1. Range(Got \o Queued) = Range(Got) \cup Range(Queued)
    BY <1>1, ConcatElements
  <2> QED BY <2>1 DEF Accepted, Got
<1>4. \A m \in Accepted : m[1] = s => m[2] < sent[s]
  <2> SUFFICES ASSUME NEW m \in Accepted, m[1] = s PROVE m[2] < sent[s]
    OBVIOUS
  <2>1. m \in Messages /\ m[2] <= sent[s] /\ m[2] # sent[s]
    BY <1>1, <1>2 DEF ContentInv
  <2>2. m[2] \in Int /\ sent[s] \in Int
    BY <1>1, <2>1, BoundsAssumption DEF TypeOK, Messages
  <2> QED BY <2>1, <2>2
<1>5. \A i \in DOMAIN (Got \o Queued) : (Got \o Queued)[i] \in Accepted
  BY <1>3 DEF Range
<1>6. \A i \in DOMAIN (Got \o Queued) :
        (Got \o Queued)[i][1] = s => (Got \o Queued)[i][2] < sent[s]
  BY <1>4, <1>5
<1> QED BY <1>6 DEF Fifo!InOrder, Got

AdmittedStates == {"try_pop", "write", "push"}

\* The messages let in stay the same if their senders do.
LEMMA AdmittedSame ==
  ASSUME \A s \in Senders : /\ pc'[s] \in AdmittedStates <=> pc[s] \in AdmittedStates
                            /\ pc[s] \in AdmittedStates => sent'[s] = sent[s]
  PROVE  Admitted' = Admitted
BY DEF Admitted, IsAdmitted, AdmittedStates

\* A sender whose message is let in.
LEMMA AdmitOne ==
  ASSUME NEW s \in Senders, pc[s] \notin AdmittedStates, pc'[s] \in AdmittedStates,
         sent' = sent, \A t \in Senders \ {s} : pc'[t] = pc[t]
  PROVE  /\ <<s, sent[s]>> \notin Admitted
         /\ Admitted' = Admitted \cup {<<s, sent[s]>>}
<1>1. <<s, sent[s]>> \notin Admitted
  BY DEF Admitted, IsAdmitted, AdmittedStates
<1>2. Admitted' \subseteq Admitted \cup {<<s, sent[s]>>}
  BY DEF Admitted, IsAdmitted, AdmittedStates
<1>3. Admitted \cup {<<s, sent[s]>>} \subseteq Admitted'
  BY DEF Admitted, IsAdmitted, AdmittedStates
<1> QED BY <1>1, <1>2, <1>3

\* A sender whose message got into the queue, or did not.
LEMMA ReleaseOne ==
  ASSUME NEW s \in Senders, pc[s] \in AdmittedStates, pc'[s] \notin AdmittedStates,
         sent' = sent, \A t \in Senders \ {s} : pc'[t] = pc[t]
  PROVE  /\ <<s, sent[s]>> \in Admitted
         /\ Admitted' = Admitted \ {<<s, sent[s]>>}
<1>1. <<s, sent[s]>> \in Admitted
  BY DEF Admitted, IsAdmitted, AdmittedStates
<1>2. Admitted' \subseteq Admitted \ {<<s, sent[s]>>}
  BY DEF Admitted, IsAdmitted, AdmittedStates
<1>3. Admitted \ {<<s, sent[s]>>} \subseteq Admitted'
  BY DEF Admitted, IsAdmitted, AdmittedStates
<1> QED BY <1>1, <1>2, <1>3

\* A message is let in by a look at receiver_dropped only, and leaves when its
\* sender finds no slot or has pushed it.
AdmitStep(s) ==
  /\ ~receiver_dropped
  /\ sent[s] >= 1
  /\ <<s, sent[s]>> \notin Admitted
  /\ Admitted' = Admitted \cup {<<s, sent[s]>>}
WithdrawStep(s) ==
  /\ sent[s] >= 1
  /\ <<s, sent[s]>> \in Admitted
  /\ Admitted' = Admitted \ {<<s, sent[s]>>}

LEMMA AdmittedStep ==
  ASSUME TypeOK, HandsInv, [Next]_vars, ~Split, \A s \in Senders : ~PushReady(s)
  PROVE  \/ Admitted' = Admitted
         \/ \E s \in Senders : AdmitStep(s) \/ WithdrawStep(s)
<1> USE ConstantFacts DEF TypeOK, Goto, chan, Actors
<1>1. CASE UNCHANGED vars
  BY <1>1, AdmittedSame DEF vars
<1>2. ASSUME NEW s \in Senders, TrySend(s) \/ Send(s) PROVE Admitted' = Admitted
  <2>1. \A t \in Senders : /\ pc'[t] \in AdmittedStates <=> pc[t] \in AdmittedStates
                           /\ pc[t] \in AdmittedStates => sent'[t] = sent[t]
    BY <1>2 DEF TrySend, Send, BeginSend, AdmittedStates
  <2> QED BY <2>1, AdmittedSame
<1>3. ASSUME NEW s \in Senders, TrySendClosed(s)
      PROVE  Admitted' = Admitted \/ AdmitStep(s)
  <2>1. CASE receiver_dropped
    <3>1. sent' = sent /\ \A t \in Senders : pc'[t] \in AdmittedStates <=> pc[t] \in AdmittedStates
      BY <1>3, <2>1 DEF TrySendClosed, AdmittedStates
    <3> QED BY <3>1, AdmittedSame
  <2>2. CASE ~receiver_dropped
    <3>1. /\ pc[s] \notin AdmittedStates /\ pc'[s] \in AdmittedStates /\ sent' = sent
          /\ sent[s] >= 1 /\ \A t \in Senders \ {s} : pc'[t] = pc[t]
      BY <1>3, <2>2 DEF TrySendClosed, AdmittedStates, HandsInv
    <3> QED BY <2>2, <3>1, AdmitOne DEF AdmitStep
  <2> QED BY <2>1, <2>2
<1>4. ASSUME NEW s \in Senders, TrySendPop(s)
      PROVE  Admitted' = Admitted \/ WithdrawStep(s)
  <2>1. CASE freeq # << >>
    <3>1. sent' = sent /\ \A t \in Senders : pc'[t] \in AdmittedStates <=> pc[t] \in AdmittedStates
      BY <1>4, <2>1 DEF TrySendPop, AdmittedStates
    <3> QED BY <3>1, AdmittedSame
  <2>2. CASE freeq = << >>
    <3>1. /\ pc[s] \in AdmittedStates /\ pc'[s] \notin AdmittedStates /\ sent' = sent
          /\ sent[s] >= 1 /\ \A t \in Senders \ {s} : pc'[t] = pc[t]
      BY <1>4, <2>2 DEF TrySendPop, AdmittedStates, HandsInv
    <3> QED BY <3>1, ReleaseOne DEF WithdrawStep
  <2> QED BY <2>1, <2>2
<1>5. ASSUME NEW s \in Senders, PollSend(s)
      PROVE  Admitted' = Admitted \/ AdmitStep(s)
  <2>1. /\ pc[s] \notin AdmittedStates /\ sent' = sent /\ sent[s] >= 1
        /\ \A t \in Senders \ {s} : pc'[t] = pc[t]
    BY <1>5 DEF PollSend, AdmittedStates, HandsInv
  <2>2. CASE pc'[s] \in AdmittedStates
    <3>1. ~receiver_dropped
      BY <1>5, <2>2 DEF PollSend, AdmittedStates
    <3> QED BY <2>1, <2>2, <3>1, AdmitOne DEF AdmitStep
  <2>3. CASE pc'[s] \notin AdmittedStates
    BY <2>1, <2>3, AdmittedSame
  <2> QED BY <2>2, <2>3
<1>6. ASSUME NEW s \in Senders,
             \/ CancelSend(s) \/ DropLink(s) \/ GiveBack(s) \/ WriteSlot(s)
             \/ WakeReceiver(s) \/ DropSender(s)
             \/ \E t \in Senders : CloneSender(s, t)
      PROVE  Admitted' = Admitted
  <2>1. sent' = sent /\ \A t \in Senders : pc'[t] \in AdmittedStates <=> pc[t] \in AdmittedStates
    BY <1>6 DEF CancelSend, DropLink, GiveBack, WriteSlot, WakeReceiver, DropSender,
                CloneSender, AdmittedStates
  <2> QED BY <2>1, AdmittedSame
<1>7. CASE ReceiverNext
  <2>1. sent' = sent /\ \E l : pc' = [pc EXCEPT ![RX] = l]
    BY <1>7 DEF ReceiverNext, TryRecv, PollRecv, PopReady, CopyOut, ReturnSlot, CheckClosed,
                CancelRecv, DropReceiver, Drain, DropValue, PopWaiter, WakeWaiter
  <2>2. \A t \in Senders : pc'[t] = pc[t]
    BY <2>1
  <2> QED BY <2>1, <2>2, AdmittedSame
<1> QED BY <1>1, <1>2, <1>3, <1>4, <1>5, <1>6, <1>7 DEF Next, SenderNext

DroppedStates == {"drain", "drop_value", "wake_all", "wake_one", "dropped"}

\* There is a Receiver until it is dropped, and again after a split.
LEMMA ListeningStep ==
  ASSUME TypeOK, [Next]_vars, ~Split, ~DropReceiver
  PROVE  Listening' = Listening
<1> SUFFICES pc'[RX] \in DroppedStates <=> pc[RX] \in DroppedStates
  BY DEF Listening, DroppedStates
<1> USE ConstantFacts DEF TypeOK, Goto, chan, Actors
<1>1. CASE UNCHANGED vars
  BY <1>1 DEF vars
<1>2. ASSUME NEW s \in Senders, SenderNext(s) PROVE pc'[RX] = pc[RX]
  <2>1. \E t \in Senders : \/ pc' = pc
                           \/ \E l : pc' = [pc EXCEPT ![t] = l]
    BY <1>2 DEF SenderNext, TrySend, TrySendClosed, TrySendPop, Send, PollSend, CancelSend,
                DropLink, GiveBack, WriteSlot, PushReady, WakeReceiver, DropSender,
                CloneSender
  <2> QED BY <2>1
<1>3. CASE \/ TryRecv \/ PollRecv \/ PopReady \/ CopyOut \/ ReturnSlot \/ CheckClosed
           \/ CancelRecv
  BY <1>3 DEF TryRecv, PollRecv, PopReady, CopyOut, ReturnSlot, CheckClosed, CancelRecv,
              DroppedStates
<1>4. CASE Drain \/ DropValue \/ PopWaiter \/ WakeWaiter
  BY <1>4 DEF Drain, DropValue, PopWaiter, WakeWaiter, DroppedStates
<1> QED BY <1>1, <1>2, <1>3, <1>4 DEF Next, ReceiverNext

\* A new receiver finds the messages that were left, and no sender is under way.
LEMMA SplitReopens ==
  ASSUME FifoInv, Split
  PROVE  Fifo!Split
<1>1. TypeOK /\ HandsInv /\ LinksInv
  BY Contents
<1>2. /\ pc[RX] = "dropped" /\ \A s \in Senders : pc[s] \in {"absent", "dropped"}
      /\ UNCHANGED <<readyq, slots, received, receiver_dropped, slot>>
  BY DEF Split, AllDropped
<1>3. PICK u \in Senders : pc' = Handles(u)
  BY DEF Split
<1>4. pc'[RX] = "idle" /\ \A s \in Senders : pc'[s] \in {"idle", "absent"}
  BY <1>3, ConstantFacts DEF Handles, Actors
<1>5. UNCHANGED <<Queued, Got>>
  BY <1>2, <1>4 DEF Queued, Got, Taken
<1>6. Admitted = {} /\ Admitted' = {}
  BY <1>2, <1>4 DEF Admitted, IsAdmitted
<1>7. ~Listening /\ Listening' = TRUE
  BY <1>2, <1>4 DEF Listening
<1>8. receiver_dropped' \in BOOLEAN
  BY <1>1, <1>2 DEF TypeOK
<1> QED BY <1>5, <1>6, <1>7, <1>8 DEF Fifo!Split, Got

\* Every step of the channel is a step of the FIFO, or changes nothing there.
LEMMA FifoStep == FifoInv /\ [Next]_vars => [Fifo!Next]_(Fifo!vars)
<1> SUFFICES ASSUME FifoInv, [Next]_vars PROVE Fifo!Next \/ UNCHANGED Fifo!vars
  OBVIOUS
<1>1. TypeOK /\ HandsInv
  BY Contents
<1>2. CASE Split
  BY <1>2, SplitReopens DEF Fifo!Next
<1>3. ASSUME NEW s \in Senders, PushReady(s) PROVE Fifo!Next
  <2>1. <<s, sent[s]>> \in Fifo!Messages
    BY <1>3, PushPuts DEF Messages, Fifo!Messages
  <2>2. /\ pc[s] \in AdmittedStates /\ pc'[s] \notin AdmittedStates /\ sent' = sent
        /\ \A t \in Senders \ {s} : pc'[t] = pc[t]
        /\ pc'[RX] = pc[RX]
    BY <1>1, <1>3, ConstantFacts DEF PushReady, Goto, TypeOK, Actors, AdmittedStates
  <2>3. <<s, sent[s]>> \in Admitted /\ Admitted' = Admitted \ {<<s, sent[s]>>}
    BY <2>2, ReleaseOne
  <2>4. Listening' = Listening
    BY <2>2 DEF Listening
  <2>5. Fifo!Put(<<s, sent[s]>>)
    BY <1>3, <2>3, <2>4, PushPuts, PushInOrder DEF Fifo!Put, Got
  <2> QED BY <2>1, <2>5 DEF Fifo!Next
<1>4. ASSUME PopReady \/ Drain \/ DropReceiver PROVE Admitted' = Admitted
  <2>1. sent' = sent /\ \A t \in Senders : pc'[t] = pc[t]
    <3>1. sent' = sent /\ \E l : pc' = [pc EXCEPT ![RX] = l]
      BY <1>4 DEF PopReady, Drain, DropReceiver, Goto
    <3> QED BY <1>1, <3>1, ConstantFacts DEF TypeOK, Actors
  <2> QED BY <2>1, AdmittedSame
<1>5. CASE PopReady /\ readyq # << >>
  <2>1. Listening' = Listening
    BY <1>1, <1>5 DEF PopReady, Goto, TypeOK, Actors, Listening
  <2>2. Fifo!Take
    BY <1>4, <1>5, <2>1, PopTakes DEF Fifo!Take, Got
  <2> QED BY <2>2 DEF Fifo!Next
<1>6. CASE Drain /\ readyq # << >>
  <2>1. Listening' = Listening
    BY <1>1, <1>6 DEF Drain, Goto, TypeOK, Actors, Listening
  <2>2. Fifo!Discard
    BY <1>4, <1>6, <2>1, DrainDiscards DEF Fifo!Discard, Got
  <2> QED BY <2>2 DEF Fifo!Next
<1>7. CASE DropReceiver
  <2>1. UNCHANGED <<Queued, Got, Admitted>> /\ receiver_dropped' = TRUE
    BY <1>1, <1>4, <1>7, DropCloses DEF DropReceiver
  <2>2. Listening /\ Listening' = FALSE
    BY <1>1, <1>7 DEF DropReceiver, Goto, TypeOK, Actors, Listening
  <2>3. Fifo!Close
    BY <2>1, <2>2 DEF Fifo!Close, Got
  <2> QED BY <2>3 DEF Fifo!Next
<1>8. CASE /\ UNCHANGED <<Queued, Got, receiver_dropped>> /\ ~Split /\ ~DropReceiver
           /\ \A s \in Senders : ~PushReady(s)
  <2>1. Listening' = Listening
    BY <1>1, <1>8, ListeningStep
  <2>2. CASE Admitted' = Admitted
    BY <1>8, <2>1, <2>2 DEF Fifo!vars, Got
  <2>3. ASSUME NEW s \in Senders, AdmitStep(s) \/ WithdrawStep(s) PROVE Fifo!Next
    <3>1. <<s, sent[s]>> \in Fifo!Messages
      <4>1. sent[s] \in 0..MaxSends /\ sent[s] >= 1
        BY <1>1, <2>3 DEF TypeOK, AdmitStep, WithdrawStep
      <4> QED BY <4>1, BoundsAssumption DEF Fifo!Messages
    <3>2. Fifo!Admit(<<s, sent[s]>>) \/ Fifo!Withdraw(<<s, sent[s]>>)
      BY <1>8, <2>1, <2>3 DEF AdmitStep, WithdrawStep, Fifo!Admit, Fifo!Withdraw, Got
    <3> QED BY <3>1, <3>2 DEF Fifo!Next
  <2> QED BY <1>1, <1>8, <2>2, <2>3, AdmittedStep
<1> QED BY <1>2, <1>3, <1>5, <1>6, <1>7, <1>8, Observed

\* What the senders and the receiver observe of the channel is a bounded FIFO:
\* messages are let in while it is open, enter once and in the order of their
\* sender, and leave oldest first; none is lost before the receiver is dropped.
THEOREM ChannelIsFifo == Spec => IsFifoChannel
<1>1. Init => Fifo!Init
  <2> SUFFICES ASSUME Init PROVE Fifo!Init
    OBVIOUS
  <2>1. PICK u \in Senders : pc = Handles(u)
    BY DEF Init
  <2>2. pc[RX] = "idle" /\ \A s \in Senders : pc[s] \in {"idle", "absent"}
    BY <2>1, ConstantFacts DEF Handles, Actors
  <2>3. Admitted = {} /\ Listening = TRUE
    BY <2>2 DEF Admitted, IsAdmitted, Listening
  <2> QED BY <2>3, InitQueued DEF Init, Fifo!Init, Got
<1> QED BY <1>1, FifoStep, FifoInvariance, PTL DEF Spec, IsFifoChannel, Fifo!Spec
=============================================================================
