------------------------------ MODULE Channel ------------------------------
(***************************************************************************)
(* The MPSC channel of rtic-sync (src/rtic-sync/src/channel.rs).           *)
(*                                                                         *)
(* Every Sender and the Receiver is used by a task of its own, and tasks   *)
(* preempt one another anywhere outside a critical section.  One action is *)
(* therefore one critical section of the code, or the piece of code        *)
(* between two of them: the memcpy into and out of a slot happens outside, *)
(* and so do the calls of wakers.  pc says where in its call an actor is.  *)
(*                                                                         *)
(* A future is polled when its task was woken, but it may also be polled   *)
(* without a wake (a join polls all its branches) and it may be dropped    *)
(* whenever it is not being polled.                                        *)
(***************************************************************************)
EXTENDS Integers, FiniteSets, SequencesExt

CONSTANTS
  N,          \* capacity of the channel
  Senders,    \* the Sender handles that can exist
  RX,         \* the Receiver handle
  None,       \* Option::None
  MaxSends,   \* bound: calls of try_send and send per handle
  MaxSplits,  \* bound: calls of split
  DebugAssertions  \* cfg(debug_assertions): the profile of the build

\* size_check limits N to what fits the u8 indexes.
ASSUME CapacityAssumption == N \in 1..255
ASSUME BoundsAssumption == MaxSends \in Nat /\ MaxSplits \in Nat \ {0}
ASSUME ProfileAssumption == DebugAssertions \in BOOLEAN
ASSUME ActorsAssumption ==
  /\ IsFiniteSet(Senders)
  /\ RX \notin Senders
  /\ None \notin Senders
ASSUME NoneAssumption ==
  /\ None \notin 0..N-1
  /\ None \notin Senders \X Nat

Slots == 0..N-1
Actors == Senders \cup {RX}
Messages == Senders \X (1..MaxSends)

VARIABLES
  freeq,             \* Channel::freeq, indexes of the unused slots
  readyq,            \* Channel::readyq, indexes of the filled slots
  slots,             \* Channel::slots, the storage
  waitq,             \* Channel::wait_queue, the senders linked into it
  receiver_waker,    \* Channel::receiver_waker holds the receiver's waker
  receiver_dropped,  \* Channel::receiver_dropped
  num_senders,       \* Channel::num_senders
  pc,                \* where an actor is in its current call
  slot,              \* the index an actor holds (free_slot_ptr, idx, rs)
  link,              \* a sender's link: none, linked or popped
  sent,              \* number of calls a sender has begun: its message
  woken,             \* the task of the actor is to be polled
  mode,              \* which call the receiver is in
  waking,            \* the sender Receiver::drop is about to wake
  received,          \* the messages the receiver got (history)
  splits,            \* number of calls of split
  leftover           \* the last split met messages in readyq (history)

chan == <<freeq, readyq, slots, waitq, receiver_waker, receiver_dropped,
          num_senders>>
vars == <<chan, pc, slot, link, sent, woken, mode, waking, received, splits,
          leftover>>

SenderStates ==
  {"absent", "idle", "try_closed", "try_pop", "sending", "dropper",
   "give_back", "write", "push", "wake", "drop_wake", "dropped"}
ReceiverStates ==
  {"idle", "pop", "copy", "return", "check_closed", "parked", "drain",
   "drop_value", "wake_all", "wake_one", "dropped"}

Goto(a, label) == pc' = [pc EXCEPT ![a] = label]

-----------------------------------------------------------------------------
(***************************************************************************)
(* Channel::new followed by split: the slots are all free and one Sender   *)
(* and the Receiver exist.                                                 *)
(***************************************************************************)
AllSlots == [i \in 1..N |-> i - 1]

\* A bug: split fills freeq up without clearing it.
RefillWithoutClear == SubSeq(freeq \o AllSlots, 1, N)
Refilled == AllSlots

Handles(s) ==
  [a \in Actors |-> IF a \in {s, RX} THEN "idle" ELSE "absent"]

Init ==
  /\ freeq = AllSlots
  /\ readyq = << >>
  /\ slots = [i \in Slots |-> None]
  /\ waitq = << >>
  /\ receiver_waker = FALSE
  /\ receiver_dropped = FALSE
  /\ num_senders = 1
  /\ \E s \in Senders : pc = Handles(s)
  /\ slot = [a \in Actors |-> None]
  /\ link = [s \in Senders |-> "none"]
  /\ sent = [s \in Senders |-> 0]
  /\ woken = [a \in Actors |-> FALSE]
  /\ mode = "try_recv"
  /\ waking = None
  /\ received = << >>
  /\ splits = 1
  /\ leftover = FALSE

(***************************************************************************)
(* split on a channel all whose handles are gone.  With debug assertions   *)
(* the program stops here when readyq is not empty; without them it goes   *)
(* on, and the indexes in readyq are in freeq as well.  readyq itself and  *)
(* receiver_dropped are left as they are.                                  *)
(***************************************************************************)
AllDropped ==
  /\ pc[RX] = "dropped"
  /\ \A s \in Senders : pc[s] \in {"absent", "dropped"}

Split ==
  /\ splits < MaxSplits
  /\ AllDropped
  /\ DebugAssertions => readyq = << >>
  /\ freeq' = Refilled
  /\ num_senders' = 1
  /\ \E s \in Senders : pc' = Handles(s)
  /\ splits' = splits + 1
  /\ leftover' = (readyq # << >>)
  /\ UNCHANGED <<readyq, slots, waitq, receiver_waker, receiver_dropped, slot,
                 link, sent, woken, mode, waking, received>>

-----------------------------------------------------------------------------
(***************************************************************************)
(* Helpers, each the body of a critical section.                           *)
(***************************************************************************)

\* Deque::push_back_unchecked of heapless.  Its contract is that the deque is
\* not full; of a full one, front and back are the same place, and after the
\* push everything from there up to back counts: the new element alone.
PushUnchecked(q, i) == IF Len(q) < N THEN Append(q, i) ELSE <<i>>

\* A bug: the slot goes to freeq even when a sender waits for one.
FreeSlotOnly(a) ==
  /\ freeq' = PushUnchecked(freeq, slot[a])
  /\ slot' = [slot EXCEPT ![a] = None]
  /\ UNCHANGED <<waitq, link, woken>>

\* return_free_slot: the slot of actor a goes to the longest-waiting sender,
\* which is woken, or back to freeq.
ReturnFreeSlot(a) ==
  \/ /\ waitq # << >>
     /\ waitq' = Tail(waitq)
     /\ link' = [link EXCEPT ![Head(waitq)] = "popped"]
     /\ slot' = [slot EXCEPT ![a] = None, ![Head(waitq)] = slot[a]]
     /\ woken' = [woken EXCEPT ![Head(waitq)] = TRUE]
     /\ UNCHANGED freeq
  \/ /\ waitq = << >>
     /\ freeq' = PushUnchecked(freeq, slot[a])
     /\ slot' = [slot EXCEPT ![a] = None]
     /\ UNCHANGED <<waitq, link, woken>>

\* The start of any call that sends: the message is <<s, sent[s]>>.
BeginSend(s) ==
  /\ pc[s] = "idle"
  /\ sent[s] < MaxSends
  /\ sent' = [sent EXCEPT ![s] = @ + 1]

-----------------------------------------------------------------------------
(***************************************************************************)
(* Sender::try_send                                                        *)
(***************************************************************************)

\* The look at the wait queue; a waiting sender makes this call return Full.
TrySend(s) ==
  /\ BeginSend(s)
  /\ Goto(s, IF waitq = << >> THEN "try_closed" ELSE "idle")
  /\ UNCHANGED <<chan, slot, link, woken, mode, waking, received, splits,
                 leftover>>

\* A bug: try_send does not ask is_closed.
TrySendAnyway(s) ==
  /\ pc[s] = "try_closed"
  /\ Goto(s, "try_pop")
  /\ UNCHANGED <<chan, slot, link, sent, woken, mode, waking, received, splits,
                 leftover>>

\* is_closed; a closed channel makes this call return NoReceiver.
TrySendClosed(s) ==
  /\ pc[s] = "try_closed"
  /\ Goto(s, IF receiver_dropped THEN "idle" ELSE "try_pop")
  /\ UNCHANGED <<chan, slot, link, sent, woken, mode, waking, received, splits,
                 leftover>>

TrySendPop(s) ==
  /\ pc[s] = "try_pop"
  /\ \/ /\ freeq = << >>              \* Full
        /\ Goto(s, "idle")
        /\ UNCHANGED <<freeq, slot>>
     \/ /\ freeq # << >>
        /\ freeq' = Tail(freeq)
        /\ slot' = [slot EXCEPT ![s] = Head(freeq)]
        /\ Goto(s, "write")
  /\ UNCHANGED <<readyq, slots, waitq, receiver_waker, receiver_dropped,
                 num_senders, link, sent, woken, mode, waking, received, splits,
                 leftover>>

(***************************************************************************)
(* Sender::send                                                            *)
(***************************************************************************)
Send(s) ==
  /\ BeginSend(s)
  /\ Goto(s, "sending")
  /\ woken' = [woken EXCEPT ![s] = TRUE]
  /\ UNCHANGED <<chan, slot, link, mode, waking, received, splits, leftover>>

\* poll_fn, one critical section.  slot[s] is free_slot_ptr while the future
\* is pending and idx once it is ready.
PollSend(s) ==
  /\ pc[s] = "sending"
  /\ woken' = [woken EXCEPT ![s] = FALSE]
  /\ \/ /\ receiver_dropped
        /\ Goto(s, "dropper")
        /\ UNCHANGED <<freeq, waitq, slot, link>>
     \/ /\ ~receiver_dropped
        /\ link[s] = "popped"
        /\ link' = [link EXCEPT ![s] = "none"]
        /\ Goto(s, IF slot[s] # None THEN "write" ELSE "dropper")
        /\ UNCHANGED <<freeq, waitq, slot>>
     \/ /\ ~receiver_dropped
        /\ link[s] = "linked"
        /\ UNCHANGED <<pc, freeq, waitq, slot, link>>
     \/ /\ ~receiver_dropped
        /\ link[s] = "none"
        /\ waitq # << >> \/ freeq = << >>
        /\ waitq' = Append(waitq, s)
        /\ link' = [link EXCEPT ![s] = "linked"]
        /\ UNCHANGED <<pc, freeq, slot>>
     \/ /\ ~receiver_dropped
        /\ link[s] = "none"
        /\ waitq = << >>
        /\ freeq # << >>
        /\ slot' = [slot EXCEPT ![s] = Last(freeq)]
        /\ freeq' = Front(freeq)
        /\ Goto(s, "write")
        /\ UNCHANGED <<waitq, link>>
  /\ UNCHANGED <<readyq, slots, receiver_waker, receiver_dropped, num_senders,
                 sent, mode, waking, received, splits, leftover>>

\* The future is dropped between two polls.
CancelSend(s) ==
  /\ pc[s] = "sending"
  /\ Goto(s, "dropper")
  /\ UNCHANGED <<chan, slot, link, sent, woken, mode, waking, received, splits,
                 leftover>>

\* dropper, first half: Link::remove_from_list if there is a link.
DropLink(s) ==
  /\ pc[s] = "dropper"
  /\ \/ /\ link[s] = "linked"
        /\ \E i \in DOMAIN waitq : waitq[i] = s /\ waitq' = RemoveAt(waitq, i)
     \/ /\ link[s] # "linked"
        /\ UNCHANGED waitq
  /\ link' = [link EXCEPT ![s] = "none"]
  /\ Goto(s, "give_back")
  /\ UNCHANGED <<freeq, readyq, slots, receiver_waker, receiver_dropped,
                 num_senders, slot, sent, woken, mode, waking, received, splits,
                 leftover>>

\* A bug: the dropper forgets the slot it was handed.
KeepSlot(s) ==
  /\ pc[s] = "give_back"
  /\ slot' = [slot EXCEPT ![s] = None]
  /\ Goto(s, "idle")
  /\ UNCHANGED <<chan, link, sent, woken, mode, waking, received, splits,
                 leftover>>

\* A bug: the dropper returns a slot even if it holds none.
GiveBackAlways(s) ==
  /\ pc[s] = "give_back"
  /\ ReturnFreeSlot(s)
  /\ Goto(s, "idle")
  /\ UNCHANGED <<readyq, slots, receiver_waker, receiver_dropped, num_senders,
                 sent, mode, waking, received, splits, leftover>>

\* dropper, second half: an unused slot goes back to the channel.
GiveBack(s) ==
  /\ pc[s] = "give_back"
  /\ \/ slot[s] # None /\ ReturnFreeSlot(s)
     \/ slot[s] = None /\ UNCHANGED <<freeq, waitq, slot, link, woken>>
  /\ Goto(s, "idle")
  /\ UNCHANGED <<readyq, slots, receiver_waker, receiver_dropped, num_senders,
                 sent, mode, waking, received, splits, leftover>>

(***************************************************************************)
(* Sender::send_footer                                                     *)
(***************************************************************************)

\* The memcpy; it is in progress while pc[s] = "write".
WriteSlot(s) ==
  /\ pc[s] = "write"
  /\ slots' = [slots EXCEPT ![slot[s]] = <<s, sent[s]>>]
  /\ Goto(s, "push")
  /\ UNCHANGED <<freeq, readyq, waitq, receiver_waker, receiver_dropped,
                 num_senders, slot, link, sent, woken, mode, waking, received,
                 splits, leftover>>

PushReady(s) ==
  /\ pc[s] = "push"
  /\ readyq' = PushUnchecked(readyq, slot[s])
  /\ slot' = [slot EXCEPT ![s] = None]
  /\ Goto(s, "wake")
  /\ UNCHANGED <<freeq, slots, waitq, receiver_waker, receiver_dropped,
                 num_senders, link, sent, woken, mode, waking, received, splits,
                 leftover>>

\* WakerRegistration::wake, at the end of send_footer and of Sender::drop.
WakeReceiver(s) ==
  /\ pc[s] \in {"wake", "drop_wake"}
  /\ receiver_waker' = FALSE
  /\ woken' = [woken EXCEPT ![RX] = @ \/ receiver_waker]
  /\ Goto(s, IF pc[s] = "wake" THEN "idle" ELSE "dropped")
  /\ UNCHANGED <<freeq, readyq, slots, waitq, receiver_dropped, num_senders,
                 slot, link, sent, mode, waking, received, splits, leftover>>

(***************************************************************************)
(* Sender::clone and Sender::drop                                          *)
(***************************************************************************)

CloneSender(s, t) ==
  /\ pc[s] = "idle"
  /\ pc[t] = "absent"
  /\ num_senders' = num_senders + 1
  /\ Goto(t, "idle")
  /\ UNCHANGED <<freeq, readyq, slots, waitq, receiver_waker, receiver_dropped,
                 slot, link, sent, woken, mode, waking, received, splits,
                 leftover>>

\* A bug: the last sender leaves without waking the receiver.
DropQuietly(s) ==
  /\ pc[s] = "idle"
  /\ num_senders' = num_senders - 1
  /\ Goto(s, "dropped")
  /\ UNCHANGED <<freeq, readyq, slots, waitq, receiver_waker, receiver_dropped,
                 slot, link, sent, woken, mode, waking, received, splits,
                 leftover>>

DropSender(s) ==
  /\ pc[s] = "idle"
  /\ num_senders' = num_senders - 1
  /\ Goto(s, IF num_senders = 1 THEN "drop_wake" ELSE "dropped")
  /\ UNCHANGED <<freeq, readyq, slots, waitq, receiver_waker, receiver_dropped,
                 slot, link, sent, woken, mode, waking, received, splits,
                 leftover>>

-----------------------------------------------------------------------------
(***************************************************************************)
(* Receiver::try_recv, alone or within a poll of Receiver::recv            *)
(***************************************************************************)
TryRecv ==
  /\ pc[RX] = "idle"
  /\ mode' = "try_recv"
  /\ Goto(RX, "pop")
  /\ UNCHANGED <<chan, slot, link, sent, woken, waking, received, splits,
                 leftover>>

\* A poll of recv registers the waker first (WakerRegistration::register).
PollRecv ==
  /\ pc[RX] \in {"idle", "parked"}
  /\ mode' = "recv"
  /\ receiver_waker' = TRUE
  /\ woken' = [woken EXCEPT ![RX] = FALSE]
  /\ Goto(RX, "pop")
  /\ UNCHANGED <<freeq, readyq, slots, waitq, receiver_dropped, num_senders,
                 slot, link, sent, waking, received, splits, leftover>>

PopReady ==
  /\ pc[RX] = "pop"
  /\ \/ /\ readyq # << >>
        /\ slot' = [slot EXCEPT ![RX] = Head(readyq)]
        /\ readyq' = Tail(readyq)
        /\ Goto(RX, "copy")
     \/ /\ readyq = << >>
        /\ Goto(RX, "check_closed")
        /\ UNCHANGED <<readyq, slot>>
  /\ UNCHANGED <<freeq, slots, waitq, receiver_waker, receiver_dropped,
                 num_senders, link, sent, woken, mode, waking, received, splits,
                 leftover>>

\* read_slot, a memcpy outside the critical sections.
CopyOut ==
  /\ pc[RX] = "copy"
  /\ received' = Append(received, slots[slot[RX]])
  /\ Goto(RX, "return")
  /\ UNCHANGED <<chan, slot, link, sent, woken, mode, waking, splits, leftover>>

ReturnSlot ==
  /\ pc[RX] = "return"
  /\ ReturnFreeSlot(RX)
  /\ Goto(RX, "idle")
  /\ UNCHANGED <<readyq, slots, receiver_waker, receiver_dropped, num_senders,
                 sent, mode, waking, received, splits, leftover>>

\* is_closed, in a critical section after the one that found readyq empty:
\* NoSender when there is no sender, else Empty, which makes recv pend.
CheckClosed ==
  /\ pc[RX] = "check_closed"
  /\ Goto(RX, IF num_senders # 0 /\ mode = "recv" THEN "parked" ELSE "idle")
  /\ UNCHANGED <<chan, slot, link, sent, woken, mode, waking, received, splits,
                 leftover>>

\* The future of recv is dropped; it has no state to clean up.
CancelRecv ==
  /\ pc[RX] = "parked"
  /\ Goto(RX, "idle")
  /\ UNCHANGED <<chan, slot, link, sent, woken, mode, waking, received, splits,
                 leftover>>

(***************************************************************************)
(* Receiver::drop                                                          *)
(***************************************************************************)
DropReceiver ==
  /\ pc[RX] = "idle"
  /\ receiver_dropped' = TRUE
  /\ Goto(RX, "drain")
  /\ UNCHANGED <<freeq, readyq, slots, waitq, receiver_waker, num_senders,
                 slot, link, sent, woken, mode, waking, received, splits,
                 leftover>>

Drain ==
  /\ pc[RX] = "drain"
  /\ \/ /\ readyq # << >>
        /\ slot' = [slot EXCEPT ![RX] = Last(readyq)]
        /\ readyq' = Front(readyq)
        /\ Goto(RX, "drop_value")
     \/ /\ readyq = << >>
        /\ Goto(RX, "wake_all")
        /\ UNCHANGED <<readyq, slot>>
  /\ UNCHANGED <<freeq, slots, waitq, receiver_waker, receiver_dropped,
                 num_senders, link, sent, woken, mode, waking, received, splits,
                 leftover>>

\* The value is read and dropped; its index is not returned to freeq.
DropValue ==
  /\ pc[RX] = "drop_value"
  /\ slot' = [slot EXCEPT ![RX] = None]
  /\ Goto(RX, "drain")
  /\ UNCHANGED <<chan, link, sent, woken, mode, waking, received, splits,
                 leftover>>

PopWaiter ==
  /\ pc[RX] = "wake_all"
  /\ \/ /\ waitq # << >>
        /\ waitq' = Tail(waitq)
        /\ link' = [link EXCEPT ![Head(waitq)] = "popped"]
        /\ waking' = Head(waitq)
        /\ Goto(RX, "wake_one")
     \/ /\ waitq = << >>
        /\ Goto(RX, "dropped")
        /\ UNCHANGED <<waitq, link, waking>>
  /\ UNCHANGED <<freeq, readyq, slots, receiver_waker, receiver_dropped,
                 num_senders, slot, sent, woken, mode, received, splits,
                 leftover>>

\* A bug: only the first waiter is woken (if let in place of while let).
WakeOneWaiter ==
  /\ pc[RX] = "wake_one"
  /\ woken' = [woken EXCEPT ![waking] = TRUE]
  /\ waking' = None
  /\ Goto(RX, "dropped")
  /\ UNCHANGED <<chan, slot, link, sent, mode, received, splits, leftover>>

WakeWaiter ==
  /\ pc[RX] = "wake_one"
  /\ woken' = [woken EXCEPT ![waking] = TRUE]
  /\ waking' = None
  /\ Goto(RX, "wake_all")
  /\ UNCHANGED <<chan, slot, link, sent, mode, received, splits, leftover>>

-----------------------------------------------------------------------------
SenderNext(s) ==
  \/ TrySend(s) \/ TrySendClosed(s) \/ TrySendPop(s)
  \/ Send(s) \/ PollSend(s) \/ CancelSend(s) \/ DropLink(s) \/ GiveBack(s)
  \/ WriteSlot(s) \/ PushReady(s) \/ WakeReceiver(s)
  \/ DropSender(s)
  \/ \E t \in Senders : CloneSender(s, t)

ReceiverNext ==
  \/ TryRecv \/ PollRecv \/ PopReady \/ CopyOut \/ ReturnSlot \/ CheckClosed
  \/ CancelRecv
  \/ DropReceiver \/ Drain \/ DropValue \/ PopWaiter \/ WakeWaiter

Next == Split \/ ReceiverNext \/ \E s \in Senders : SenderNext(s)

(***************************************************************************)
(* A call that was begun is carried on, a woken task is polled, and the    *)
(* receiver's task calls recv again and again unless it does something     *)
(* else.  Nobody has to send, cancel, clone or drop, and a poll without a  *)
(* wake never has to happen.                                               *)
(***************************************************************************)
SenderProgress(s) ==
  \/ TrySendClosed(s) \/ TrySendPop(s)
  \/ woken[s] /\ PollSend(s)
  \/ DropLink(s) \/ GiveBack(s)
  \/ WriteSlot(s) \/ PushReady(s) \/ WakeReceiver(s)

ReceiverProgress ==
  \/ (pc[RX] = "idle" \/ woken[RX]) /\ PollRecv
  \/ PopReady \/ CopyOut \/ ReturnSlot \/ CheckClosed
  \/ Drain \/ DropValue \/ PopWaiter \/ WakeWaiter

Fairness ==
  /\ \A s \in Senders : WF_vars(SenderProgress(s))
  /\ WF_vars(ReceiverProgress)

Spec == Init /\ [][Next]_vars
FairSpec == Spec /\ Fairness

-----------------------------------------------------------------------------
(***************************************************************************)
(* Properties                                                              *)
(***************************************************************************)

\* Every variable has the type of the field it stands for.
TypeOK ==
  /\ freeq \in Seq(Slots)
  /\ readyq \in Seq(Slots)
  /\ slots \in [Slots -> Messages \cup {None}]
  /\ waitq \in Seq(Senders)
  /\ receiver_waker \in BOOLEAN
  /\ receiver_dropped \in BOOLEAN
  /\ num_senders \in Int
  /\ pc \in [Actors -> SenderStates \cup ReceiverStates]
  /\ \A s \in Senders : pc[s] \in SenderStates
  /\ pc[RX] \in ReceiverStates
  /\ slot \in [Actors -> Slots \cup {None}]
  /\ link \in [Senders -> {"none", "linked", "popped"}]
  /\ sent \in [Senders -> 0..MaxSends]
  /\ woken \in [Actors -> BOOLEAN]
  /\ mode \in {"try_recv", "recv"}
  /\ waking \in Senders \cup {None}
  /\ received \in Seq(Messages \cup {None})
  /\ splits \in 1..MaxSplits
  /\ leftover \in BOOLEAN

\* No index is in readyq twice, with two actors, or in both.
ReadySlotsExclusive ==
  /\ IsInjective(readyq)
  /\ \A a \in Actors : slot[a] # None =>
       /\ slot[a] \notin Range(readyq)
       /\ \A b \in Actors \ {a} : slot[b] # slot[a]

\* The indexes of freeq are there once and nowhere else.
FreeSlotsExclusive ==
  /\ IsInjective(freeq)
  /\ Range(freeq) \cap (Range(readyq) \cup Range(slot)) = {}

\* A memcpy into or out of a slot never meets another one, although send_footer
\* and read_slot take no critical section.  And a free slot is nowhere else, so
\* that no push_back_unchecked meets a full Deque, unless leftover: without
\* debug assertions a split that finds messages in readyq duplicates their
\* indexes, and a later return_free_slot overflows freeq.
SlotExclusive == ReadySlotsExclusive /\ (leftover \/ FreeSlotsExclusive)

\* No index is lost while the receiver exists, whatever calls are cancelled:
\* return_free_slot hands a slot to exactly one place, and the dropper of a
\* cancelled send gives back what it was handed.
SlotNotLost ==
  ~receiver_dropped =>
    Slots \subseteq Range(freeq) \cup Range(readyq) \cup Range(slot)

\* Nobody waits in wait_queue while a slot is free, so try_send may answer
\* Full by looking at wait_queue only, and a waiter depends on nothing but
\* the slots in use.
NoFreeSlotWhileWaiting == waitq # << >> => freeq = << >>

\* What an actor holds where: the slot in its hand, its link and its number,
\* by the step of the call it is in.
HandsInv ==
  /\ \A s \in Senders :
       /\ pc[s] \in {"write", "push"} => slot[s] # None
       /\ slot[s] # None =>
            pc[s] \in {"sending", "dropper", "give_back", "write", "push"}
       /\ pc[s] = "sending" /\ slot[s] # None => link[s] = "popped"
       /\ pc[s] \in {"try_closed", "try_pop", "sending", "dropper", "give_back",
                     "write", "push"} => sent[s] >= 1
  /\ slot[RX] # None <=> pc[RX] \in {"copy", "return", "drop_value"}
  /\ pc[RX] = "wake_one" <=> waking # None
  /\ pc[RX] \in {"drain", "drop_value", "wake_all", "wake_one", "dropped"} =>
       receiver_dropped

\* wait_queue holds the links that are neither popped nor removed, each of
\* them once; their senders are within send and hold no slot yet.
LinksInv ==
  /\ IsInjective(waitq)
  /\ \A s \in Senders :
       /\ link[s] = "linked" <=> s \in Range(waitq)
       /\ link[s] # "none" => pc[s] \in {"sending", "dropper"}
       /\ link[s] = "linked" => slot[s] = None

\* What keeps a duplicated index from doing more harm is no promise of the code
\* but another defect: split does not reset receiver_dropped, so the senders of
\* a channel that is split again are told NoReceiver, although there is one
\* (ClosedOnlyWithoutReceiver), and none of them comes to freeq or readyq.
LeftoverShut ==
  leftover =>
    /\ ~DebugAssertions
    /\ receiver_dropped
    /\ \A s \in Senders :
         pc[s] # "try_pop" /\ slot[s] = None /\ link[s] = "none"

\* The inductive invariant behind the slot invariants.
SlotInv ==
  /\ TypeOK
  /\ HandsInv
  /\ LinksInv
  /\ LeftoverShut
  /\ SlotExclusive
  /\ SlotNotLost
  /\ NoFreeSlotWhileWaiting

\* A pending send that is not in wait_queue any more was woken or is about
\* to be, and it was handed a slot unless the receiver went away (the case
\* distinction in the poll of send).  No sender stays behind in wait_queue
\* when Receiver::drop is over.
PoppedWaiterIsServed ==
  /\ \A s \in Senders : pc[s] = "sending" /\ link[s] = "popped" =>
       /\ woken[s] \/ waking = s
       /\ slot[s] # None \/ receiver_dropped
  /\ pc[RX] = "dropped" => waitq = << >>

\* A receiver pending in recv is woken for every message and for the drop of
\* the last sender: either it was woken already, or its waker is registered
\* and the sender concerned is about to use it.
NoLostReceiverWakeup ==
  pc[RX] = "parked" /\ (readyq # << >> \/ num_senders = 0) =>
    \/ woken[RX]
    \/ /\ receiver_waker
       /\ \E s \in Senders : pc[s] \in {"wake", "drop_wake"}

\* num_senders is the number of handles that are not dropped, so that it is 0
\* exactly when the last one goes.
LiveSenders == {s \in Senders : pc[s] \notin {"absent", "drop_wake", "dropped"}}
SendersCounted == num_senders = Cardinality(LiveSenders)

\* Within recv the waker stays registered until it is used, and a message that
\* comes after the look at readyq, or the drop of the last sender after the
\* look at num_senders, is announced by a wake that is still to come.
RecvInv ==
  /\ pc[RX] = "parked" => mode = "recv"
  /\ mode = "recv" /\ pc[RX] \in {"pop", "check_closed", "parked"} =>
       woken[RX] \/ receiver_waker
  /\ mode = "recv" /\ pc[RX] \in {"check_closed", "parked"} /\ readyq # << >> =>
       woken[RX] \/ \E s \in Senders : pc[s] = "wake"
  /\ pc[RX] = "parked" /\ num_senders = 0 =>
       woken[RX] \/ \E s \in Senders : pc[s] = "drop_wake"

\* The inductive invariant of the whole channel.
ChannelInv == SlotInv /\ SendersCounted /\ PoppedWaiterIsServed /\ RecvInv

\* The channel implements the bounded FIFO: readyq, read through the slots, is
\* its queue.  A message is admitted by the look at receiver_dropped, in
\* try_send or in the poll of send that gets a slot, until it is in readyq.
Queued == [i \in DOMAIN readyq |-> slots[readyq[i]]]
Taken == IF pc[RX] = "copy" THEN <<slots[slot[RX]]>> ELSE << >>
IsAdmitted(s) == pc[s] \in {"try_pop", "write", "push"}
Admitted == {<<s, sent[s]>> : s \in {t \in Senders : IsAdmitted(t)}}
Listening ==
  pc[RX] \notin {"drain", "drop_value", "wake_all", "wake_one", "dropped"}

Fifo == INSTANCE FifoChannel WITH
          Capacity <- N, queue <- Queued, received <- received \o Taken,
          admitted <- Admitted, closed <- receiver_dropped,
          listening <- Listening
IsFifoChannel == Fifo!Spec

\* The messages that are in the channel or have left it to the receiver.
Accepted == Range(received \o Taken) \cup Range(Queued)

\* A sender whose message is not in the channel yet, or never will be.
IsSending(s) ==
  pc[s] \in {"try_closed", "try_pop", "sending", "dropper", "give_back",
            "write", "push"}

\* No accepted message is newer than its sender's last one, nor is it the one
\* that a sender still holds; the memcpy is over when an index is published.
ContentInv ==
  /\ \A m \in Accepted :
       /\ m \in Messages
       /\ m[2] <= sent[m[1]]
       /\ IsSending(m[1]) => m[2] # sent[m[1]]
  /\ \A s \in Senders : pc[s] = "push" => slots[slot[s]] = <<s, sent[s]>>

\* The inductive invariant behind the implementation of the FIFO.
FifoInv == ChannelInv /\ ContentInv

\* Every send returns: with a slot, or with NoReceiver.  Senders queue up
\* for slots, others are cancelled while they hold one, the receiver may go.
SendReturns ==
  \A s \in Senders : pc[s] = "sending" ~> pc[s] # "sending"

\* recv does not sleep on a message, nor after the last sender is gone.
RecvReturns ==
  pc[RX] = "parked" /\ (readyq # << >> \/ num_senders = 0)
    ~> pc[RX] # "parked"

-----------------------------------------------------------------------------
(***************************************************************************)
(* What the repository says and the code does not do                       *)
(***************************************************************************)

\* book, by-example/channel.md:82: recv fails on an *empty* channel all of
\* whose senders are gone, hence never while a message is left.
NoSenderOnlyWhenEmpty ==
  [][CheckClosed /\ num_senders = 0 => readyq = << >>]_vars

\* channel.rs:116, the note at the assertion in split: the receiver's drop
\* left the queue empty.
QueueClearedByReceiverDrop == AllDropped => readyq = << >>

\* channel.rs:506: Sender::is_closed is true if there is no Receiver.
ClosedOnlyWithoutReceiver == receiver_dropped => ~Listening

\* channel.rs:170 and 350, the safety notes "`freeq` is not full" and "ready is
\* not full": no unchecked push meets a full Deque.
PushesHaveRoom ==
  /\ \A s \in Senders : pc[s] = "push" => Len(readyq) < N
  /\ \A a \in Actors :
       /\ slot[a] # None
       /\ pc[a] \in {"give_back", "return"}
       /\ waitq = << >>
       => Len(freeq) < N
=============================================================================
