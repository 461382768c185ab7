----------------------------- MODULE WaitQueue -----------------------------
(***************************************************************************)
(* The intrusive doubly linked list of wakers of rtic-common               *)
(* (src/rtic-common/src/wait_queue.rs), pointer by pointer.                *)
(*                                                                         *)
(* A link lives in the future that waits, at an address of its own; the    *)
(* list only points to it.  Every operation is one critical section.  The  *)
(* variable list is not in the code: it is the sequence of waiters that    *)
(* the pointers are meant to represent, which ListInv compares with them.  *)
(***************************************************************************)
EXTENDS Integers, FiniteSets, SequencesExt

CONSTANTS
  Links,    \* the addresses at which a link can be
  Null      \* the null pointer

ASSUME NullAssumption == Null \notin Links
ASSUME LinksAssumption == IsFiniteSet(Links)

VARIABLES
  head,       \* DoublyLinkedList::head
  tail,       \* DoublyLinkedList::tail
  next,       \* Link::next
  prev,       \* Link::prev
  is_popped,  \* Link::is_popped
  live,       \* there is a link at this address
  list        \* the waiters the list stands for (history)

queueVars == <<head, tail, next, prev, is_popped, live, list>>

InitQueue ==
  /\ head = Null
  /\ tail = Null
  /\ next = [l \in Links |-> Null]
  /\ prev = [l \in Links |-> Null]
  /\ is_popped = [l \in Links |-> FALSE]
  /\ live = [l \in Links |-> FALSE]
  /\ list = << >>

\* A bug: the new link is not connected with the one before it.
PushWithoutPrev(l) ==
  /\ ~live[l]
  /\ live' = [live EXCEPT ![l] = TRUE]
  /\ is_popped' = [is_popped EXCEPT ![l] = FALSE]
  /\ prev' = [prev EXCEPT ![l] = Null]
  /\ \/ /\ tail # Null
        /\ next' = [next EXCEPT ![l] = Null, ![tail] = l]
        /\ UNCHANGED head
     \/ /\ tail = Null
        /\ next' = [next EXCEPT ![l] = Null]
        /\ head' = l
  /\ tail' = l
  /\ list' = Append(list, l)

\* Link::new, then push: the users of the list do both in one go.
Push(l) ==
  /\ ~live[l]
  /\ live' = [live EXCEPT ![l] = TRUE]
  /\ is_popped' = [is_popped EXCEPT ![l] = FALSE]
  /\ \/ /\ tail # Null
        /\ prev' = [prev EXCEPT ![l] = tail]
        /\ next' = [next EXCEPT ![l] = Null, ![tail] = l]
        /\ UNCHANGED head
     \/ /\ tail = Null
        /\ prev' = [prev EXCEPT ![l] = Null]
        /\ next' = [next EXCEPT ![l] = Null]
        /\ head' = l
  /\ tail' = l
  /\ list' = Append(list, l)

\* A bug: popping the only link leaves tail behind.
PopKeepsTail ==
  /\ head # Null
  /\ head' = next[head]
  /\ next' = [next EXCEPT ![head] = Null]
  /\ prev' = [l \in Links |-> IF l \in {head, next[head]} THEN Null ELSE prev[l]]
  /\ is_popped' = [is_popped EXCEPT ![head] = TRUE]
  /\ list' = Tail(list)
  /\ UNCHANGED <<tail, live>>

Pop ==
  /\ head # Null
  /\ head' = next[head]
  /\ tail' = IF head = tail THEN Null ELSE tail
  /\ next' = [next EXCEPT ![head] = Null]
  /\ prev' = [l \in Links |-> IF l \in {head, next[head]} THEN Null ELSE prev[l]]
  /\ is_popped' = [is_popped EXCEPT ![head] = TRUE]
  /\ list' = Tail(list)
  /\ UNCHANGED live

\* remove_from_list by the place of the link.  A popped link is left alone.
UnlinkAlone(l) ==
  /\ prev[l] = Null
  /\ next[l] = Null
  /\ IF l = head THEN head' = Null /\ tail' = Null ELSE UNCHANGED <<head, tail>>
  /\ UNCHANGED <<next, prev>>

UnlinkFirst(l) ==
  /\ prev[l] = Null
  /\ next[l] # Null
  /\ prev' = [prev EXCEPT ![next[l]] = Null]
  /\ head' = next[l]
  /\ UNCHANGED <<next, tail>>

\* A bug: head is moved instead of tail.
UnlinkLastMovesHead(l) ==
  /\ prev[l] # Null
  /\ next[l] = Null
  /\ next' = [next EXCEPT ![prev[l]] = Null]
  /\ head' = prev[l]
  /\ UNCHANGED <<prev, tail>>

UnlinkLast(l) ==
  /\ prev[l] # Null
  /\ next[l] = Null
  /\ next' = [next EXCEPT ![prev[l]] = Null]
  /\ tail' = prev[l]
  /\ UNCHANGED <<prev, head>>

UnlinkInside(l) ==
  /\ prev[l] # Null
  /\ next[l] # Null
  /\ next' = [next EXCEPT ![prev[l]] = next[l]]
  /\ prev' = [prev EXCEPT ![next[l]] = prev[l]]
  /\ UNCHANGED <<head, tail>>

\* remove_from_list, after which the link is dropped: it may have been popped.
RemoveFromList(l) ==
  /\ live[l]
  /\ live' = [live EXCEPT ![l] = FALSE]
  /\ \/ /\ is_popped[l]
        /\ UNCHANGED <<head, tail, next, prev, is_popped, list>>
     \/ /\ ~is_popped[l]
        /\ UnlinkAlone(l) \/ UnlinkFirst(l) \/ UnlinkLast(l) \/ UnlinkInside(l)
        /\ is_popped' = [is_popped EXCEPT ![l] = TRUE]
        /\ \E i \in DOMAIN list : list[i] = l /\ list' = RemoveAt(list, i)

Next == Pop \/ \E l \in Links : Push(l) \/ RemoveFromList(l)

Spec == InitQueue /\ [][Next]_queueVars

-----------------------------------------------------------------------------
\* The pointers have the types of the fields.
TypeOK ==
  /\ head \in Links \cup {Null}
  /\ tail \in Links \cup {Null}
  /\ next \in [Links -> Links \cup {Null}]
  /\ prev \in [Links -> Links \cup {Null}]
  /\ is_popped \in [Links -> BOOLEAN]
  /\ live \in [Links -> BOOLEAN]
  /\ list \in Seq(Links)

\* The pointers represent the sequence of waiters, in both directions, and a
\* link is in it exactly while it exists and is not marked as popped.  With
\* it the list never points to a link that is gone (push requires that a link
\* lives until it is removed; remove_from_list must find it to guarantee it).
ListInv ==
  /\ IsInjective(list)
  /\ \A l \in Links : l \in Range(list) <=> live[l] /\ ~is_popped[l]
  /\ head = IF list = << >> THEN Null ELSE list[1]
  /\ tail = IF list = << >> THEN Null ELSE list[Len(list)]
  /\ \A i \in DOMAIN list :
       /\ next[list[i]] = IF i = Len(list) THEN Null ELSE list[i + 1]
       /\ prev[list[i]] = IF i = 1 THEN Null ELSE list[i - 1]

\* The inductive invariant of the list.
QueueInv == TypeOK /\ ListInv

\* A walk along the pointers n from h, as many steps as there are links.
Walk(h, n) ==
  LET at[i \in 1..Cardinality(Links)] ==
        IF i = 1 THEN h
        ELSE IF at[i - 1] = Null THEN Null ELSE n[at[i - 1]]
  IN  at

\* What a walk along next from head meets.
Met(walk) == [i \in 1..Cardinality({j \in DOMAIN walk : walk[j] # Null}) |-> walk[i]]
Contents == Met(Walk(head, next))

\* The list implements the FIFO of waiters.
Waiters == INSTANCE WaitList WITH
             queue <- Contents, waiting <- {l \in Links : live[l] /\ ~is_popped[l]}
IsWaitList == Waiters!Spec
=============================================================================
