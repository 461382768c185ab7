----------------------------- MODULE WaitUntil -----------------------------
(***************************************************************************)
(* WaitQueue::wait_until (src/rtic-common/src/wait_queue.rs) on top of the *)
(* list, with the task that notifies the waiters as the example wait-queue *)
(* of the repository does: it changes the state that the closures look at, *)
(* then pops and wakes all waiters, and waits for the next time.  pop is a *)
(* critical section of its own and wake comes after it, so anybody may run *)
(* while the notifier has a waker in its hands.                            *)
(*                                                                         *)
(* The closure runs outside of critical sections, so a waiter can be       *)
(* preempted between looking at the state and linking itself into the      *)
(* list.  The waiters have different thresholds, as the closures may.      *)
(***************************************************************************)
EXTENDS WaitQueue

CONSTANTS
  Threshold,      \* the count at which the closure of a waiter returns Some
  MaxCount,       \* bound on the count
  KeepsNotifying  \* the notifier goes on when the count is at its bound

ASSUME ThresholdAssumption ==
  /\ MaxCount \in Nat
  /\ Threshold \in [Links -> 0..MaxCount]
  /\ KeepsNotifying \in BOOLEAN

VARIABLES
  pc,        \* where the future of a waiter is
  woken,     \* the task of the waiter is to be polled
  count,     \* the shared state the closures look at
  notifier,  \* "idle", or "popping" and "waking" between an update and the
             \* last pop
  waking     \* the task whose waker the notifier got from pop

vars == <<queueVars, pc, woken, count, notifier, waking>>

Init ==
  /\ InitQueue
  /\ pc = [l \in Links |-> "idle"]
  /\ woken = [l \in Links |-> FALSE]
  /\ count = 0
  /\ notifier = "idle"
  /\ waking = Null

Goto(l, label) == pc' = [pc EXCEPT ![l] = label]

Call(l) ==
  /\ pc[l] = "idle"
  /\ Goto(l, "waiting")
  /\ woken' = [woken EXCEPT ![l] = TRUE]
  /\ UNCHANGED <<queueVars, count, notifier, waking>>

\* link_guard.execute(), which removes the link of the poll before.
ExecuteGuard(l) ==
  \/ RemoveFromList(l)
  \/ ~live[l] /\ UNCHANGED queueVars

\* A bug: the guard forgets the link without removing it from the list.
StartPollForgets(l) ==
  /\ pc[l] = "waiting"
  /\ live' = [live EXCEPT ![l] = FALSE]
  /\ Goto(l, "check")
  /\ woken' = [woken EXCEPT ![l] = FALSE]
  /\ UNCHANGED <<head, tail, next, prev, is_popped, list, count, notifier, waking>>

\* A poll begins: the link of the poll before is cleaned up.
StartPoll(l) ==
  /\ pc[l] = "waiting"
  /\ ExecuteGuard(l)
  /\ Goto(l, "check")
  /\ woken' = [woken EXCEPT ![l] = FALSE]
  /\ UNCHANGED <<count, notifier, waking>>

\* The closure is called.
Check(l) ==
  /\ pc[l] = "check"
  /\ Goto(l, IF count >= Threshold[l] THEN "drop" ELSE "push")
  /\ UNCHANGED <<queueVars, woken, count, notifier, waking>>

PushLink(l) ==
  /\ pc[l] = "push"
  /\ Push(l)
  /\ Goto(l, "waiting")
  /\ UNCHANGED <<woken, count, notifier, waking>>

\* The future is dropped, and link_guard with it: after Ready, or cancelled.
Drop(l) ==
  /\ pc[l] \in {"waiting", "drop"}
  /\ ExecuteGuard(l)
  /\ Goto(l, "idle")
  /\ UNCHANGED <<woken, count, notifier, waking>>

Update ==
  /\ notifier = "idle"
  /\ count < MaxCount \/ KeepsNotifying
  /\ count' = IF count < MaxCount THEN count + 1 ELSE count
  /\ notifier' = "popping"
  /\ UNCHANGED <<queueVars, pc, woken, waking>>

\* The notifier gets the waker of the first waiter, or learns that there is none.
PopWaker ==
  /\ notifier = "popping"
  /\ \/ /\ Pop
        /\ waking' = head
        /\ notifier' = "waking"
     \/ /\ head = Null
        /\ notifier' = "idle"
        /\ UNCHANGED <<queueVars, waking>>
  /\ UNCHANGED <<pc, woken, count>>

\* A bug: the waker is dropped, not woken.
DropWaker ==
  /\ notifier = "waking"
  /\ waking' = Null
  /\ notifier' = "popping"
  /\ UNCHANGED <<queueVars, pc, woken, count>>

Wake ==
  /\ notifier = "waking"
  /\ woken' = [woken EXCEPT ![waking] = TRUE]
  /\ waking' = Null
  /\ notifier' = "popping"
  /\ UNCHANGED <<queueVars, pc, count>>

WaiterNext(l) ==
  Call(l) \/ StartPoll(l) \/ Check(l) \/ PushLink(l) \/ Drop(l)

NextWaitUntil ==
  Update \/ PopWaker \/ Wake \/ \E l \in Links : WaiterNext(l)

\* Woken tasks are polled, a poll runs to its end, and the notifier comes
\* back as long as it may.  Nobody has to call or to cancel.
Fairness ==
  /\ \A l \in Links :
       WF_vars(\/ woken[l] /\ StartPoll(l)
               \/ Check(l) \/ PushLink(l)
               \/ pc[l] = "drop" /\ Drop(l))
  /\ WF_vars(Update \/ PopWaker \/ Wake)

WaitUntilSpec == Init /\ [][NextWaitUntil]_vars /\ Fairness

-----------------------------------------------------------------------------
\* Every variable of the futures and of the notifier has its type.
WaitTypeOK ==
  /\ pc \in [Links -> {"idle", "waiting", "check", "push", "drop"}]
  /\ woken \in [Links -> BOOLEAN]
  /\ count \in 0..MaxCount
  /\ notifier \in {"idle", "popping", "waking"}
  /\ waking \in Links \cup {Null}

\* A link exists only while its future is pending; when it is popped it points
\* nowhere and its task was woken, or the notifier has its waker, which it
\* wakes before it pops another one; a task that has no link yet was woken.
GuardInv ==
  /\ \A l \in Links :
       /\ live[l] => pc[l] = "waiting"
       /\ live[l] /\ is_popped[l] => next[l] = Null /\ prev[l] = Null
       /\ pc[l] = "waiting" /\ ~(live[l] /\ ~is_popped[l]) =>
            woken[l] \/ waking = l
  /\ notifier = "waking" <=> waking # Null

\* The inductive invariant of the futures and their list.
WaitInv == QueueInv /\ WaitTypeOK /\ GuardInv

\* The links that the list or another link points to.
Reachable ==
  {head, tail} \cup UNION {{next[m], prev[m]} : m \in {m \in Links : live[m]}}

\* The pointers of the list lead only to links of futures that are pending:
\* no future goes away, or makes a new link, while its link can be reached.
LinkWithinFuture ==
  \A l \in Reachable \ {Null} : live[l] /\ pc[l] = "waiting"

\* A pending waiter that a walk along the list does not meet was woken, or the
\* notifier is about to wake it: no waiter falls out of the list unnoticed,
\* whatever others do to the list.
UnreachableIsWoken ==
  \A l \in Links : pc[l] = "waiting" /\ l \notin Range(Contents) =>
    woken[l] \/ waking = l

\* wait_until returns once its closure would say so (wait_queue.rs:229, "Wait
\* until `f` returns `Some`").
WaitUntilReturns ==
  \A l \in Links :
    pc[l] = "waiting" /\ count >= Threshold[l] ~> pc[l] \in {"drop", "idle"}
=============================================================================
