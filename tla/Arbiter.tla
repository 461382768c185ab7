------------------------------ MODULE Arbiter ------------------------------
(***************************************************************************)
(* The Arbiter of rtic-sync (src/rtic-sync/src/arbiter.rs): exclusive      *)
(* access to a value for tasks, first come, first served.                  *)
(*                                                                         *)
(* Every call is one critical section: the drop of the dropper after the   *)
(* poll that returns Ready finds a popped link or none, and does nothing.  *)
(* The wait queue is the sequence that WaitQueue is shown to implement.    *)
(* The release hands the ownership over without resetting taken, so a task *)
(* that was popped owns the value before it is polled again; when its      *)
(* future is dropped just then, the ownership is gone (lost).              *)
(***************************************************************************)
EXTENDS FiniteSets, SequencesExt

CONSTANT Tasks   \* the futures and tokens that use the arbiter

VARIABLES
  waitq,   \* Arbiter::wait_queue
  taken,   \* Arbiter::taken
  pc,      \* what a task has: nothing, a pending access, ExclusiveAccess
  link,    \* the link of a pending access: none, linked or popped
  woken,   \* the task is to be polled
  lost     \* an access was dropped that had been popped (history)

vars == <<waitq, taken, pc, link, woken, lost>>

Init ==
  /\ waitq = << >>
  /\ taken = FALSE
  /\ pc = [t \in Tasks |-> "idle"]
  /\ link = [t \in Tasks |-> "none"]
  /\ woken = [t \in Tasks |-> FALSE]
  /\ lost = FALSE

Goto(t, label) == pc' = [pc EXCEPT ![t] = label]

\* access is called; its future is polled for the first time like later ones.
Access(t) ==
  /\ pc[t] = "idle"
  /\ Goto(t, "waiting")
  /\ woken' = [woken EXCEPT ![t] = TRUE]
  /\ UNCHANGED <<waitq, taken, link, lost>>

\* The condition of the uncontended case in access and in try_access.
Available == waitq = << >> /\ ~taken

\* The poll_fn of access.
Poll(t) ==
  /\ pc[t] = "waiting"
  /\ woken' = [woken EXCEPT ![t] = FALSE]
  /\ \/ /\ Available
        /\ taken' = TRUE
        /\ Goto(t, "holding")
        /\ link' = [link EXCEPT ![t] = "none"]
        /\ UNCHANGED waitq
     \/ /\ ~Available
        /\ link[t] = "popped"
        /\ Goto(t, "holding")
        /\ link' = [link EXCEPT ![t] = "none"]
        /\ UNCHANGED <<waitq, taken>>
     \/ /\ ~Available
        /\ link[t] = "linked"
        /\ UNCHANGED <<waitq, taken, pc, link>>
     \/ /\ ~Available
        /\ link[t] = "none"
        /\ waitq' = Append(waitq, t)
        /\ link' = [link EXCEPT ![t] = "linked"]
        /\ UNCHANGED <<taken, pc>>
  /\ UNCHANGED lost

\* A bug: the dropper leaves the link in the queue.
CancelKeepsLink(t) ==
  /\ pc[t] = "waiting"
  /\ link' = [link EXCEPT ![t] = "none"]
  /\ lost' = (lost \/ link[t] = "popped")
  /\ Goto(t, "idle")
  /\ UNCHANGED <<waitq, taken, woken>>

\* The pending future is dropped: remove_from_list ignores a popped link.
Cancel(t) ==
  /\ pc[t] = "waiting"
  /\ \/ /\ link[t] = "linked"
        /\ \E i \in DOMAIN waitq : waitq[i] = t /\ waitq' = RemoveAt(waitq, i)
     \/ /\ link[t] # "linked"
        /\ UNCHANGED waitq
  /\ link' = [link EXCEPT ![t] = "none"]
  /\ lost' = (lost \/ link[t] = "popped")
  /\ Goto(t, "idle")
  /\ UNCHANGED <<taken, woken>>

\* A bug: try_access looks at the queue only.
TryAccessUntaken(t) ==
  /\ pc[t] = "idle"
  /\ waitq = << >>
  /\ taken' = TRUE
  /\ Goto(t, "holding")
  /\ UNCHANGED <<waitq, link, woken, lost>>

\* try_access, when it returns Some; it changes nothing when it does not.
TryAccess(t) ==
  /\ pc[t] = "idle"
  /\ Available
  /\ taken' = TRUE
  /\ Goto(t, "holding")
  /\ UNCHANGED <<waitq, link, woken, lost>>

\* A bug: the value goes to the task that came last.
ReleaseToLast(t) ==
  /\ pc[t] = "holding"
  /\ Goto(t, "idle")
  /\ \/ /\ waitq = << >>
        /\ taken' = FALSE
        /\ UNCHANGED <<waitq, link, woken>>
     \/ /\ waitq # << >>
        /\ waitq' = Front(waitq)
        /\ link' = [link EXCEPT ![Last(waitq)] = "popped"]
        /\ woken' = [woken EXCEPT ![Last(waitq)] = TRUE]
        /\ UNCHANGED taken
  /\ UNCHANGED lost

\* A bug: the next task is popped, but not woken.
ReleaseQuietly(t) ==
  /\ pc[t] = "holding"
  /\ Goto(t, "idle")
  /\ \/ /\ waitq = << >>
        /\ taken' = FALSE
        /\ UNCHANGED <<waitq, link>>
     \/ /\ waitq # << >>
        /\ waitq' = Tail(waitq)
        /\ link' = [link EXCEPT ![Head(waitq)] = "popped"]
        /\ UNCHANGED taken
  /\ UNCHANGED <<woken, lost>>

\* ExclusiveAccess::drop.
Release(t) ==
  /\ pc[t] = "holding"
  /\ Goto(t, "idle")
  /\ \/ /\ waitq = << >>
        /\ taken' = FALSE
        /\ UNCHANGED <<waitq, link, woken>>
     \/ /\ waitq # << >>
        /\ waitq' = Tail(waitq)
        /\ link' = [link EXCEPT ![Head(waitq)] = "popped"]
        /\ woken' = [woken EXCEPT ![Head(waitq)] = TRUE]
        /\ UNCHANGED taken
  /\ UNCHANGED lost

TaskNext(t) ==
  Access(t) \/ Poll(t) \/ Cancel(t) \/ TryAccess(t) \/ Release(t)

Next == \E t \in Tasks : TaskNext(t)

\* A woken task is polled and no task keeps the value forever.  Nobody has to
\* ask for it or to cancel, and a poll without a wake never has to happen.
Fairness ==
  \A t \in Tasks : WF_vars(woken[t] /\ Poll(t)) /\ WF_vars(Release(t))

Spec == Init /\ [][Next]_vars
FairSpec == Spec /\ Fairness

-----------------------------------------------------------------------------
\* Every variable has the type of the field it stands for.
TypeOK ==
  /\ waitq \in Seq(Tasks)
  /\ taken \in BOOLEAN
  /\ pc \in [Tasks -> {"idle", "waiting", "holding"}]
  /\ link \in [Tasks -> {"none", "linked", "popped"}]
  /\ woken \in [Tasks -> BOOLEAN]
  /\ lost \in BOOLEAN

\* The task has the value, or will have it at its next poll.
Owns(t) == pc[t] = "holding" \/ link[t] = "popped"

\* One task at a time owns the value: "One only gets here if there is
\* exlusive access" (arbiter.rs:131), where a &mut to it is made.
MutualExclusion ==
  \A t, u \in Tasks : Owns(t) /\ Owns(u) => t = u

\* The queue holds the linked accesses, each once, and they are pending.
LinksInv ==
  /\ IsInjective(waitq)
  /\ \A t \in Tasks :
       /\ link[t] = "linked" <=> t \in Range(waitq)
       /\ link[t] # "none" => pc[t] = "waiting"

\* taken says whether there is an owner, unless an ownership was lost, and
\* somebody waits only while the value is taken: no waiter is forgotten by a
\* release that saw an empty queue.
TakenInv ==
  /\ \A t \in Tasks : Owns(t) => taken /\ ~lost
  /\ waitq # << >> => taken
  /\ lost => taken

\* The inductive invariant behind MutualExclusion.
ArbiterInv == TypeOK /\ LinksInv /\ TakenInv /\ MutualExclusion

\* A task that was popped from the queue was woken as well.
PoppedIsWoken == \A t \in Tasks : link[t] = "popped" => woken[t]

\* The tasks that began to wait are served in that order: nobody becomes the
\* owner while another one has waited for longer (arbiter.rs:53, "An FIFO
\* waitqueue"; arbiter.rs:139, "If someone is in queue to get it, this will
\* return None").
NoOvertaking ==
  [][\A t \in Tasks : ~Owns(t) /\ Owns(t)' =>
       waitq = << >> \/ t = Head(waitq)]_vars

\* access returns as long as no ownership is lost, whoever cancels.
AccessReturns ==
  []~lost => \A t \in Tasks : pc[t] = "waiting" ~> pc[t] # "waiting"

\* arbiter.rs:78, "Make this future Drop-safe": dropping an access leaves the
\* arbiter usable, so when it is taken somebody owns it.
TakenHasOwner == taken => \E t \in Tasks : Owns(t)
=============================================================================
