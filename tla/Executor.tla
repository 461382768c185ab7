------------------------------ MODULE Executor ------------------------------
(***************************************************************************)
(* The executors of software tasks (src/rtic/src/export/executor.rs) and   *)
(* the code generated around them: spawn and wakers (codegen/module.rs)    *)
(* and the dispatcher, an interrupt handler that polls the executors of    *)
(* one priority in turn (codegen/async_dispatchers.rs).                    *)
(*                                                                         *)
(* Everything runs on one core.  Contexts are the tasks and interrupts     *)
(* that spawn and wake; a context preempts those of lower priority at any  *)
(* point, between any two atomic accesses, and then runs until its call is *)
(* over.  Body is the software task that is being polled, which spawns and *)
(* wakes from within the poll.                                             *)
(*                                                                         *)
(* Polling a future that was not written, or that has completed, is        *)
(* undefined or a panic: the program is over ("crashed").                  *)
(***************************************************************************)
EXTENDS Integers, Sequences

CONSTANTS
  Execs,     \* the executors of the dispatcher
  Order,     \* the order in which the dispatcher polls them
  Contexts,  \* tasks and interrupts outside of the dispatcher
  Body,      \* the software task that is being polled
  Prio,      \* the priorities of the contexts
  Level      \* the priority of the dispatcher

ASSUME OrderAssumption ==
  /\ Order \in Seq(Execs)
  /\ \A e \in Execs : \E i \in DOMAIN Order : Order[i] = e
  /\ \A i, j \in DOMAIN Order : Order[i] = Order[j] => i = j
  /\ Order # << >>
ASSUME PriorityAssumption ==
  /\ Body \notin Contexts
  /\ Level \in Nat
  /\ Prio \in [Contexts -> Nat]

Callers == Contexts \cup {Body}

VARIABLES
  running,  \* AsyncTaskExecutor::running
  pending,  \* AsyncTaskExecutor::pending
  task,     \* AsyncTaskExecutor::task: uninit, live or done
  pended,   \* the interrupt of the dispatcher is pending
  disp,     \* where the dispatcher is: off, or in the poll of an executor
  at,       \* the place in Order of that executor
  pc,       \* where a caller is in its spawn or wake
  target,   \* the executor a caller spawns into or wakes
  notified, \* it was spawned or woken since its last poll began (history)
  stale     \* a spawn overlapped with a notification of the task before (history)

execVars == <<running, pending, task>>
vars == <<execVars, pended, disp, at, pc, target, notified, stale>>

Init ==
  /\ running = [e \in Execs |-> FALSE]
  /\ pending = [e \in Execs |-> FALSE]
  /\ task = [e \in Execs |-> "uninit"]
  /\ pended = FALSE
  /\ disp = "off"
  /\ at = 1
  /\ pc = [c \in Callers |-> "idle"]
  /\ target \in [Callers -> {Order[1]}]
  /\ notified = [e \in Execs |-> FALSE]
  /\ stale = FALSE

-----------------------------------------------------------------------------
\* The preemption rule: whatever else has begun has a lower priority, and an
\* interrupt of a higher priority that is pending is taken first.
OthersBelow(c, p) ==
  \A d \in Contexts \ {c} : pc[d] # "idle" => Prio[d] < p

CanRun(c) ==
  \/ /\ c \in Contexts
     /\ OthersBelow(c, Prio[c])
     /\ Prio[c] > Level \/ (disp = "off" /\ ~pended)
     /\ disp # "crashed"
  \/ /\ c = Body
     /\ disp = "poll"
     /\ task[Order[at]] = "live"
     /\ OthersBelow(Body, Level)

DispatcherCanRun == OthersBelow(Body, Level) /\ pc[Body] = "idle"

Goto(c, label) == pc' = [pc EXCEPT ![c] = label]

-----------------------------------------------------------------------------
(***************************************************************************)
(* spawn                                                                   *)
(***************************************************************************)

\* A bug: running is set without a look at its value.
AllocateAlways(c, e) ==
  /\ pc[c] = "idle"
  /\ CanRun(c)
  /\ running' = [running EXCEPT ![e] = TRUE]
  /\ target' = [target EXCEPT ![c] = e]
  /\ Goto(c, "write")
  /\ stale' = (stale \/ pending[e])
  /\ UNCHANGED <<pending, task, pended, disp, at, notified>>

\* try_allocate succeeds; a spawn that finds running set changes nothing.
Allocate(c, e) ==
  /\ pc[c] = "idle"
  /\ CanRun(c)
  /\ ~running[e]
  /\ running' = [running EXCEPT ![e] = TRUE]
  /\ target' = [target EXCEPT ![c] = e]
  /\ Goto(c, "write")
  /\ stale' = (stale \/ pending[e])
  /\ UNCHANGED <<pending, task, pended, disp, at, notified>>

\* AsyncTaskExecutor::spawn, first half.
WriteTask(c) ==
  /\ pc[c] = "write"
  /\ CanRun(c)
  /\ task' = [task EXCEPT ![target[c]] = "live"]
  /\ Goto(c, "set")
  /\ UNCHANGED <<running, pending, pended, disp, at, target, notified, stale>>

\* set_pending, of a spawn or of a waker.
Notify(e) ==
  /\ pending' = [pending EXCEPT ![e] = TRUE]
  /\ notified' = [notified EXCEPT ![e] = TRUE]
  /\ stale' = (stale \/ \E d \in Callers : pc[d] = "write" /\ target[d] = e)

\* AsyncTaskExecutor::spawn, second half.
SetPending(c) ==
  /\ pc[c] = "set"
  /\ CanRun(c)
  /\ Notify(target[c])
  /\ Goto(c, "pend")
  /\ UNCHANGED <<running, task, pended, disp, at, target>>

PendInterrupt(c) ==
  /\ pc[c] = "pend"
  /\ CanRun(c)
  /\ pended' = TRUE
  /\ Goto(c, "idle")
  /\ UNCHANGED <<execVars, disp, at, target, notified, stale>>

\* A bug: the waker does not pend the dispatcher.
WakeQuietly(c, e) ==
  /\ pc[c] = "idle"
  /\ CanRun(c)
  /\ Notify(e)
  /\ target' = [target EXCEPT ![c] = e]
  /\ UNCHANGED <<running, task, pended, disp, at, pc>>

\* The function of the waker: set_pending, then pend.  The waker of a task
\* can be had at any time and stays valid, so it is used at any time.
Wake(c, e) ==
  /\ pc[c] = "idle"
  /\ CanRun(c)
  /\ Notify(e)
  /\ target' = [target EXCEPT ![c] = e]
  /\ Goto(c, "pend")
  /\ UNCHANGED <<running, task, pended, disp, at>>

-----------------------------------------------------------------------------
(***************************************************************************)
(* The dispatcher                                                          *)
(***************************************************************************)
Enter ==
  /\ disp = "off"
  /\ pended
  /\ DispatcherCanRun
  /\ pended' = FALSE
  /\ disp' = "check"
  /\ at' = 1
  /\ UNCHANGED <<execVars, pc, target, notified, stale>>

\* On to the next executor, or out of the handler.
Advance ==
  \/ at < Len(Order) /\ at' = at + 1 /\ disp' = "check"
  \/ at = Len(Order) /\ at' = at /\ disp' = "off"

\* AsyncTaskExecutor::poll: is_running.
CheckRunning ==
  /\ disp = "check"
  /\ DispatcherCanRun
  /\ \/ running[Order[at]] /\ disp' = "take" /\ at' = at
     \/ ~running[Order[at]] /\ Advance
  /\ UNCHANGED <<execVars, pended, pc, target, notified, stale>>

\* A bug: the task is polled whether it was woken or not.
TakeAlways ==
  /\ disp = "take"
  /\ DispatcherCanRun
  /\ pending' = [pending EXCEPT ![Order[at]] = FALSE]
  /\ notified' = [notified EXCEPT ![Order[at]] = FALSE]
  /\ disp' = "poll" /\ at' = at
  /\ UNCHANGED <<running, task, pended, pc, target, stale>>

\* check_and_clear_pending.
TakePending ==
  /\ disp = "take"
  /\ DispatcherCanRun
  /\ \/ /\ pending[Order[at]]
        /\ disp' = "poll" /\ at' = at
        /\ notified' = [notified EXCEPT ![Order[at]] = FALSE]
     \/ /\ ~pending[Order[at]]
        /\ Advance
        /\ UNCHANGED notified
  /\ pending' = [pending EXCEPT ![Order[at]] = FALSE]
  /\ UNCHANGED <<running, task, pended, pc, target, stale>>

\* A bug: pending is cleared after the poll instead of before it.
PollPendingClears ==
  /\ disp = "poll"
  /\ task[Order[at]] = "live"
  /\ DispatcherCanRun
  /\ pending' = [pending EXCEPT ![Order[at]] = FALSE]
  /\ Advance
  /\ UNCHANGED <<running, task, pended, pc, target, notified, stale>>

PollPending ==
  /\ disp = "poll"
  /\ task[Order[at]] = "live"
  /\ DispatcherCanRun
  /\ Advance
  /\ UNCHANGED <<execVars, pended, pc, target, notified, stale>>

PollReady ==
  /\ disp = "poll"
  /\ task[Order[at]] = "live"
  /\ DispatcherCanRun
  /\ task' = [task EXCEPT ![Order[at]] = "done"]
  /\ disp' = "free"
  /\ UNCHANGED <<running, pending, pended, at, pc, target, notified, stale>>

PollGarbage ==
  /\ disp = "poll"
  /\ task[Order[at]] # "live"
  /\ DispatcherCanRun
  /\ disp' = "crashed"
  /\ UNCHANGED <<execVars, pended, at, pc, target, notified, stale>>

Free ==
  /\ disp = "free"
  /\ DispatcherCanRun
  /\ running' = [running EXCEPT ![Order[at]] = FALSE]
  /\ Advance
  /\ UNCHANGED <<pending, task, pended, pc, target, notified, stale>>

-----------------------------------------------------------------------------
CallerStep(c) == WriteTask(c) \/ SetPending(c) \/ PendInterrupt(c)

Dispatch ==
  \/ Enter \/ CheckRunning \/ TakePending
  \/ PollPending \/ PollReady \/ PollGarbage \/ Free

Next ==
  \/ Dispatch
  \/ \E c \in Callers : \/ CallerStep(c)
                        \/ \E e \in Execs : Allocate(c, e) \/ Wake(c, e)

\* What has begun goes on, and what has a higher priority leaves time for it.
Fairness == SF_vars(Dispatch) /\ \A c \in Callers : SF_vars(CallerStep(c))

Spec == Init /\ [][Next]_vars
FairSpec == Spec /\ Fairness

-----------------------------------------------------------------------------
\* Every variable has the type of the field it stands for.
TypeOK ==
  /\ running \in [Execs -> BOOLEAN]
  /\ pending \in [Execs -> BOOLEAN]
  /\ task \in [Execs -> {"uninit", "live", "done"}]
  /\ pended \in BOOLEAN
  /\ disp \in {"off", "check", "take", "poll", "free", "crashed"}
  /\ at \in DOMAIN Order
  /\ pc \in [Callers -> {"idle", "write", "set", "pend"}]
  /\ target \in [Callers -> Execs]
  /\ notified \in [Execs -> BOOLEAN]
  /\ stale \in BOOLEAN

Polling(e) == disp = "poll" /\ Order[at] = e

\* A spawn never overwrites a future that is alive, and two spawns never
\* write the same executor, in any preemption of one by the other.
NoOverwrite ==
  \A c \in Callers : pc[c] = "write" =>
    /\ running[target[c]]
    /\ task[target[c]] # "live"
    /\ \A d \in Callers \ {c} : pc[d] = "write" => target[d] # target[c]

\* Only a future that was written and has not completed is polled, as long as
\* no notification is left over when the executor is allocated, and none
\* comes before the future is written.
PolledIsLive == \A e \in Execs : Polling(e) /\ ~stale => task[e] = "live"

\* The inductive invariant behind the two: running is set from the allocation
\* until the future has completed, and in between somebody writes the future,
\* or it is alive, or the dispatcher is about to free the executor.
Writing(e) == \E c \in Callers : pc[c] = "write" /\ target[c] = e
Freeing(e) == disp = "free" /\ Order[at] = e
Taking(e) == disp = "take" /\ Order[at] = e

RunningInv ==
  \A e \in Execs :
    /\ task[e] = "live" => running[e]
    /\ running[e] => task[e] = "live" \/ Writing(e) \/ Freeing(e)
    /\ Freeing(e) => running[e] /\ task[e] = "done" /\ ~Writing(e)
    /\ Writing(e) /\ ~stale => ~pending[e]
    /\ Taking(e) => running[e]

\* A task that was notified since its last poll began has its flag set.
NotifiedIsPending == \A e \in Execs : notified[e] => pending[e]

ExecutorInv ==
  TypeOK /\ RunningInv /\ NoOverwrite /\ PolledIsLive /\ NotifiedIsPending

\* A task that was notified is going to be polled: pending says so, and the
\* dispatcher is pended, or on its way to the executor, or the one who
\* notified is about to pend it.
NotifiedIsScheduled ==
  \A i \in DOMAIN Order :
    running[Order[i]] /\ notified[Order[i]] /\ task[Order[i]] = "live" =>
      /\ pending[Order[i]]
      /\ \/ pended
         \/ \E c \in Callers : pc[c] \in {"set", "pend"}
         \/ disp \in {"check", "take", "poll", "free"} /\ at < i
         \/ disp \in {"check", "take"} /\ at = i
         \/ disp = "crashed"

\* A task that is notified is polled again: a wake is never lost, whether it
\* comes before, during or after a poll.
NotifiedIsPolled ==
  []~stale => \A e \in Execs :
    notified[e] /\ task[e] = "live" ~> ~(notified[e] /\ task[e] = "live")

\* executor.rs:63, "task is protected by the running flag".
TaskProtected == \A e \in Execs : Polling(e) => task[e] = "live"
=============================================================================
