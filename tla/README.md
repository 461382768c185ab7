# Verification of RTIC

TLA+ models of RTIC, the real-time interrupt-driven concurrency framework, the
TLC configurations that check them on small instances, and proofs, checked by
TLAPS, that hold for every instance.

RTIC runs tasks on one core. The interrupt controller preempts a task at any
instruction for one of higher priority, so "concurrency" here means: any piece
of code outside a critical section can be interrupted by any number of whole
critical sections of others. That is the grain of the models: one action is one
critical section, one atomic access, or one piece of code between two of them.

## The system

| Part | State | Operations | Used by |
|---|---|---|---|
| channel (`rtic-sync/src/channel.rs`) | `freeq`, `readyq`, `slots`, `wait_queue`, `receiver_waker`, `num_senders`, `receiver_dropped` | split, try_send, send, clone and drop of senders; try_recv, recv and drop of the receiver | tasks |
| wait queue (`rtic-common/src/wait_queue.rs`) | intrusive doubly linked list through pinned futures | push, pop, remove_from_list, wait_until | channel, arbiter, tasks |
| waker registration, dropper (`rtic-common`) | one waker; a closure run on drop | register, wake; drop | channel, signal, watch, arbiter |
| arbiter (`rtic-sync/src/arbiter.rs`) | `taken`, `wait_queue` | access, try_access, release, cancel | tasks, bus devices |
| bus devices (`arbiter/spi.rs`, `arbiter/i2c.rs`) | chip select, delay | transaction, read, write | drivers |
| signal, watch (`rtic-sync/src/signal.rs`, `watch.rs`) | the store, a waker, a seen flag | write, clear; try_read, wait, changed | tasks |
| executor (`rtic/src/export/executor.rs`) | `running`, `pending`, the future | try_allocate, spawn, set_pending, poll | generated code |
| dispatchers, spawn, wakers (`rtic-macros/src/codegen`) | the pend bit of an interrupt | spawn, wake, the handler | the application |
| locks (`rtic/src/export/cortex_*.rs`, `riscv_*.rs`) | BASEPRI, interrupt enables or a threshold | run, lock | shared resources |
| analysis (`rtic-macros/src/syntax/analyze.rs`, `analyze.rs`) | none: a function of the application | ceilings, lock-free and local resources, send types, dispatchers | code generation |
| parser, checks, templates (`rtic-macros`) | none | token streams in and out | the compiler |
| timer queue (`rtic-time/src/timer_queue.rs`, `linked_list.rs`) | sorted intrusive list of wakers, compare register | delay, timeout, cancel, the interrupt | monotonics |
| half period counter (`rtic-time/src/half_period_counter.rs`) | period counter, hardware timer | calculate_now | monotonics |
| monotonics (`rtic-monotonics`) | the chip's registers | the backend interface of the timer queue | timer queue |

How they interact: a task is a future in an executor; waking it sets `pending`
and pends the interrupt of its dispatcher, which polls. The channel, the
arbiter, signal, watch and the timer queue keep wakers and call them. The
channel, the arbiter and the timer queue link pieces of their futures into
shared lists, which is why a future has a dropper that takes it out again.

What is hard, and what makes each part correct:

- **Channel.** An index moves by hand between two queues, a waiting sender and
  an actor, in different critical sections, and the message is copied outside of
  all of them. Right if an index is always in exactly one place, none is lost
  whoever is cancelled, messages leave in order, and nobody sleeps on a message,
  a free slot or the end of the channel.
- **Wait queue.** Raw pointers into futures that may be dropped or moved on.
  Right if the pointers always represent the queue of waiters, lead to live
  links only, and a waiter that is not in the list has been woken.
- **Arbiter.** Ownership is handed to a task that does not run yet. Right if
  there is one owner, in the order of the queue, and access returns.
- **Executor and dispatchers.** `running` and `pending` are two flags that
  spawns and wakers of any priority set at any time around a poll. Right if no
  live future is overwritten, only live futures are polled, and a notified task
  is polled again.
- **Signal and watch.** Value, flag and waker change in separate steps. Right if
  the reader gets the last value and is never asleep beside a new one.
- **Timer queue.** The interrupt, new delays, cancellations and a wrapping clock
  meet in one list and one compare register. Right if a delay never ends early,
  always ends, and the list keeps its order.
- **Half period counter.** Two registers and two interrupts give one clock,
  which is read while it runs. Right if each call is one look at a clock that
  counts every tick.
- **Locks and analysis.** The ceiling is computed by one program and enforced by
  another, with registers that a preempting task writes as well. Right if no two
  tasks are inside the same resource, a task can be delayed by at most one
  critical section of a lower priority, and an interrupt is masked no longer
  than a lock lasts.

## Modules

| Module | What it is |
|---|---|
| `FifoChannel` | what the channel promises: a bounded FIFO with many producers |
| `Channel` | the channel, every operation, with cancellation, clone, drop, split |
| `MCChannel` | senders and symmetry for TLC |
| `QueueLemmas` | facts about the operations on queues, for the proofs |
| `ChannelProofs` | the safety of `Channel` and its refinement of `FifoChannel`, for every N and set of senders |
| `WaitList` | what the wait queue promises: a FIFO from which anyone may leave |
| `WaitQueue` | the intrusive list, by its pointers |
| `WaitUntil` | `WaitQueue::wait_until` on `WaitQueue` (extends it), and its notifier |
| `MCWaitUntil` | three waiters with different closures |
| `WaitUntilProofs` | the pointers are a FIFO and nobody is forgotten, for every set of waiters |
| `Arbiter` | the arbiter; its queue is the sequence `WaitList` describes |
| `ArbiterProofs` | mutual exclusion and order, for every set of tasks |
| `Executor` | executors of one priority, the dispatcher, spawns and wakers |
| `MCExecutor` | two executors, three contexts and their priorities |
| `ExecutorProofs` | futures are kept, polls are of live futures, and notifications are not forgotten |
| `TimerQueue` | delays, timeouts, the timer interrupt and a wrapping clock |
| `Signal` | the store, its writers and the reader of a signal |
| `Watch` | the reader of a watch on the same store (extends `Signal`) |
| `WatchProofs` | the safety of both readers, for any number of writers and writes |
| `Analysis` | which applications are accepted, ownership, ceilings, Sync types |
| `Locks` | the locks at run time, with the ceilings of `Analysis` (extends it) |
| `MCLocks` | the priorities and uses of four tasks and four resources |
| `LocksProofs` | ceilings, exclusion, masks and single blocking, for every application and backend |
| `Clock` | what a monotonic promises: a count of all ticks |
| `HalfPeriod` | the timer, the interrupt handler and `calculate_now` |
| `TimeProofs` | `HalfPeriod` implements `Clock`, and no delay ends early or is forgotten by the timer |

### Channel

The variables are the fields of `Channel`, plus `pc` (where each handle is in
its call), `slot` (the index it holds: `free_slot_ptr`, `idx`, `rs`), `link`
(none, linked, popped), `woken` (its task is to be polled) and the history
`received`. A message is `<<sender, number of the call>>`. `TrySend`,
`TrySendClosed` and `TrySendPop` are the three critical sections of `try_send`;
`PollSend` is the one of the poll of `send`; `CancelSend`, `DropLink` and
`GiveBack` are its dropper; `WriteSlot`, `PushReady` and `WakeReceiver` are
`send_footer`. `PollRecv` registers the waker and goes on like `TryRecv`:
`PopReady`, `CopyOut`, `ReturnSlot`, or `CheckClosed`. `DropReceiver`, `Drain`,
`DropValue`, `PopWaiter` and `WakeWaiter` are `Receiver::drop`. The memcpy is
going on for as long as `pc` is "write" or "copy".

`DebugAssertions` is the profile of the build. `Split` begins with a
`debug_assert` that `readyq` is empty: with debug assertions the program stops
when it is not, and without them `Split` goes on, so that an index left in
`readyq` is in `freeq` as well (`leftover` records this). The runs and the proofs
are about both: the `.cfg` files have the release build, whose behaviours include
those of the debug build, and the proofs leave the constant open. An unchecked
push is `PushUnchecked`, which says what heapless does to a full deque too.

In `FifoChannel` a message is admitted while the channel is open and put into it
later; a channel that is closed, because its receiver was dropped or because
`split` did not open it again, admits nothing, and only the receiver takes from
it. In `Channel` the look at `receiver_dropped` admits, `PushReady` puts.

### WaitQueue and WaitUntil

`head`, `tail`, `next`, `prev` and `is_popped` are the fields; `live` says that
the `Link` exists. Each operation is one critical section. `RemoveFromList` has
the four cases of the code. `WaitUntil` adds the future: `StartPoll` runs the
guard of the poll before, `Check` the closure, `PushLink` links it, `Drop` drops
the future. `Update`, `PopWaker` and `Wake` are the incrementer of the example
`wait-queue`: the counter changes, then each waiter is popped, in a critical
section, and woken after it; `waking` is the waker in between, while the waiter
may be polled, leave, or come back.

### Arbiter

`waitq`, `taken`, the link of each access and `pc` (idle, waiting, holding).
`Poll`, `Cancel`, `TryAccess` and `Release` are critical sections. A task that
was popped owns the value although it does not hold the token yet.

### Executor

`running`, `pending` and `task` are the fields of `AsyncTaskExecutor`; `pended`
is the interrupt of the dispatcher; `disp` and `at` say where the dispatcher is.
A context is a task or interrupt outside of the dispatcher that spawns
(`Allocate`, `WriteTask`, `SetPending`, `PendInterrupt`) or wakes (`Wake`,
`PendInterrupt`); `Body` is the task in the poll, which does the same.
`CanRun` is the interrupt controller: a context moves when nothing of the same
or a higher priority is in the middle of a call, and one below the dispatcher
only while the dispatcher is neither running nor pended. Wakers are used at any
time, because `task::waker()` hands one out at any time and it stays valid.

### TimerQueue

`list`, `instant`, `link`, `irq`, `compare` and the locals of the handler follow
the code; `now` counts modulo `Modulus`. `Insert`, `PopHead` and `Delete` are
the critical sections of `linked_list.rs`; the list is a sequence, because a
link is inserted once only. `Delay` and `DelayUntil` make the future,
`PollDelay`, `Insert` and `PendInterrupt` are its poll, `Drop` and `Delete` its
end; a `Timeout` whose own future is ready first is a `Drop`. `Interrupt`,
`PopIf`, `WakeTask`, `Arm`, `Recheck` and `Disable` are the interrupt handler,
with everything able to happen between any two of them, a `Tick` of the clock
included. `left` is the time to the end of a delay as an unwrapped number: the
properties compare with it, never with the instants.

### Signal and Watch

`kind` says which of the two was split. A write is `Write` (or `Clear`),
`ResetSeen` and `Wake`, as `write_inner` has them; a poll is `Register` and then
`Take`, or `CheckSeen`, `GetInner` and `MarkSeen`. Each is a critical section or
an atomic access and the others run in between. `Wait` is also `wait_fresh`,
which empties the store before it waits. A value is the number of its write;
`floor` is the youngest number that may not come back, `raced` that a writer
reset the flag of a younger value while the watch reader had an older one in
hand.

### Analysis and Locks

`app` is the application: priorities and uses. `CheckLockFree` is the check that
rejects applications, `ProcessAccess` one round of the loop over
`shared_resource_accesses`, in the order of that list, and `Accept` its end:
then the program runs. `Locks` goes on from there. `Start` and `Finish` are the
entry and the exit of a task with `run` around it, `ReadRegisters`, `EnterLock`
and `ExitLock` the three parts of `lock`, and between any two of them a task of
higher priority may start when the registers let it.

`level` stands for BASEPRI, whose values run the other way in hardware, and for
the threshold of the ESP32; `enabled` for the enable bits of one register of the
NVIC. The software tasks of one priority share the bit of their dispatcher,
which changes nothing here, since they are masked together. Async tasks of
priority 0 run in `main` after idle has given up and are not separate from it.
The priorities on an ESP32 stay below `Top`, so its branch for the critical
section is never taken. A write to a threshold or an enable register is one
step.

### HalfPeriod

`half` and `offset` are the real time, and the count register is derived from
them. `TimerTick` sets the flags of the two interrupts. `TestOverflow`,
`CountOverflow`, `TestHalf` and `CountHalf` are `on_interrupt` of the STM32
backend, which has the two assertions; `ReadPeriods` and `ReadTimer` are
`calculate_now` in its critical section, with the timer running on between them.
`CountedInTime` is the requirement on the application that the source states
(`half_period_counter.rs:38`): a flag is counted before the next one comes. When
the counter itself starts again, and the interrupt for that is still to come,
the upper part of the sum is one range too high: `result` is taken modulo the
range, as unsigned results are.

## Runs

| Run | Instance | What it shows |
|---|---|---|
| `channel_order` | 2 senders, N = 2, 2 calls each, 2 splits, release build | the memcpys never meet, an index is in one place (a free one unless `leftover`) and not lost while the first receiver exists, the inductive invariant `FifoInv` holds, and the channel is a FIFO that admits nothing when it is closed (`FifoChannel`) |
| `channel_wait` | 3 senders, N = 1, 1 call each | no free slot beside a waiter, no lost wakeup, send and recv return |
| `wait_until` | 3 waiters, thresholds 1, 2, 2 | the pointers represent the queue (`WaitInv`), which is a FIFO (`WaitList`), no pointer dangles, who is not in the queue was woken or is about to be, wait_until returns |
| `arbiter` | 4 tasks | one owner, first come first served, access returns |
| `arbiter_cancel` (violation) | 3 tasks | a cancelled access takes the ownership with it |
| `executor` | 2 executors, contexts at 1, 2 and 4, dispatcher at 3 | no future overwritten, only live futures polled, every notified task polled again |
| `timer_queue` | 2 tasks, 3-bit clock, delays up to 1 tick, 1 tick late | the list is sorted by real time, no link outlives its delay, the compare register awaits the head, no delay ends early |
| `timer_wait` | 2 tasks, clock of 6 values, never late | every delay ends |
| `signal_watch` | 2 writers, 4 writes | no value of a signal is left to be returned twice or after `wait_fresh`, no sleep beside a value, what is marked as seen was returned, a waiting reader gets its value |
| `locks` | idle, 2 hardware tasks and a software task; 4 resources; 5 orders of priority; 3 backends | ceilings, exclusion with and without locks, masks end with locks, single blocking |
| `locks_esp32` (violation) | the same | an inner lock lowers the threshold of the outer one |
| `half_period` | half periods of 4 ticks, a counter of 4 values | both assertions hold, and `calculate_now` is a clock (`Clock`) |

Bounds. N = 1 makes every queue full and empty within a few steps, N = 2 with
two senders is the smallest channel in which indexes and messages can be
swapped; three senders on one slot give a waiter that is popped, one behind it,
and one that comes along. The second split shows what it leaves as it was:
`receiver_dropped`, so that its senders send nothing, and a message in `readyq`,
which its receiver gets; a third one would begin like it. `SlotNotLost` is about
the first receiver only. Three links
are needed for each case of `remove_from_list` (first, last, inside, alone), and
four tasks for an arbiter with an owner, two in the queue and one that tries to
overtake. Two executors make the dispatcher go on to another; contexts below, in
between and above give each order of preemption. A clock of a few values wraps within one
delay, and a delay of one tick (two, with the tick that has begun) is longer
than the handler's steps. The clock compares right only for instants less than
half its range apart, so `ClockAssumption` relates the longest delay and
`MaxLate` to it, and `InTime` keeps the clock from running away from tasks and
handler that are held up: in the code this is a deadline of 2^31 ticks or more.
`timer_wait` has smaller bounds than `timer_queue` because liveness is dear.
In `signal_watch`, two writers are a write that overtakes another between its
steps, and four writes let a value come, be read, and be overtaken twice. In
`locks` the uses are all subsets of two locked resources for each task, and all
subsets of one that is read only and one that is lock-free; the priorities rise,
fall, mix, repeat and reach the highest one, whose resources are locked by a
critical section. Two resources are nested locks in either order. In
`half_period` the counter of 4 values wraps twice within its 11 half periods.
`MaxSends`, `MaxSplits`, `MaxCount`, `MaxWrites` and `MaxHalves` bound counters that have no bound in the code. Deadlock is not
checked where the tasks may all be done.

Symmetry is used in `channel_order` only, where all properties are invariants or
a refinement that treats senders alike; runs with liveness use none.

Fairness. A woken task is polled again (the executor's promise, which `executor`
checks as `NotifiedIsPolled`), and a call that was begun is carried on. The
receiver calls `recv` in a loop, as the book has it. The notifier of `WaitUntil`
comes back for as long as `KeepsNotifying` says. Whoever has an arbiter's token
releases it. Nobody has to send, spawn, cancel or drop. In `TimerQueue` time
passes again and again (strong, since a deadline may hold the clock for a
moment). In `Watch` a woken reader is polled and the steps of a call that was begun
follow; nobody has to write or to read. `Locks` and `HalfPeriod` state safety
only. In `Executor` fairness
is strong: a context of low priority is preempted again and again, and the
assumption is that the tasks are schedulable, so that each gets its time.

`AccessReturns` assumes that no popped access is cancelled, `PolledIsLive` and
`NotifiedIsPolled` that no notification meets a spawn before the future is
written (`stale`), `SeenWasReturned` and `ReadReturns` that no write has raced
with a watch reader (`raced`), `NoConflict` and `SingleBlocking` that no nested
lock has lowered a threshold (`Lowered`, never with BASEPRI or interrupt masks),
and the half of `SlotExclusive` about free slots that no split has met a message
(`leftover`, never with debug assertions).
What happens otherwise is under "What the checks found".

## Proofs

Every safety property, action property and refinement that a passing run checks
is also a theorem: TLC shows it on the instance of the run, the proof for every
value of the constants that satisfies the named assumptions. Each proof is of an
inductive invariant, which TLC checked on the run's instance before it was
proved; the runs of the channel, the wait queue, the arbiter and the executor
still check it (`FifoInv`, `WaitInv`, `ArbiterInv`, `ExecutorInv`).

The assumptions are that the sentinels `None`, `Null`, `RX`, `Idle` and `Body`
are none of the values they stand beside, that the bounds are natural numbers,
and: `N` is 1 to 255 (the index type of the channel is `u8`); there are finitely
many senders and links (handles and futures are objects in memory); `Order` lists
each executor once; the tasks of an application have places in its lists,
priorities from 0 (idle) to `Top`, and resources they use; the modulus of the
clock is even and delays and lateness stay below half of it; a half period is
more than a tick and the size of the counter is even.

- `ChannelProofs` goes in three layers, for both profiles. `SlotInv` says that an
  index is in one place; that needs to know what each actor holds at each step of its calls
  (`HandsInv`), that a link is in `wait_queue` exactly while it is linked and its
  sender has no slot (`LinksInv`), and that nobody waits beside a free slot. After a split that
  met a message (`leftover`) the free slots are not exclusive, but no sender comes
  past `receiver_dropped` (`LeftoverShut`), so the memcpys still are.
  `SlotExclusive`, `SlotNotLost` and `NoFreeSlotWhileWaiting` follow, and that no
  unchecked push meets a full deque, in a release build unless `leftover`
  (`PushesFit`: a queue that does not hold all the indexes has room). `ChannelInv`
  adds the wakes: `num_senders` is the number of handles (`SendersCounted`), a
  popped sender has its slot or the receiver is gone, and a parked receiver has
  its waker registered, or is woken, or somebody who published or dropped is
  about to wake it (`RecvInv`). `PoppedWaiterIsServed` and `NoLostReceiverWakeup`
  follow. `FifoInv` adds the messages (`ContentInv`): none in the channel or
  received is newer than the last call of its sender or still in its hand, and an
  index is published after its memcpy. That is what `ChannelIsFifo` needs: only
  `PushReady`, `PopReady` and `Drain` move messages, every memcpy writes a slot
  that by `SlotExclusive` nobody else can see, the message a push adds is newer
  than all of its sender, and messages are admitted by the two looks at
  `receiver_dropped` only (`AdmittedStep`); a leftover message is in the queue
  before and after the split (`SplitReopens`). All other steps are invisible to
  `FifoChannel`.
- `WaitUntilProofs`: `QueueInv` of the list alone (`QueueInvariance`), and
  `WaitInv` of the futures with it. The places of the queue tell what each pointer
  is (`Places`); an operation moves the places as `QueueLemmas` says, and the
  proof compares them with the few pointers it writes. The four cases of
  `remove_from_list` come down to one: a neighbour that is missing is replaced by
  `head` or `tail` (`UnlinkPointers`). What an operation leaves alone is said once,
  for all other links (`Apart`). With `GuardInv`, that a popped link points nowhere,
  that a link lives only while its future is pending, and that a pending future
  outside of the queue was woken or has its waker in the hands of the notifier,
  `LinkWithinFuture` follows.
  `WalkMeets` shows that a walk along pointers that represent a queue meets that
  queue (the walk is a recursive function, and two solutions of its equation
  cannot differ at a least place), hence `UnreachableIsWoken` and the refinement of
  `WaitList`: for any use of the list (`ListIsWaitList`), and so for the one of
  `wait_until` (`WaitersAreFifo`).
- `ArbiterProofs`: `ArbiterInv`, for every set of tasks. `taken` says whether
  somebody owns the value or the ownership was lost, and the owners are the
  holders and the popped. `MutualExclusion`, `PoppedIsWoken` and `NoOvertaking`
  follow, the last one as an action property.
- `ExecutorProofs`: `ExecutorInv`, without use of the rule of preemption: it holds
  in every interleaving. `running` is set from the allocation until the future is
  done, and in between somebody writes the future, or it is alive, or the
  dispatcher frees it; `pending` is not set while it is written unless `stale`.
  `NotifiedIsScheduled` follows the dispatcher along its list of executors: one
  that is due is still to come, or the interrupt is pended, or whoever notified is
  about to pend it; what the dispatcher moves past was not due.
- `WatchProofs`: `WatchInv`, for any writers and any `MaxWrites`. That a sleeping
  reader has its waker registered, or is woken, needs what a poll in progress has
  already registered and seen (`PollInv`); that only a returned value is marked
  needs that the value in the reader's hand is the store's, or a writer is about
  to reset the flag (`HandInv`).
- `LocksProofs`, for every application and all three backends. `OwnershipInv`:
  `Own` keeps the maximum of two priorities (`OwnIsMaximum`), and an access that
  the loop has come to is under the ceiling. `LockFreeExclusive`: the check of
  lock-free resources compares each user with the one before it in the list only,
  but of two users with different priorities that are closest to each other one is
  the previous one of the other (`LockFreeUsers`, by a least distance). Then
  `BaseInv` (which tasks have begun, and whose frames there are) and `MaskInv`: the
  registers fit the locks that are held, that is they mask what those want masked
  and nothing else, and what a lock or `run` has saved fits the locks that were
  held at that time, those of preempted tasks included; only a threshold that a
  nested lock has lowered may mask less. So what is written back fits the locks
  that are left (`RestoreFits`), which gives `MaskIsHeld`. A task that starts is
  not masked, hence above every ceiling held, and because ceilings are maxima it
  uses none of those resources: `NoConflict`. `SingleBlocking` follows likewise.
- `TimeProofs`, first part: `HalfPeriodInv`, for every width. The counter is the
  number of half periods, or one less while a flag is set or being counted, and its
  parity tells which; from this `ReadIsTime` shows that the sum of the two reads is
  the time at the second one. The lemmas on `%` (`ModUnique`, `ModSuccessor`,
  `ModParity`) carry this through the wrap of counter and timer.
  `CalculateNowIsClock` is the refinement of `Clock`: every step is a tick, a look
  at the clock, or a stutter.
- `TimeProofs`, second part: `DelayInv`, which is `TimerInv` with `PopInv` and
  `AwaitInv`. An instant is the time of its delay modulo `Modulus`, and all times
  are within half of it, so that a comparison of instants is one of the times that
  are left (`LessIsEarlier`, `AtLeastIsOver`); hence the list is sorted by real
  time although its elements were compared at different times. `PopInv`: a popped
  link is due, and its waker is in the hand of the handler or was used.
  `AwaitInv`: a head of the list is announced by a pended interrupt or a task about
  to pend it, or known to the handler, which compares again after it has written
  the register, or the compare register is ahead of the clock and not after it.
  `HeadIsAwaited`, `PoppedIsWoken` and `NeverEarly` follow.

Only model-checked: liveness (`SendReturns`, `RecvReturns`, `WaitUntilReturns`,
`AccessReturns`, `NotifiedIsPolled`, `DelayReturns`, `ReadReturns`), which is out of
the prover's reach, as is ENABLED; and the two disagreements below, which are
counterexamples.

## What the checks found

Two disagreements have runs of their own:

- `arbiter_cancel`: dropping an access that was handed the value neither passes
  it on nor resets `taken`; every later access waits forever.
- `locks_esp32`: on ESP32-C3 and C6 `lock` writes the threshold of its ceiling
  whatever it is (`riscv_esp32c3.rs:69`), while the comment on it says that the
  ceiling is raised (`:42`). A lock inside one of a higher ceiling opens the
  outer one to tasks that use the outer resource.

Six more are shown by a change to the `.cfg` of a passing run, with the property
named here as the only one:

- `channel_wait.cfg`, PROPERTY `NoSenderOnlyWhenEmpty`: `try_recv` reads
  `num_senders` in a later critical section than `readyq`, so the last sender can
  send and drop in between, and `NoSender` is answered while a message is left
  (the book, `channel.md:82`).
- `channel_order.cfg`, INVARIANT `QueueClearedByReceiverDrop`: `send_footer`
  publishes without a look at `receiver_dropped`, so a message can outlive the
  receiver and all senders, and the assertion in `split` (`channel.rs:116`) can
  fail, which stops a program that has debug assertions.
- `channel_order.cfg`, INVARIANT `PushesHaveRoom`: without debug assertions `split`
  goes on, its receiver gets the old message and returns a slot that `freeq` has
  already, by a push without a check into a full deque, although "`freeq` is not
  full" (`channel.rs:170`). With `DebugAssertions = TRUE` the invariant holds.
- `channel_order.cfg`, INVARIANT `ClosedOnlyWithoutReceiver`: `split` does not reset
  `receiver_dropped`, so after the second one `Sender::is_closed` is true while
  there is a receiver, against its comment (`channel.rs:506`), and nothing can be
  sent. This is also all that keeps the duplicated index above from being handed
  to two senders.
- `wait_until.cfg` with `KeepsNotifying = FALSE`, PROPERTY `WaitUntilReturns`: the
  closure and the push are in separate critical sections and the closure is not
  called again, so the future can sleep although the closure would return `Some`
  (`wait_queue.rs:229`).
- `executor.cfg`, INVARIANT `TaskProtected`: `running` is set before the future is
  written, and a waker that is called then, or was called after the last task had
  been polled for the last time, leaves `pending` set: the dispatcher polls a slot
  without a future (`executor.rs:63`).

Two were met while modelling:

- A value that is written, and its flag reset, between `get_inner` and
  `mark_seen` of a watch reader is marked as seen without having been returned;
  `changed` then waits beside an unseen value, although it is "returned
  immediately" (`watch.rs:131`). The variable `raced` records it, and
  `SeenWasReturned` without it is violated.
- The comment in `analyze.rs:268` says that most local resources need Send, but
  the loop below looks them up in `ownerships`, which has shared resources only,
  and so finds none. Send types are not modelled.

## Not modelled

- **Bus devices.** A transaction is one access of the arbiter and then calls of
  the embedded-hal traits in one task; the state is the bus's own.
- **Parser, checks and templates of the macros.** Functions from token streams to
  token streams. Of the analysis, the checks of local resources and of priority
  0, Send types and the assignment of dispatchers to priorities are left out: they
  are set computations without steps.
- **Dispatchers.** The one of priority 0 is a loop in idle that nobody pends;
  several dispatchers at once are not composed.
- **Locks.** The lock of the SLIC backend is in another crate. Exceptions of
  Cortex-M without BASEPRI cannot be masked (`cortex_source_mask.rs:115` says so)
  and are not modelled, nor are several mask registers that are written one after
  the other, and the order reversal of `cortex_logical2hw`.
- **Monotonics.** `set_compare` and the registers of the chips; the timer queue has
  an abstract compare register. The handler for i.MX RT reads both flags at once
  and counts before it clears; `HalfPeriod` has the order of the others.
- **Small paths.** Dropping the message values, the panics of a second split, of
  `delay_until` before `initialize`, and of `split` on a capacity that does not
  fit its index type; `will_wake`; the wrappers for loom tests.
- **Everything around the program.** Build tooling, examples, the book. The
  JavaScript under `book/` was written by mdBook and its mermaid plugin for the
  rendered pages (search box, table of contents, highlighting) and is no part of
  RTIC; RTIC is written in Rust, and the models are of the Rust sources.

What could be proved next: the safety half of the liveness properties, step by
step (that a woken sender's next poll returns, that a due delay is the next one
popped); that the queue of `Arbiter` implements `WaitList`; and that the sequence
of `Channel`'s `wait_queue` does.
