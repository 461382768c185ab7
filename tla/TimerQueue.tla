----------------------------- MODULE TimerQueue -----------------------------
(***************************************************************************)
(* The timer queue of rtic-time (src/rtic-time/src/timer_queue.rs) with    *)
(* its sorted list (linked_list.rs): delays and timeouts of tasks, the     *)
(* interrupt of the timer, and a clock that wraps around.                  *)
(*                                                                         *)
(* Every method of the list is one critical section.  Between them tasks   *)
(* and the interrupt preempt one another, and time passes.  A link belongs *)
(* to one Delay and is in the list at most once, so the list is a sequence *)
(* of tasks; a task awaits one delay or timeout at a time.                 *)
(*                                                                         *)
(* The clock counts modulo Modulus, and two instants compare right only if   *)
(* they are less than half of it apart.  That is up to the application:    *)
(* delays are short enough, and tasks and the interrupt handler are not    *)
(* held up for longer than MaxLate when an instant has come (InTime).      *)
(***************************************************************************)
EXTENDS Integers, SequencesExt

CONSTANTS
  Tasks,     \* the tasks that await delays
  Modulus,   \* the number of values of Ticks, 2^32 or 2^64
  MaxDelay,  \* bound: the longest duration of a delay
  MaxLate,   \* bound: the time after which a delay that is over was polled
  None       \* no task

ASSUME ClockAssumption ==
  /\ Modulus \in Nat /\ Modulus % 2 = 0
  /\ MaxDelay \in Nat /\ MaxLate \in Nat
  /\ MaxDelay + 1 + MaxLate < Modulus \div 2
ASSUME NoneAssumption == None \notin Tasks \cup Int

Ticks == 0..Modulus-1

VARIABLES
  now,      \* Backend::now
  list,     \* the tasks whose links are in the queue, in its order
  instant,  \* Delay::instant
  link,     \* Delay::link_ptr with was_popped: none, queued or popped
  pc,       \* where a task is with its Delay
  woken,    \* the task is to be polled
  left,     \* the time until the delay may end, negative when late (history)
  irq,      \* the interrupt of the timer is pending
  compare,  \* the compare register, None when disabled or past
  handler,  \* where on_monotonic_interrupt is
  release,  \* its release_at
  waking    \* the task whose link it popped

delayVars == <<list, instant, link, pc, woken, left>>
timerVars == <<irq, compare>>
handlerVars == <<handler, release, waking>>
vars == <<now, delayVars, timerVars, handlerVars>>

Init ==
  /\ now \in Ticks
  /\ list = << >>
  /\ instant = [t \in Tasks |-> 0]
  /\ link = [t \in Tasks |-> "none"]
  /\ pc = [t \in Tasks |-> "idle"]
  /\ woken = [t \in Tasks |-> FALSE]
  /\ left = [t \in Tasks |-> 0]
  /\ irq = FALSE
  /\ compare = None
  /\ handler = "off"
  /\ release = 0
  /\ waking = None

-----------------------------------------------------------------------------
(***************************************************************************)
(* TimerQueueTicks                                                         *)
(***************************************************************************)

\* The difference, wrapped and taken as a signed number, is negative.
Less(a, b) == (a - b) % Modulus >= Modulus \div 2
IsAtLeast(a, b) == ~Less(a, b)
WrappingAdd(a, b) == (a + b) % Modulus

Goto(t, label) == pc' = [pc EXCEPT ![t] = label]

\* The Delay is gone, and the task has no more use for a wake.
Gone(t) ==
  /\ Goto(t, "idle")
  /\ woken' = [woken EXCEPT ![t] = FALSE]
  /\ link' = [link EXCEPT ![t] = "none"]
  /\ instant' = [instant EXCEPT ![t] = 0]
  /\ left' = [left EXCEPT ![t] = 0]

-----------------------------------------------------------------------------
(***************************************************************************)
(* Delays                                                                  *)
(***************************************************************************)

\* The future is made; the task polls it for the first time.
Start(t, i, time) ==
  /\ pc[t] = "idle"
  /\ instant' = [instant EXCEPT ![t] = i]
  /\ left' = [left EXCEPT ![t] = time]
  /\ woken' = [woken EXCEPT ![t] = TRUE]
  /\ Goto(t, "waiting")
  /\ UNCHANGED <<now, list, link, timerVars, handlerVars>>

\* A bug: the tick that has begun counts as a whole one.
DelayExactly(t, d) ==
  Start(t, WrappingAdd(now, d), IF d = 0 THEN 0 ELSE d + 1)

\* delay and timeout_after.  The tick that has begun is not counted: the
\* delay ends when d further ones have passed.
Delay(t, d) ==
  LET timeout == WrappingAdd(now, d)
  IN Start(t, IF now = timeout THEN timeout ELSE WrappingAdd(timeout, 1),
              IF d = 0 THEN 0 ELSE d + 1)

\* delay_until and timeout_at, d ticks from now, which may be in the past.
DelayUntil(t, d) == Start(t, WrappingAdd(now, d), d)

\* The look at the clock that begins a poll; a second poll leaves its link.
PollDelay(t) ==
  /\ pc[t] = "waiting"
  /\ woken' = [woken EXCEPT ![t] = FALSE]
  /\ \/ IsAtLeast(now, instant[t]) /\ Goto(t, "ready")
     \/ ~IsAtLeast(now, instant[t]) /\ link[t] = "none" /\ Goto(t, "insert")
     \/ ~IsAtLeast(now, instant[t]) /\ link[t] # "none" /\ UNCHANGED pc
  /\ UNCHANGED <<now, list, instant, link, left, timerVars, handlerVars>>

\* The place of t in the list: before the first one that it is less than.
IsPlace(t, i) ==
  /\ \A j \in 1..i-1 : ~Less(instant[t], instant[list[j]])
  /\ i <= Len(list) => Less(instant[t], instant[list[i]])

\* A bug: instants are compared as numbers.
InsertByNumber(t) ==
  /\ pc[t] = "insert"
  /\ \E i \in 1..Len(list)+1 :
       /\ \A j \in 1..i-1 : instant[t] >= instant[list[j]]
       /\ i <= Len(list) => instant[t] < instant[list[i]]
       /\ list' = InsertAt(list, i, t)
       /\ Goto(t, IF i = 1 THEN "pend" ELSE "waiting")
  /\ link' = [link EXCEPT ![t] = "queued"]
  /\ UNCHANGED <<now, instant, woken, left, timerVars, handlerVars>>

\* A bug: a link before a late one does not count as a new head.
InsertQuietly(t) ==
  /\ pc[t] = "insert"
  /\ \E i \in 1..Len(list)+1 :
       /\ IsPlace(t, i)
       /\ list' = InsertAt(list, i, t)
       /\ Goto(t, IF list = << >> THEN "pend" ELSE "waiting")
  /\ link' = [link EXCEPT ![t] = "queued"]
  /\ UNCHANGED <<now, instant, woken, left, timerVars, handlerVars>>

Insert(t) ==
  /\ pc[t] = "insert"
  /\ \E i \in 1..Len(list)+1 :
       /\ IsPlace(t, i)
       /\ list' = InsertAt(list, i, t)
       /\ Goto(t, IF i = 1 THEN "pend" ELSE "waiting")
  /\ link' = [link EXCEPT ![t] = "queued"]
  /\ UNCHANGED <<now, instant, woken, left, timerVars, handlerVars>>

PendInterrupt(t) ==
  /\ pc[t] = "pend"
  /\ irq' = TRUE
  /\ Goto(t, "waiting")
  /\ UNCHANGED <<now, list, instant, link, woken, left, compare, handlerVars>>

\* Delay::drop, first half: after Ready, or because the future is dropped, as
\* a Timeout does when its own future is ready first.
Drop(t) ==
  /\ pc[t] \in {"waiting", "ready"}
  /\ IF link[t] # "queued"
     THEN Gone(t)
     ELSE Goto(t, "delete") /\ UNCHANGED <<instant, link, woken, left>>
  /\ UNCHANGED <<now, list, timerVars, handlerVars>>

\* LinkedList::delete, which finds nothing if the link was popped meanwhile.
Delete(t) ==
  /\ pc[t] = "delete"
  /\ \/ \E i \in DOMAIN list : list[i] = t /\ list' = RemoveAt(list, i)
     \/ t \notin ToSet(list) /\ UNCHANGED list
  /\ Gone(t)
  /\ UNCHANGED <<now, timerVars, handlerVars>>

-----------------------------------------------------------------------------
(***************************************************************************)
(* on_monotonic_interrupt                                                  *)
(***************************************************************************)
Interrupt ==
  /\ handler = "off"
  /\ irq
  /\ irq' = FALSE
  /\ handler' = "pop"
  /\ UNCHANGED <<now, delayVars, compare, release, waking>>

\* LinkedList::pop_if: the head leaves the list if its time has come.
PopHead ==
  /\ IsAtLeast(now, instant[Head(list)])
  /\ list' = Tail(list)
  /\ link' = [link EXCEPT ![Head(list)] = "popped"]

PopIf ==
  /\ handler = "pop"
  /\ \/ /\ list = << >>
        /\ handler' = "disable"
        /\ UNCHANGED <<list, link, release, waking>>
     \/ /\ list # << >>
        /\ PopHead
        /\ waking' = Head(list)
        /\ handler' = "wake"
        /\ UNCHANGED release
     \/ /\ list # << >>
        /\ ~IsAtLeast(now, instant[Head(list)])
        /\ release' = instant[Head(list)]
        /\ handler' = "arm"
        /\ UNCHANGED <<list, link, waking>>
  /\ UNCHANGED <<now, instant, pc, woken, left, timerVars>>

\* A bug: the waker is popped and dropped, not woken.
WakeNobody ==
  /\ handler = "wake"
  /\ waking' = None
  /\ handler' = "pop"
  /\ UNCHANGED <<now, delayVars, timerVars, release>>

\* The wake may come after the delay was dropped, and does no harm then.
WakeTask ==
  /\ handler = "wake"
  /\ woken' = [woken EXCEPT ![waking] = pc[waking] # "idle"]
  /\ waking' = None
  /\ handler' = "pop"
  /\ UNCHANGED <<now, list, instant, link, pc, left, timerVars, release>>

\* enable_timer and set_compare.
Arm ==
  /\ handler = "arm"
  /\ compare' = release
  /\ handler' = "recheck"
  /\ UNCHANGED <<now, delayVars, irq, release, waking>>

\* A bug: the clock is not looked at again.
RecheckNever ==
  /\ handler = "recheck"
  /\ handler' = "off"
  /\ release' = 0
  /\ UNCHANGED <<now, delayVars, timerVars, waking>>

Recheck ==
  /\ handler = "recheck"
  /\ handler' = IF IsAtLeast(now, release) THEN "pop" ELSE "off"
  /\ release' = 0
  /\ UNCHANGED <<now, delayVars, timerVars, waking>>

Disable ==
  /\ handler = "disable"
  /\ compare' = None
  /\ handler' = "off"
  /\ UNCHANGED <<now, delayVars, irq, release, waking>>

-----------------------------------------------------------------------------
(***************************************************************************)
(* The timer: it raises its interrupt when the clock comes to the value of *)
(* the compare register, and perhaps at other times (the tick of SysTick,  *)
(* the periods of a half period counter, the same value one round later).  *)
(***************************************************************************)
InTime ==
  /\ \A t \in Tasks : pc[t] # "idle" => left[t] > -MaxLate
  /\ handler \in {"arm", "recheck"} => now # WrappingAdd(release, MaxLate)

Tick ==
  /\ InTime
  /\ now' = WrappingAdd(now, 1)
  /\ left' = [t \in Tasks |-> IF pc[t] = "idle" THEN 0 ELSE left[t] - 1]
  /\ irq' \in {irq \/ compare = now', TRUE}
  /\ compare' = IF compare = now' THEN None ELSE compare
  /\ UNCHANGED <<list, instant, link, pc, woken, handlerVars>>

TaskNext(t) ==
  \/ \E d \in 0..MaxDelay : Delay(t, d)
  \/ \E d \in -MaxLate..MaxDelay : DelayUntil(t, d)
  \/ PollDelay(t) \/ Insert(t) \/ PendInterrupt(t) \/ Drop(t) \/ Delete(t)

Handler ==
  Interrupt \/ PopIf \/ WakeTask \/ Arm \/ Recheck \/ Disable

Next == Tick \/ Handler \/ \E t \in Tasks : TaskNext(t)

\* A woken task is polled and carries on with what it began, and so does the
\* handler; time passes.  Nobody has to start or to cancel a delay.
Progress(t) ==
  \/ woken[t] /\ PollDelay(t)
  \/ Insert(t) \/ PendInterrupt(t)
  \/ pc[t] = "ready" /\ Drop(t)
  \/ Delete(t)

Fairness ==
  /\ \A t \in Tasks : WF_vars(Progress(t))
  /\ WF_vars(Handler)
  /\ SF_vars(Tick)

Spec == Init /\ [][Next]_vars
FairSpec == Spec /\ Fairness

-----------------------------------------------------------------------------
\* Every variable has the type of the field it stands for.
TypeOK ==
  /\ now \in Ticks
  /\ list \in Seq(Tasks)
  /\ instant \in [Tasks -> Ticks]
  /\ link \in [Tasks -> {"none", "queued", "popped"}]
  /\ pc \in [Tasks -> {"idle", "waiting", "insert", "pend", "ready", "delete"}]
  /\ woken \in [Tasks -> BOOLEAN]
  /\ left \in [Tasks -> -MaxLate..MaxDelay+1]
  /\ irq \in BOOLEAN
  /\ compare \in Ticks \cup {None}
  /\ handler \in {"off", "pop", "wake", "arm", "recheck", "disable"}
  /\ release \in Ticks
  /\ waking \in Tasks \cup {None}

\* The pointers of the list lead only to links of delays that exist: a delay
\* that ends or is cancelled takes its link out, also while the interrupt
\* pops (the comment SAFETY(insert) in Delay::poll).
LinkWithinDelay ==
  /\ IsInjective(list)
  /\ \A t \in Tasks :
       /\ t \in ToSet(list) => pc[t] \notin {"idle", "insert"}
       /\ t \in ToSet(list) <=> link[t] = "queued"

\* The list is sorted by the time at which the delays really end, although
\* the instants wrap around and were compared at different times.
SortedByTime ==
  \A i, j \in DOMAIN list : i < j => left[list[i]] <= left[list[j]]

\* A wrapped instant is the time of the delay.
InstantIsTime ==
  \A t \in Tasks : pc[t] # "idle" => instant[t] = (now + left[t]) % Modulus

TimerInv == TypeOK /\ LinkWithinDelay /\ SortedByTime /\ InstantIsTime

\* The next interrupt comes no later than the first delay ends, whatever
\* delays were added and cancelled since the compare register was written and
\* however much time passed in the handler.
HeadIsAwaited ==
  list # << >> /\ handler = "off" /\ ~irq /\ (\A t \in Tasks : pc[t] # "pend")
    => /\ compare # None
       /\ (compare - now) % Modulus \in 1..left[Head(list)]

\* A delay whose link was popped is polled again.
PoppedIsWoken ==
  \A t \in Tasks :
    pc[t] = "waiting" /\ link[t] = "popped" => woken[t] \/ waking = t

\* No delay ends early: "Delay for at least some duration of time".
NeverEarly ==
  [][\A t \in Tasks : pc[t] = "waiting" /\ pc'[t] = "ready" => left[t] <= 0]_vars

\* Every delay ends.
DelayReturns == \A t \in Tasks : pc[t] = "waiting" ~> pc[t] = "idle"
=============================================================================
