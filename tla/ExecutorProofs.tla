--------------------------- MODULE ExecutorProofs ---------------------------
(***************************************************************************)
(* Proofs about Executor, for any executors, contexts and priorities: the  *)
(* running flag keeps spawns from overwriting a future that is alive; only *)
(* futures that are alive are polled unless a notification was left over   *)
(* from the task before; and no notification is forgotten.  The order of   *)
(* preemption plays no part: these facts hold in every interleaving.       *)
(***************************************************************************)
EXTENDS Executor, TLAPS

LEMMA InitExecutorInv == Init => ExecutorInv
<1> SUFFICES ASSUME Init PROVE ExecutorInv
  OBVIOUS
<1>1. Order[1] \in Execs /\ 1 \in DOMAIN Order
  BY OrderAssumption
<1>2. pended \in BOOLEAN /\ stale \in BOOLEAN
  BY Zenon DEF Init
<1>3. TypeOK
  BY <1>1, <1>2 DEF Init, TypeOK
<1>4. RunningInv /\ NoOverwrite /\ PolledIsLive
  BY DEF Init, RunningInv, NoOverwrite, PolledIsLive, Polling, Writing, Freeing, Taking
<1>5. NotifiedIsPending
  BY DEF Init, NotifiedIsPending
<1> QED BY <1>3, <1>4, <1>5 DEF ExecutorInv

-----------------------------------------------------------------------------
\* The dispatcher is at an executor, before and after it moves on.
LEMMA AtAnExecutor ==
  ASSUME TypeOK
  PROVE  /\ Order[at] \in Execs
         /\ Advance => at' \in DOMAIN Order /\ disp' \in {"check", "off"}
<1>1. /\ DOMAIN Order = 1..Len(Order)
      /\ Len(Order) \in Nat
      /\ \A i \in DOMAIN Order : Order[i] \in Execs
  BY OrderAssumption
<1>2. at \in DOMAIN Order
  BY DEF TypeOK
<1> QED BY <1>1, <1>2 DEF Advance

LEMMA TypeStep == TypeOK /\ [Next]_vars => TypeOK'
<1> SUFFICES ASSUME TypeOK, [Next]_vars PROVE TypeOK'
  OBVIOUS
<1>0. Order[at] \in Execs /\ 1 \in DOMAIN Order
  BY AtAnExecutor, OrderAssumption
<1>1. ASSUME NEW c \in Callers, NEW e \in Execs, Allocate(c, e) PROVE TypeOK'
  <2>1. stale' \in BOOLEAN
    BY <1>1, Zenon DEF Allocate
  <2> QED BY <1>1, <2>1 DEF Allocate, Goto, TypeOK
<1>2. ASSUME NEW c \in Callers, NEW e \in Execs, Wake(c, e) PROVE TypeOK'
  <2>1. stale' \in BOOLEAN
    BY <1>2, Zenon DEF Wake, Notify
  <2> QED BY <1>2, <2>1 DEF Wake, Notify, Goto, TypeOK
<1>3. ASSUME NEW c \in Callers, WriteTask(c) PROVE TypeOK'
  BY <1>3 DEF WriteTask, Goto, TypeOK
<1>12. ASSUME NEW c \in Callers, SetPending(c) PROVE TypeOK'
  <2>1. stale' \in BOOLEAN
    BY <1>12, Zenon DEF SetPending, Notify
  <2> QED BY <1>12, <2>1 DEF SetPending, Notify, Goto, TypeOK
<1>4. ASSUME NEW c \in Callers, PendInterrupt(c) PROVE TypeOK'
  <2>1. pended' \in BOOLEAN
    BY <1>4, Zenon DEF PendInterrupt
  <2> QED BY <1>4, <2>1 DEF PendInterrupt, Goto, TypeOK, execVars
<1>5. CASE Enter
  <2>1. pended' \in BOOLEAN
    BY <1>5, Zenon DEF Enter
  <2> QED BY <1>0, <1>5, <2>1 DEF Enter, TypeOK, execVars
<1>6. CASE CheckRunning
  <2>1. at' \in DOMAIN Order /\ disp' \in {"check", "off", "take"}
    BY <1>6, AtAnExecutor DEF CheckRunning, TypeOK
  <2> QED BY <1>6, <2>1 DEF CheckRunning, TypeOK, execVars
<1>7. CASE TakePending
  <2>1. at' \in DOMAIN Order /\ disp' \in {"check", "off", "poll"}
    BY <1>7, AtAnExecutor DEF TakePending, TypeOK
  <2>2. notified' \in [Execs -> BOOLEAN]
    BY <1>7 DEF TakePending, TypeOK
  <2> QED BY <1>7, <2>1, <2>2 DEF TakePending, TypeOK
<1>8. CASE PollPending
  <2>1. at' \in DOMAIN Order /\ disp' \in {"check", "off"}
    BY <1>8, AtAnExecutor DEF PollPending
  <2> QED BY <1>8, <2>1 DEF PollPending, TypeOK, execVars
<1>9. CASE PollReady \/ PollGarbage
  BY <1>9 DEF PollReady, PollGarbage, TypeOK, execVars
<1>10. CASE Free
  <2>1. at' \in DOMAIN Order /\ disp' \in {"check", "off"}
    BY <1>10, AtAnExecutor DEF Free
  <2> QED BY <1>10, <2>1 DEF Free, TypeOK
<1>11. CASE UNCHANGED vars
  BY <1>11 DEF vars, execVars, TypeOK
<1> QED BY <1>1, <1>2, <1>3, <1>4, <1>5, <1>6, <1>7, <1>8, <1>9, <1>10, <1>11, <1>12
        DEF Next, Dispatch, CallerStep

-----------------------------------------------------------------------------
LEMMA RunningStep ==
  TypeOK /\ RunningInv /\ NoOverwrite /\ PolledIsLive /\ [Next]_vars
    => RunningInv' /\ NoOverwrite' /\ PolledIsLive'
<1> SUFFICES ASSUME TypeOK, RunningInv, NoOverwrite, PolledIsLive, [Next]_vars
             PROVE  RunningInv' /\ NoOverwrite' /\ PolledIsLive'
  OBVIOUS
<1> DEFINE Goal == RunningInv' /\ NoOverwrite' /\ PolledIsLive'
<1> USE DEF RunningInv, NoOverwrite, PolledIsLive, Polling, Writing, Freeing, Taking
<1>0. Order[at] \in Execs
  BY AtAnExecutor
<1>1. ASSUME NEW c \in Callers, NEW e \in Execs, Allocate(c, e) PROVE Goal
  BY <1>0, <1>1 DEF Allocate, Goto, TypeOK
<1>2. ASSUME NEW c \in Callers, NEW e \in Execs, Wake(c, e) PROVE Goal
  BY <1>0, <1>2 DEF Wake, Notify, Goto, TypeOK
<1>3. ASSUME NEW c \in Callers, WriteTask(c) PROVE Goal
  BY <1>0, <1>3 DEF WriteTask, Goto, TypeOK
<1>4. ASSUME NEW c \in Callers, SetPending(c) PROVE Goal
  BY <1>0, <1>4 DEF SetPending, Notify, Goto, TypeOK
<1>5. ASSUME NEW c \in Callers, PendInterrupt(c) PROVE Goal
  BY <1>0, <1>5 DEF PendInterrupt, Goto, TypeOK, execVars
<1>11. CASE CheckRunning
  <2>1. /\ UNCHANGED <<execVars, pc, target, stale>>
        /\ disp' \notin {"poll", "free"}
        /\ disp' = "take" => running[Order[at]] /\ at' = at
    BY <1>11 DEF CheckRunning, Advance
  <2>2. UNCHANGED <<running, pending, task, pc, target, stale>>
    BY <2>1 DEF execVars
  <2>3. ASSUME NEW e \in Execs, Taking(e)' PROVE running'[e]
    BY <2>1, <2>2, <2>3
  <2>4. NoOverwrite' /\ PolledIsLive'
    BY <2>1, <2>2
  <2>5. \A e \in Execs : (Writing(e)' <=> Writing(e)) /\ ~Freeing(e)'
    BY <2>1, <2>2
  <2>6. \A e \in Execs : ~Freeing(e)
    BY <1>11 DEF CheckRunning
  <2> QED BY <2>2, <2>3, <2>4, <2>5, <2>6
<1>6. CASE Enter \/ PollPending \/ PollGarbage
  <2>1. /\ UNCHANGED <<execVars, pc, target, stale>>
        /\ disp' \notin {"poll", "free", "take"}
        /\ disp # "free"
    BY <1>6 DEF Enter, PollPending, PollGarbage, Advance
  <2> QED BY <1>0, <2>1 DEF execVars
<1>7. CASE TakePending
  <2> DEFINE e == Order[at]
  <2> HIDE DEF e
  <2>1. /\ disp = "take"
        /\ pending' = [pending EXCEPT ![e] = FALSE]
        /\ UNCHANGED <<running, task, at, pc, target, stale>> \/ ~pending[e]
        /\ UNCHANGED <<running, task, pc, target, stale>>
        /\ \A d \in Execs : pending'[d] => pending[d]
    BY <1>0, <1>7 DEF TakePending, TypeOK, e
  <2>2. CASE pending[e]
    <3>1. disp' = "poll" /\ at' = at
      BY <1>7, <2>2 DEF TakePending, e
    <3>2. PolledIsLive'
      BY <1>0, <2>1, <2>2, <3>1 DEF e
    <3> QED BY <2>1, <3>1, <3>2
  <2>3. CASE ~pending[e]
    <3>1. disp' \notin {"poll", "free", "take"}
      BY <1>7, <2>3 DEF TakePending, Advance, e
    <3> QED BY <2>1, <3>1
  <2> QED BY <2>2, <2>3
<1>8. CASE PollReady
  BY <1>0, <1>8 DEF PollReady, TypeOK
<1>9. CASE Free
  BY <1>0, <1>9 DEF Free, Advance, TypeOK
<1>10. CASE UNCHANGED vars
  BY <1>10 DEF vars, execVars
<1> QED BY <1>1, <1>2, <1>3, <1>4, <1>5, <1>6, <1>7, <1>8, <1>9, <1>10, <1>11
        DEF Next, Dispatch, CallerStep

-----------------------------------------------------------------------------
LEMMA PendingStep ==
  TypeOK /\ NotifiedIsPending /\ [Next]_vars => NotifiedIsPending'
<1> SUFFICES ASSUME TypeOK, NotifiedIsPending, [Next]_vars PROVE NotifiedIsPending'
  OBVIOUS
<1> USE DEF NotifiedIsPending
<1>0. Order[at] \in Execs
  BY AtAnExecutor
<1>1. ASSUME NEW c \in Callers, NEW e \in Execs, Allocate(c, e) \/ Wake(c, e)
      PROVE  NotifiedIsPending'
  BY <1>1 DEF Allocate, Wake, Notify, TypeOK
<1>2. ASSUME NEW c \in Callers, CallerStep(c) PROVE NotifiedIsPending'
  BY <1>2 DEF CallerStep, WriteTask, SetPending, PendInterrupt, Notify, TypeOK, execVars
<1>3. CASE TakePending
  BY <1>0, <1>3 DEF TakePending, TypeOK
<1>4. CASE Enter \/ CheckRunning \/ PollPending \/ PollReady \/ PollGarbage \/ Free
  BY <1>4 DEF Enter, CheckRunning, PollPending, PollReady, PollGarbage, Free, execVars
<1>5. CASE UNCHANGED vars
  BY <1>5 DEF vars, execVars
<1> QED BY <1>1, <1>2, <1>3, <1>4, <1>5 DEF Next, Dispatch

-----------------------------------------------------------------------------
\* ExecutorInv is an inductive invariant of the executors.
THEOREM ExecutorInvariance == Spec => []ExecutorInv
<1>1. ExecutorInv /\ [Next]_vars => ExecutorInv'
  BY TypeStep, RunningStep, PendingStep DEF ExecutorInv
<1> QED BY <1>1, InitExecutorInv, PTL DEF Spec

\* No spawn overwrites a future that is alive.
THEOREM FuturesKept == Spec => []NoOverwrite
<1>1. ExecutorInv => NoOverwrite
  BY DEF ExecutorInv
<1> QED BY <1>1, ExecutorInvariance, PTL

\* Only futures that are alive are polled, unless a spawn met a notification
\* that was left over.
THEOREM PollsAreLive == Spec => []PolledIsLive
<1>1. ExecutorInv => PolledIsLive
  BY DEF ExecutorInv
<1> QED BY <1>1, ExecutorInvariance, PTL
-----------------------------------------------------------------------------
(***************************************************************************)
(* A notification is never forgotten: the dispatcher is pended, or still   *)
(* to come to the executor, or the one who notified is about to pend it.   *)
(***************************************************************************)
Due(i) == running[Order[i]] /\ notified[Order[i]] /\ task[Order[i]] = "live"
Coming(i) ==
  \/ disp \in {"check", "take", "poll", "free"} /\ at < i
  \/ disp \in {"check", "take"} /\ at = i
Announced ==
  \/ pended
  \/ \E c \in Callers : pc[c] \in {"set", "pend"}
  \/ disp = "crashed"

\* What the dispatcher moves past was not due, and what lies ahead stays ahead.
LEMMA AdvanceComes ==
  ASSUME TypeOK, Advance, disp \in {"check", "take", "poll", "free"},
         NEW i \in DOMAIN Order, Coming(i), i # at
  PROVE  Coming(i)'
<1>1. DOMAIN Order = 1..Len(Order) /\ Len(Order) \in Nat /\ at \in DOMAIN Order
  BY OrderAssumption DEF TypeOK
<1>2. at < i /\ at # Len(Order)
  BY <1>1 DEF Coming
<1>3. at' = at + 1 /\ disp' = "check"
  BY <1>2 DEF Advance
<1> QED BY <1>1, <1>2, <1>3 DEF Coming

LEMMA ScheduledStep ==
  ASSUME ExecutorInv, [Next]_vars, NEW i \in DOMAIN Order,
         Due(i) => Announced \/ Coming(i), Due(i)'
  PROVE  Announced' \/ Coming(i)'
<1> USE DEF ExecutorInv
<1>0. /\ Order[at] \in Execs /\ Order[i] \in Execs
      /\ at \in DOMAIN Order /\ DOMAIN Order = 1..Len(Order) /\ Len(Order) \in Nat
      /\ Order[at] = Order[i] => at = i
  BY AtAnExecutor, OrderAssumption DEF TypeOK
<1>1. ASSUME NEW c \in Callers, NEW e \in Execs, Allocate(c, e) PROVE Announced' \/ Coming(i)'
  <2>1. Due(i)
    BY <1>0, <1>1 DEF Allocate, Due, TypeOK, RunningInv
  <2> QED BY <1>1, <2>1 DEF Allocate, Goto, TypeOK, Announced, Coming
<1>2. ASSUME NEW c \in Callers, NEW e \in Execs, Wake(c, e) PROVE Announced'
  BY <1>2 DEF Wake, Goto, TypeOK, Announced
<1>3. ASSUME NEW c \in Callers, WriteTask(c) \/ SetPending(c) \/ PendInterrupt(c)
      PROVE  Announced'
  BY <1>3 DEF WriteTask, SetPending, PendInterrupt, Goto, TypeOK, Announced
<1>4. CASE Enter
  BY <1>0, <1>4 DEF Enter, Coming
<1>5. CASE CheckRunning
  <2>1. Due(i) /\ UNCHANGED <<pended, pc>> /\ disp = "check"
    BY <1>5 DEF CheckRunning, Due, execVars
  <2>2. CASE running[Order[at]]
    BY <1>5, <2>1, <2>2 DEF CheckRunning, Announced, Coming
  <2>3. CASE ~running[Order[at]]
    <3>1. Advance /\ i # at
      BY <1>5, <2>1, <2>3 DEF CheckRunning, Due
    <3> QED BY <2>1, <3>1, AdvanceComes DEF Announced
  <2> QED BY <2>2, <2>3
<1>6. CASE TakePending
  <2>1. Due(i) /\ UNCHANGED <<pended, pc>> /\ disp = "take" /\ i # at
    BY <1>0, <1>6 DEF TakePending, Due, TypeOK, NotifiedIsPending
  <2>2. CASE pending[Order[at]]
    BY <1>6, <2>1, <2>2 DEF TakePending, Announced, Coming
  <2>3. CASE ~pending[Order[at]]
    <3>1. Advance
      BY <1>6, <2>3 DEF TakePending
    <3> QED BY <2>1, <3>1, AdvanceComes DEF Announced
  <2> QED BY <2>2, <2>3
<1>7. CASE PollPending \/ Free
  <2>1. /\ Advance /\ UNCHANGED <<pended, pc>>
        /\ disp \in {"poll", "free"}
    BY <1>7 DEF PollPending, Free
  <2>2. Due(i)
    BY <1>0, <1>7 DEF PollPending, Free, Due, execVars, TypeOK
  <2>3. Coming(i) => i # at
    BY <1>0, <2>1 DEF Coming
  <2> QED BY <2>1, <2>2, <2>3, AdvanceComes DEF Announced
<1>8. CASE PollReady
  <2>1. Due(i) /\ UNCHANGED <<pended, pc, at>> /\ disp = "poll" /\ disp' = "free"
    BY <1>0, <1>8 DEF PollReady, Due, TypeOK
  <2> QED BY <2>1 DEF Announced, Coming
<1>9. CASE PollGarbage
  BY <1>9 DEF PollGarbage, Announced
<1>10. CASE UNCHANGED vars
  BY <1>10 DEF vars, execVars, Due, Announced, Coming
<1> QED BY <1>1, <1>2, <1>3, <1>4, <1>5, <1>6, <1>7, <1>8, <1>9, <1>10
        DEF Next, Dispatch, CallerStep

\* A task that was notified is going to be polled, whatever preempts what.
THEOREM NotificationsKept == Spec => []NotifiedIsScheduled
<1> DEFINE Sched == \A i \in DOMAIN Order : Due(i) => Announced \/ Coming(i)
<1>1. Init => Sched
  <2>1. \A i \in DOMAIN Order : Order[i] \in Execs
    BY OrderAssumption
  <2> QED BY <2>1 DEF Init, Due
<1>2. ExecutorInv /\ Sched /\ [Next]_vars => Sched'
  BY ScheduledStep
<1>3. ExecutorInv /\ Sched => NotifiedIsScheduled
  <2>1. \A i \in DOMAIN Order : Order[i] \in Execs
    BY OrderAssumption
  <2> QED BY <2>1 DEF ExecutorInv, NotifiedIsPending, NotifiedIsScheduled, Due, Announced, Coming
<1> HIDE DEF Sched
<1> QED BY <1>1, <1>2, <1>3, ExecutorInvariance, PTL DEF Spec
=============================================================================
