----------------------------- MODULE WatchProofs -----------------------------
(***************************************************************************)
(* Neither a signal nor a watch loses a wakeup, a signal returns no value  *)
(* twice, and a watch without a race marks only what it has returned: for  *)
(* any number of writers and writes.                                       *)
(***************************************************************************)
EXTENDS Watch, TLAPS

LEMMA WatchInit == Init => WatchInv
<1> SUFFICES ASSUME Init PROVE WatchInv
  OBVIOUS
<1>1. TypeOK
  <2>1. 0 \in Store
    BY WritesAssumption DEF Store
  <2>2. writer \in [Writers -> {"idle", "flag", "wake"}]
    BY DEF Init
  <2>3. store \in Store /\ val \in Store /\ got \in Store /\ written \in Store /\ floor \in Store
    BY <2>1 DEF Init, Unset
  <2> QED BY <2>2, <2>3 DEF Init, TypeOK
<1>2. PollInv /\ OrderInv /\ HandInv /\ PendingIsFresh /\ NoSleepBesideValue /\ SeenWasReturned
  BY DEF Init, PollInv, OrderInv, HandInv, PendingIsFresh, NoSleepBesideValue,
         SeenWasReturned, Unset
<1> QED BY <1>1, <1>2 DEF WatchInv

-----------------------------------------------------------------------------
\* A value is stored: its writer still has the flag to reset and to wake.
LEMMA WriteKeeps ==
  ASSUME WatchInv, NEW w \in Writers, Write(w) \/ Clear(w)
  PROVE  WatchInv'
<1> USE DEF WatchInv, Unset, Store
<1>1. /\ writer[w] = "idle" /\ writer' = [writer EXCEPT ![w] = "flag"]
      /\ UNCHANGED <<kind, seen, waker, pc, woken, val, got, floor, raced>>
      /\ \/ written' = written + 1 /\ store' = written' /\ written < MaxWrites
         \/ store' = 0 /\ written' = written /\ kind = "signal"
  BY DEF Write, Clear, WriterAt
<1>2. TypeOK' /\ writer'[w] = "flag"
  BY <1>1, WritesAssumption DEF TypeOK
<1>3. OrderInv' /\ PendingIsFresh'
  BY <1>1, <1>2, WritesAssumption DEF OrderInv, PendingIsFresh, TypeOK
<1>4. WriterIn({"flag"})' /\ WriterIn({"flag", "wake"})'
  BY <1>2 DEF WriterIn
<1>5. PollInv' /\ HandInv'
  BY <1>1, <1>4 DEF PollInv, HandInv
<1>6. NoSleepBesideValue' /\ SeenWasReturned'
  BY <1>1, <1>4 DEF NoSleepBesideValue, SeenWasReturned
<1> QED BY <1>2, <1>3, <1>5, <1>6

\* The flag is reset: the writer still has to wake.  Nothing is marked any
\* more, and a reader with an older value in its hand was raced.
LEMMA ResetKeeps ==
  ASSUME WatchInv, NEW w \in Writers, ResetSeen(w)
  PROVE  WatchInv'
<1> USE DEF WatchInv
<1>1. /\ writer[w] = "flag" /\ writer' = [writer EXCEPT ![w] = "wake"]
      /\ seen' = FALSE /\ raced' = (raced \/ (pc = "mark" /\ store # val))
      /\ UNCHANGED <<kind, store, waker, pc, woken, val, got, written, floor>>
  BY DEF ResetSeen, WriterAt
<1>2. TypeOK' /\ writer'[w] = "wake"
  BY <1>1 DEF TypeOK
<1>3. OrderInv' /\ PendingIsFresh' /\ PollInv' /\ SeenWasReturned'
  BY <1>1 DEF OrderInv, PendingIsFresh, PollInv, SeenWasReturned
<1>4. WriterIn({"flag", "wake"})'
  BY <1>2 DEF WriterIn
<1>5. NoSleepBesideValue'
  BY <1>1, <1>4 DEF NoSleepBesideValue
<1>6. HandInv'
  BY <1>1 DEF HandInv
<1> QED BY <1>2, <1>3, <1>5, <1>6

\* Nobody sleeps with a registered waker after a wake.
LEMMA WakeKeeps ==
  ASSUME WatchInv, NEW w \in Writers, Wake(w)
  PROVE  WatchInv'
<1> USE DEF WatchInv
<1>1. /\ writer[w] = "wake" /\ writer' = [writer EXCEPT ![w] = "idle"]
      /\ woken' = (woken \/ waker) /\ waker' = FALSE
      /\ UNCHANGED <<kind, store, seen, written, pc, val, got, floor, raced>>
  BY DEF Wake, WriterAt, writeVars
<1>2. TypeOK'
  BY <1>1 DEF TypeOK
<1>3. OrderInv' /\ PendingIsFresh'
  BY <1>1 DEF OrderInv, PendingIsFresh
<1>4. pc \in {"poll", "get", "waiting"} => woken'
  BY <1>1 DEF PollInv, NoSleepBesideValue
<1>5. PollInv' /\ NoSleepBesideValue'
  BY <1>1, <1>4 DEF PollInv, NoSleepBesideValue
<1>6. WriterIn({"flag"}) => WriterIn({"flag"})'
  BY <1>1, <1>2 DEF WriterIn, TypeOK
<1>7. HandInv' /\ SeenWasReturned'
  BY <1>1, <1>6 DEF HandInv, SeenWasReturned
<1> QED BY <1>2, <1>3, <1>5, <1>7

-----------------------------------------------------------------------------
\* Steps of the reader leave the writers alone.
LEMMA ReaderFrame ==
  ASSUME writer' = writer, NEW S
  PROVE  WriterIn(S)' = WriterIn(S)
BY DEF WriterIn

\* The reader takes what is there, or evicts it.
LEMMA TakeKeeps ==
  ASSUME WatchInv, TryRead \/ Take \/ Wait
  PROVE  WatchInv'
<1> USE DEF WatchInv, Unset, Store
<1>1. /\ kind = "signal"
      /\ UNCHANGED <<kind, seen, writer, val, written, raced, waker>>
  BY DEF TryRead, Take, Wait
<1>2. WriterIn({"flag"})' = WriterIn({"flag"}) /\ WriterIn({"flag", "wake"})' = WriterIn({"flag", "wake"})
  BY <1>1, ReaderFrame
<1>3. CASE TryRead \/ Take
  <2>1. TakeOrPend /\ UNCHANGED woken /\ ((pc = "idle" /\ store # 0) \/ pc = "poll")
    BY <1>3 DEF TryRead, Take
  <2>2. CASE store = 0 /\ pc' = "waiting" /\ UNCHANGED <<store, got, floor>>
    BY <1>1, <1>2, <2>1, <2>2 DEF TypeOK, PollInv, OrderInv, HandInv, PendingIsFresh,
       NoSleepBesideValue, SeenWasReturned, Unread
  <2>3. CASE store # 0 /\ Return(store) /\ store' = 0
    <3>1. got' = store /\ floor' = store /\ pc' = "idle" /\ store' = 0
      BY <2>3 DEF Return
    <3>2. TypeOK'
      BY <1>1, <2>1, <3>1, WritesAssumption DEF TypeOK
    <3>3. OrderInv'
      BY <1>1, <3>1, <3>2 DEF OrderInv, TypeOK
    <3>4. PollInv' /\ HandInv' /\ PendingIsFresh' /\ NoSleepBesideValue' /\ SeenWasReturned'
      BY <1>1, <3>1 DEF PollInv, HandInv, PendingIsFresh, NoSleepBesideValue, SeenWasReturned
    <3> QED BY <3>2, <3>3, <3>4
  <2> QED BY <2>1, <2>2, <2>3 DEF TakeOrPend
<1>4. CASE Wait
  BY <1>1, <1>2, <1>4, WritesAssumption DEF Wait, TypeOK, PollInv, OrderInv, HandInv,
     PendingIsFresh, NoSleepBesideValue, SeenWasReturned, Unread
<1> QED BY <1>3, <1>4

\* The steps that only move the reader on.
LEMMA MoveKeeps ==
  ASSUME WatchInv, Changed \/ Register \/ Cancel
  PROVE  WatchInv'
<1> USE DEF WatchInv
<1>1. UNCHANGED <<kind, store, seen, written, writer, val, got, floor, raced>>
  BY DEF Changed, Register, Cancel, writeVars
<1>2. WriterIn({"flag"})' = WriterIn({"flag"}) /\ WriterIn({"flag", "wake"})' = WriterIn({"flag", "wake"})
  BY <1>1, ReaderFrame
<1>3. OrderInv' /\ PendingIsFresh' /\ SeenWasReturned'
  BY <1>1, <1>2 DEF OrderInv, PendingIsFresh, SeenWasReturned
<1>4. TypeOK' /\ PollInv' /\ HandInv' /\ NoSleepBesideValue'
  BY <1>1, <1>2 DEF Changed, Register, Cancel, TypeOK, PollInv, HandInv, NoSleepBesideValue
<1> QED BY <1>3, <1>4

\* The watch reader looks, takes the value into its hand, and marks it.
LEMMA WatchReaderKeeps ==
  ASSUME WatchInv, TryGet \/ CheckSeen \/ GetInner \/ MarkSeen
  PROVE  WatchInv'
<1> USE DEF WatchInv, Unset, Store
<1>1. UNCHANGED <<kind, store, written, writer, waker, woken, raced>>
  BY DEF TryGet, CheckSeen, GetInner, MarkSeen, writeVars
<1>2. WriterIn({"flag"})' = WriterIn({"flag"}) /\ WriterIn({"flag", "wake"})' = WriterIn({"flag", "wake"})
  BY <1>1, ReaderFrame
<1>3. kind = "watch"
  BY DEF TryGet, CheckSeen, GetInner, MarkSeen, PollInv
<1>4. CASE TryGet
  BY <1>1, <1>2, <1>3, <1>4 DEF TryGet, writeVars, TypeOK, PollInv, OrderInv, HandInv,
     PendingIsFresh, NoSleepBesideValue, SeenWasReturned
<1>5. CASE CheckSeen
  BY <1>1, <1>2, <1>3, <1>5 DEF CheckSeen, writeVars, TypeOK, PollInv, OrderInv, HandInv,
     PendingIsFresh, NoSleepBesideValue, SeenWasReturned, Unread
<1>6. CASE GetInner
  BY <1>1, <1>2, <1>3, <1>6 DEF GetInner, writeVars, TypeOK, PollInv, OrderInv, HandInv,
     PendingIsFresh, NoSleepBesideValue, SeenWasReturned, Unread
<1>7. CASE MarkSeen
  BY <1>1, <1>2, <1>3, <1>7 DEF MarkSeen, Return, TypeOK, PollInv, OrderInv, HandInv,
     PendingIsFresh, NoSleepBesideValue, SeenWasReturned
<1> QED BY <1>4, <1>5, <1>6, <1>7

-----------------------------------------------------------------------------
\* The invariant of the store, its writers and its reader.
THEOREM WatchInvariant == Spec => []WatchInv
<1>1. Init => WatchInv
  BY WatchInit
<1>2. WatchInv /\ [Next]_vars => WatchInv'
  <2> SUFFICES ASSUME WatchInv, [Next]_vars PROVE WatchInv'
    OBVIOUS
  <2>1. ASSUME NEW w \in Writers, Write(w) \/ Clear(w) \/ WriterStep(w) PROVE WatchInv'
    BY <2>1, WriteKeeps, ResetKeeps, WakeKeeps DEF WriterStep
  <2>2. CASE SignalReaderCall \/ Take
    BY <2>2, TakeKeeps DEF SignalReaderCall
  <2>3. CASE Changed \/ Register \/ Cancel
    BY <2>3, MoveKeeps
  <2>4. CASE TryGet \/ CheckSeen \/ GetInner \/ MarkSeen
    BY <2>4, WatchReaderKeeps
  <2>5. CASE UNCHANGED vars
    <3>1. UNCHANGED <<kind, store, seen, written, waker, writer, pc, woken, val, got, floor, raced>>
      BY <2>5 DEF vars, writeVars
    <3>2. WriterIn({"flag"})' = WriterIn({"flag"}) /\ WriterIn({"flag", "wake"})' = WriterIn({"flag", "wake"})
      BY <3>1, ReaderFrame
    <3> QED BY <3>1, <3>2 DEF WatchInv, TypeOK, PollInv, OrderInv, HandInv, PendingIsFresh,
            NoSleepBesideValue, SeenWasReturned, Unread
  <2> QED BY <2>1, <2>2, <2>3, <2>4, <2>5 DEF Next, PollStep
<1> QED BY <1>1, <1>2, PTL DEF Spec

\* A signal returns no value twice, and wait_fresh none that was there.
THEOREM ValuesReturnedOnce == Spec => []PendingIsFresh
<1>1. WatchInv => PendingIsFresh
  BY DEF WatchInv
<1> QED BY <1>1, WatchInvariant, PTL

\* No reader sleeps beside a value with nobody about to wake it.
THEOREM NoLostWakeup == Spec => []NoSleepBesideValue
<1>1. WatchInv => NoSleepBesideValue
  BY DEF WatchInv
<1> QED BY <1>1, WatchInvariant, PTL

\* Without a race only returned values are marked as seen.
THEOREM OnlyReturnedIsSeen == Spec => []SeenWasReturned
<1>1. WatchInv => SeenWasReturned
  BY DEF WatchInv
<1> QED BY <1>1, WatchInvariant, PTL
=============================================================================
