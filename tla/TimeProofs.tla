----------------------------- MODULE TimeProofs -----------------------------
(***************************************************************************)
(* Proofs about rtic-time: calculate_now is a clock, for every size of the *)
(* timer and of the counter; and the timer queue wakes every delay in time *)
(* and none too early, for every number of tasks and every such clock.     *)
(*                                                                         *)
(* The counter is the number of half periods or one less, both modulo its  *)
(* size.  Its parity tells which of the two it is, because the timer shows *)
(* the parity of the half period it is in.                                 *)
(*                                                                         *)
(* Instants wrap around, but each is the time of its delay modulo Modulus, *)
(* and delays are short: so comparisons of instants are comparisons of the *)
(* times that are left.  The rest is about who knows that the head of the  *)
(* list has changed: the task that pends the interrupt, the interrupt, the *)
(* handler before it looks at the clock again, or the compare register.    *)
(***************************************************************************)
EXTENDS HalfPeriod, TimerQueue, QueueLemmas

(***************************************************************************)
(* Division with remainder                                                 *)
(***************************************************************************)
\* Division with remainder.
LEMMA Division ==
  ASSUME NEW n \in Int, NEW D \in Int, D > 0
  PROVE  n = D * (n \div D) + (n % D)
  BY Z3

LEMMA DivMod ==
  ASSUME NEW n \in Nat, NEW D \in Nat \ {0}
  PROVE  \E q \in Nat : \E r \in 0..D-1 : n = q * D + r /\ n % D = r
<1>1. n % D \in 0..D-1 /\ n \div D \in Nat
  OBVIOUS
<1>2. n = D * (n \div D) + (n % D)
  BY Division
<1>3. PICK q \in Nat, r \in 0..D-1 : q = n \div D /\ r = n % D
  BY <1>1
<1>4. n = D * q + r
  BY <1>2, <1>3
<1>5. D * q = q * D
  OBVIOUS
<1> QED BY <1>3, <1>4, <1>5

LEMMA ModUnique ==
  ASSUME NEW q \in Nat, NEW D \in Nat \ {0}, NEW r \in 0..D-1
  PROVE  (q * D + r) % D = r
  OBVIOUS

LEMMA Distribute ==
  ASSUME NEW q \in Int, NEW k \in Int, NEW D \in Int, NEW r \in Int
  PROVE  (q + k) * D + r = q * D + (k * D + r)
  OBVIOUS

LEMMA ModShift ==
  ASSUME NEW q \in Nat, NEW D \in Nat \ {0}, NEW a \in Nat
  PROVE  (q * D + a) % D = a % D
<1>1. PICK k \in Nat, r \in 0..D-1 : a = k * D + r /\ a % D = r
  BY DivMod
<1>2. q * D + a = (q + k) * D + r
  BY <1>1, Distribute
<1>3. ((q + k) * D + r) % D = r
  BY ModUnique
<1> QED BY <1>1, <1>2, <1>3

LEMMA ModSuccessor ==
  ASSUME NEW n \in Nat, NEW D \in Nat \ {0}
  PROVE  ((n % D) + 1) % D = (n + 1) % D
<1>1. PICK k \in Nat, r \in 0..D-1 : n = k * D + r /\ n % D = r
  BY DivMod
<1>2. (k * D + (r + 1)) % D = (r + 1) % D
  BY ModShift
<1>3. k * D \in Nat
  OBVIOUS
<1>4. n + 1 = k * D + (r + 1)
  BY <1>1, <1>3
<1> QED BY <1>1, <1>2, <1>4

LEMMA ModParity ==
  ASSUME NEW n \in Nat, NEW D \in Nat \ {0}, D % 2 = 0
  PROVE  (n % D) % 2 = n % 2
<1>1. PICK k \in Nat, r \in 0..D-1 : n = k * D + r /\ n % D = r
  BY DivMod
<1>2. PICK e \in Nat : D = e * 2
  BY D = (D \div 2) * 2, D \div 2 \in Nat
<1>3. k * D = (k * e) * 2 /\ k * e \in Nat
  BY <1>2
<1>4. ((k * e) * 2 + r) % 2 = r % 2
  BY <1>3, ModShift
<1> QED BY <1>1, <1>3, <1>4

-----------------------------------------------------------------------------
\* One bit of the counter and one of the timer say the same: the result is
\* that of the counter, or of the counter increased by one.
LEMMA CombineValue ==
  ASSUME CounterTypeOK, NEW c \in Nat
  PROVE  Combine(c, TimerValue) =
           (IF c % 2 = half % 2 THEN c * Half + offset ELSE (c + 1) * Half + offset)
<1>1. /\ half \in Nat /\ offset \in 0..Half-1 /\ Half \in Nat /\ Half > 1
      /\ half % 2 \in 0..1 /\ c % 2 \in 0..1
  BY SizeAssumption DEF CounterTypeOK
<1>2. TimerValue = IF half % 2 = 1 THEN Half + offset ELSE offset
  BY <1>1 DEF TimerValue
<1>3. (offset + Half) % (2 * Half) = offset + Half
  BY <1>1
<1>4. (Half + offset + Half) % (2 * Half) = offset
  <2>1. (1 * (2 * Half) + offset) % (2 * Half) = offset
    BY <1>1, ModUnique
  <2>2. Half + offset + Half = 1 * (2 * Half) + offset
    BY <1>1
  <2> QED BY <2>1, <2>2
<1>5. (c + 1) * Half = c * Half + Half /\ c * Half \in Nat
  BY <1>1
<1> QED BY <1>1, <1>2, <1>3, <1>4, <1>5 DEF Combine

\* Half periods that are a multiple of the counter's size apart are the same
\* time modulo the range of now.
LEMMA SameCount ==
  ASSUME NEW h \in Nat, NEW c \in 0..CounterSize-1, c = h % CounterSize,
         NEW x \in Nat
  PROVE  (h * Half + x) % (CounterSize * Half) = (c * Half + x) % (CounterSize * Half)
<1>1. PICK k \in Nat, r \in 0..CounterSize-1 :
        h = k * CounterSize + r /\ h % CounterSize = r
  BY DivMod, SizeAssumption
<1>2. h * Half = k * (CounterSize * Half) + c * Half
  BY <1>1, SizeAssumption
<1>3. CounterSize * Half \in Nat \ {0} /\ c * Half \in Nat /\ k * (CounterSize * Half) \in Nat
  BY SizeAssumption
<1>4. h * Half + x = k * (CounterSize * Half) + (c * Half + x)
  BY <1>2, <1>3
<1>5. c * Half + x \in Nat
  BY <1>3
<1>6. (k * (CounterSize * Half) + (c * Half + x)) % (CounterSize * Half)
        = (c * Half + x) % (CounterSize * Half)
  BY <1>3, <1>5, ModShift
<1> QED BY <1>4, <1>6

\* Whichever half period was read, the result is the time at the second read.
LEMMA ReadIsTime ==
  ASSUME CounterTypeOK, CountInv, ReadInv, reading
  PROVE  Combine(periods, TimerValue) % (CounterSize * Half) =
           (half * Half + offset) % (CounterSize * Half)
<1>1. /\ half \in Nat /\ offset \in Nat /\ periods \in 0..CounterSize-1 /\ periods \in Nat
      /\ Half \in Nat /\ CounterSize \in Nat \ {0} /\ CounterSize % 2 = 0
  BY SizeAssumption DEF CounterTypeOK
<1>2. CASE periods = half % CounterSize
  <2>1. periods % 2 = half % 2
    BY <1>1, <1>2, ModParity
  <2>2. Combine(periods, TimerValue) = periods * Half + offset
    BY <1>1, <2>1, CombineValue
  <2>3. (half * Half + offset) % (CounterSize * Half)
          = (periods * Half + offset) % (CounterSize * Half)
    BY <1>1, <1>2, SameCount
  <2> QED BY <2>2, <2>3
<1>3. CASE half > 0 /\ periods = (half - 1) % CounterSize
  <2>1. half - 1 \in Nat /\ (half - 1) % 2 # half % 2
    BY <1>1, <1>3
  <2>2. periods % 2 # half % 2
    BY <1>1, <1>3, <2>1, ModParity
  <2>3. Combine(periods, TimerValue) = (periods + 1) * Half + offset
    BY <1>1, <2>2, CombineValue
  <2>4. /\ (periods + 1) * Half + offset = periods * Half + (Half + offset)
        /\ half * Half + offset = (half - 1) * Half + (Half + offset)
    BY <1>1
  <2>5. Half + offset \in Nat
    BY <1>1
  <2>6. ((half - 1) * Half + (Half + offset)) % (CounterSize * Half)
          = (periods * Half + (Half + offset)) % (CounterSize * Half)
    BY <1>1, <1>3, <2>1, <2>5, SameCount
  <2> QED BY <2>3, <2>4, <2>6
<1> QED BY <1>2, <1>3 DEF ReadInv, CountInv

-----------------------------------------------------------------------------
\* Between calls of calculate_now and during them the counter is at most one
\* behind.
LEMMA HalfPeriodInit == InitCounter => HalfPeriodInv
<1> SUFFICES ASSUME InitCounter PROVE HalfPeriodInv
  OBVIOUS
<1>1. /\ 0 % CounterSize = 0 /\ 0 \in 0..CounterSize-1
      /\ 0..1 \subseteq 0..Half-1
  BY SizeAssumption
<1>2. CounterSize * Half > 0 /\ CounterSize * Half \in Nat
  BY SizeAssumption
<1>3. 0 \in 0..CounterSize * Half - 1
  BY <1>2
<1>4. CounterTypeOK
  BY <1>1, <1>3 DEF InitCounter, CounterTypeOK
<1> QED BY <1>1, <1>4 DEF InitCounter, HalfPeriodInv, CountInv, ReadInv, AssertsHold, Uncounted

LEMMA TimerTickKeeps ==
  ASSUME HalfPeriodInv, TimerTick
  PROVE  HalfPeriodInv'
<1> USE DEF HalfPeriodInv
<1>1. UNCHANGED <<reading, periods, result, half_periods, on_interrupt>>
  BY DEF TimerTick, readVars
<1>2. CASE offset < Half - 1 /\ offset' = offset + 1 /\ UNCHANGED <<half, uif, ccif>>
  <2>1. CounterTypeOK'
    BY <1>1, <1>2, SizeAssumption DEF CounterTypeOK
  <2> QED BY <1>1, <1>2, <2>1 DEF CountInv, ReadInv, AssertsHold, Uncounted
<1>3. CASE /\ CountedInTime
           /\ half' = half + 1
           /\ offset' = 0
           /\ uif' = (half' % 2 = 0)
           /\ ccif' = (half' % 2 = 1)
  <2>1. CounterTypeOK'
    BY <1>1, <1>3, SizeAssumption DEF CounterTypeOK
  <2>2. half \in Nat /\ half' > 0 /\ half' - 1 = half /\ half' % 2 \in 0..1
    BY <1>3 DEF CounterTypeOK
  <2>3. half_periods = half % CounterSize /\ on_interrupt \notin {"overflow", "half"}
    BY <1>3 DEF CountedInTime, CountInv, Uncounted
  <2>4. CountInv'
    <3>0. half' % 2 = 0 \/ half' % 2 = 1
      BY <2>2
    <3>u. /\ half' % 2 = 0 => uif' /\ ~ccif'
          /\ half' % 2 = 1 => ccif' /\ ~uif'
      <4>1. uif' = (half' % 2 = 0) /\ ccif' = (half' % 2 = 1)
        BY <1>3
      <4>2. half' % 2 = 0 => ~(half' % 2 = 1)
        OBVIOUS
      <4> QED BY <4>1, <4>2, Zenon
    <3>1. Uncounted'
      BY <3>0, <3>u DEF Uncounted
    <3>2. half_periods' = (half' - 1) % CounterSize
      BY <1>1, <2>2, <2>3
    <3>3. on_interrupt' \notin {"overflow", "half"} /\ ~(uif' /\ ccif')
      BY <1>1, <2>3, <3>0, <3>u
    <3> QED BY <2>2, <3>0, <3>u, <3>1, <3>2, <3>3 DEF CountInv
  <2>5. ReadInv'
    BY <1>1 DEF ReadInv
  <2> QED BY <1>1, <2>1, <2>3, <2>4, <2>5 DEF AssertsHold
<1> QED BY <1>2, <1>3 DEF TimerTick

\* The flags move into the handler, and from there into the counter.
LEMMA OnInterruptKeeps ==
  ASSUME HalfPeriodInv, OnInterrupt
  PROVE  HalfPeriodInv'
<1> USE DEF HalfPeriodInv
<1>1. ~reading /\ UNCHANGED <<half, offset, reading, periods, result>>
  BY DEF OnInterrupt, TestOverflow, CountOverflow, TestHalf, CountHalf, HandlerStep,
         MayInterrupt, tickVars, readVars
<1>2. ReadInv'
  BY <1>1 DEF ReadInv
<1>3. CASE TestOverflow
  <2>1. /\ on_interrupt = "off" /\ on_interrupt' = (IF uif THEN "overflow" ELSE "test")
        /\ uif' = FALSE /\ UNCHANGED <<ccif, half_periods>>
    BY <1>3 DEF TestOverflow, HandlerStep
  <2>2. CounterTypeOK'
    BY <1>1, <2>1 DEF CounterTypeOK
  <2>3. Uncounted' = Uncounted
    BY <2>1 DEF Uncounted
  <2>4. CountInv'
    BY <1>1, <2>1, <2>3 DEF CountInv
  <2>5. uif => half_periods % 2 = 1
    <3> SUFFICES ASSUME uif PROVE half_periods % 2 = 1
      OBVIOUS
    <3>1. /\ half - 1 \in Nat /\ half % 2 = 0 /\ half \in Nat
          /\ half_periods = (half - 1) % CounterSize
      BY DEF CountInv, Uncounted, CounterTypeOK
    <3>2. (half - 1) % 2 = 1
      BY <3>1
    <3> QED BY <3>1, <3>2, ModParity, SizeAssumption
  <2>6. AssertsHold'
    BY <2>1, <2>5 DEF AssertsHold
  <2> QED BY <1>2, <2>2, <2>4, <2>6
<1>4. CASE TestHalf
  <2>1. /\ on_interrupt = "test" /\ on_interrupt' = (IF ccif THEN "half" ELSE "off")
        /\ ccif' = FALSE /\ UNCHANGED <<uif, half_periods>>
    BY <1>4 DEF TestHalf, HandlerStep
  <2>2. CounterTypeOK'
    BY <1>1, <2>1 DEF CounterTypeOK
  <2>3. Uncounted' = Uncounted
    BY <2>1 DEF Uncounted
  <2>4. CountInv'
    BY <1>1, <2>1, <2>3 DEF CountInv
  <2>5. ccif => half_periods % 2 = 0
    <3> SUFFICES ASSUME ccif PROVE half_periods % 2 = 0
      OBVIOUS
    <3>1. /\ half - 1 \in Nat /\ half % 2 = 1 /\ half \in Nat
          /\ half_periods = (half - 1) % CounterSize
      BY DEF CountInv, Uncounted, CounterTypeOK
    <3>2. (half - 1) % 2 = 0
      BY <3>1
    <3> QED BY <3>1, <3>2, ModParity, SizeAssumption
  <2>6. AssertsHold'
    BY <2>1, <2>5 DEF AssertsHold
  <2> QED BY <1>2, <2>2, <2>4, <2>6
<1>5. ASSUME Increment, on_interrupt \in {"overflow", "half"}, on_interrupt' \in {"test", "off"},
             UNCHANGED <<uif, ccif>>
      PROVE  HalfPeriodInv'
  <2>1. /\ half - 1 \in Nat /\ half \in Nat /\ half_periods = (half - 1) % CounterSize
        /\ ~uif /\ ~ccif
    BY <1>5 DEF CountInv, Uncounted, CounterTypeOK
  <2>2. half_periods' = half % CounterSize
    <3>1. (((half - 1) % CounterSize) + 1) % CounterSize = (half - 1 + 1) % CounterSize
      BY <2>1, ModSuccessor, SizeAssumption
    <3>2. half - 1 + 1 = half
      BY <2>1
    <3> QED BY <1>5, <2>1, <3>1, <3>2 DEF Increment
  <2>3. CounterTypeOK'
    <3>1. half % CounterSize \in 0..CounterSize-1
      BY <2>1, SizeAssumption
    <3> QED BY <1>1, <1>5, <2>2, <3>1 DEF CounterTypeOK
  <2>4. CountInv'
    BY <1>1, <1>5, <2>1, <2>2 DEF CountInv, Uncounted
  <2>5. AssertsHold'
    BY <1>5 DEF AssertsHold
  <2> QED BY <1>2, <2>3, <2>4, <2>5
<1>6. CASE CountOverflow
  BY <1>5, <1>6 DEF CountOverflow, HandlerStep
<1>7. CASE CountHalf
  BY <1>5, <1>7 DEF CountHalf, HandlerStep
<1> QED BY <1>3, <1>4, <1>6, <1>7 DEF OnInterrupt

LEMMA ReadKeeps ==
  ASSUME HalfPeriodInv, ReadPeriods \/ ReadTimer
  PROVE  HalfPeriodInv'
<1> USE DEF HalfPeriodInv
<1>1. UNCHANGED <<half, offset, uif, ccif, half_periods, on_interrupt>>
  BY DEF ReadPeriods, ReadTimer, tickVars
<1>2. CountInv' /\ AssertsHold'
  BY <1>1 DEF CountInv, AssertsHold, Uncounted
<1>3. CASE ReadPeriods
  <2>1. CounterTypeOK' /\ ReadInv'
    BY <1>1, <1>3 DEF ReadPeriods, CounterTypeOK, ReadInv
  <2> QED BY <1>2, <2>1
<1>4. CASE ReadTimer
  <2>1. result' \in 0..CounterSize * Half - 1
    <3>1. CounterSize * Half \in Nat \ {0}
      BY SizeAssumption
    <3>2. half * Half + offset \in Nat
      BY SizeAssumption DEF CounterTypeOK
    <3>3. result' = (half * Half + offset) % (CounterSize * Half)
      BY <1>4, ReadIsTime DEF ReadTimer
    <3> HIDE DEF HalfPeriodInv
    <3>4. PICK D \in Nat \ {0} : D = CounterSize * Half
      BY <3>1
    <3>5. (half * Half + offset) % D \in 0..D-1
      BY <3>2
    <3> QED BY <3>3, <3>4, <3>5
  <2>2. CounterTypeOK' /\ ReadInv'
    BY <1>1, <1>4, <2>1 DEF ReadTimer, CounterTypeOK, ReadInv
  <2> QED BY <1>2, <2>2
<1> QED BY <1>3, <1>4

-----------------------------------------------------------------------------
\* The invariant of the timer, its counter and its readers.
THEOREM HalfPeriodInvariant == CounterSpec => []HalfPeriodInv
<1>1. InitCounter => HalfPeriodInv
  BY HalfPeriodInit
<1>2. HalfPeriodInv /\ [NextCounter]_counterVars => HalfPeriodInv'
  <2> SUFFICES ASSUME HalfPeriodInv, [NextCounter]_counterVars PROVE HalfPeriodInv'
    OBVIOUS
  <2>1. CASE UNCHANGED counterVars
    BY <2>1 DEF counterVars, tickVars, readVars, HalfPeriodInv, CounterTypeOK, CountInv, ReadInv,
                AssertsHold, Uncounted
  <2> QED BY <2>1, TimerTickKeeps, OnInterruptKeeps, ReadKeeps DEF NextCounter
<1> QED BY <1>1, <1>2, PTL DEF CounterSpec

\* Neither assertion of on_interrupt fails.
THEOREM NoInterruptMissed == CounterSpec => []AssertsHold
<1>1. HalfPeriodInv => AssertsHold
  BY DEF HalfPeriodInv
<1> QED BY <1>1, HalfPeriodInvariant, PTL

\* calculate_now is the clock: ticks are its ticks, the read of the timer is
\* its look, and all other steps are invisible.
THEOREM CalculateNowIsClock == CounterSpec => ImplementsClock
<1> DEFINE D == CounterSize * Half
           t == half * Half + offset
<1>1. InitCounter => TheClock!Init
  <2> SUFFICES ASSUME InitCounter PROVE TheClock!Init
    OBVIOUS
  <2>1. t \in Nat
    BY SizeAssumption DEF InitCounter
  <2> QED BY <2>1 DEF InitCounter, TheClock!Init
<1>2. HalfPeriodInv /\ [NextCounter]_counterVars => [TheClock!Pass \/ TheClock!Now]_<<t, result>>
  <2> SUFFICES ASSUME HalfPeriodInv, [NextCounter]_counterVars
               PROVE  [TheClock!Pass \/ TheClock!Now]_<<t, result>>
    OBVIOUS
  <2>1. half \in Nat /\ offset \in 0..Half-1 /\ Half \in Nat
    BY SizeAssumption DEF HalfPeriodInv, CounterTypeOK
  <2>2. CASE TimerTick
    <3>1. CASE offset' = offset + 1 /\ UNCHANGED half
      <4>1. half * Half \in Nat
        BY <2>1
      <4>2. t' = t + 1
        BY <2>1, <3>1, <4>1
      <4> QED BY <2>2, <4>2 DEF TimerTick, readVars, TheClock!Pass
    <3>2. CASE offset = Half - 1 /\ half' = half + 1 /\ offset' = 0
      <4>1. (half + 1) * Half = half * Half + Half /\ half * Half \in Nat
        BY <2>1
      <4>2. t' = t + 1
        BY <2>1, <3>2, <4>1
      <4> QED BY <2>2, <4>2 DEF TimerTick, readVars, TheClock!Pass
    <3> QED BY <2>2, <3>1, <3>2 DEF TimerTick
  <2>3. CASE ReadTimer
    <3>1. result' = t % D
      BY <2>3, ReadIsTime DEF ReadTimer, HalfPeriodInv
    <3>2. t' = t
      BY <2>3 DEF ReadTimer, tickVars
    <3> QED BY <3>1, <3>2 DEF TheClock!Now
  <2>4. CASE OnInterrupt \/ ReadPeriods \/ UNCHANGED counterVars
    <3>1. UNCHANGED <<half, offset, result>>
      BY <2>4 DEF OnInterrupt, TestOverflow, CountOverflow, TestHalf, CountHalf,
                  ReadPeriods, counterVars, tickVars, readVars
    <3> QED BY <3>1
  <2> QED BY <2>2, <2>3, <2>4 DEF NextCounter
<1> QED BY <1>1, <1>2, HalfPeriodInvariant, PTL DEF CounterSpec, ImplementsClock, TheClock!Spec

-----------------------------------------------------------------------------
(***************************************************************************)
(* The timer queue                                                         *)
(***************************************************************************)

\* The time from now to an instant, negative when it has passed.
TimeTo(x) ==
  LET d == (x - now) % Modulus
  IN  IF d < Modulus \div 2 THEN d ELSE d - Modulus

\* A link is popped when its time has come, and its waker is in the hand of
\* the handler or has been used.
PopInv ==
  /\ handler = "wake" <=> waking # None
  /\ \A t \in Tasks :
       /\ pc[t] = "idle" => link[t] = "none"
       /\ link[t] = "popped" => left[t] <= 0
       /\ pc[t] \in {"waiting", "pend"} /\ link[t] = "popped" => woken[t] \/ waking = t

\* There is a head that no interrupt has been requested for.
Unannounced == list # << >> /\ ~irq /\ \A t \in Tasks : pc[t] # "pend"

\* The compare register, or the instant the handler is about to write to it,
\* is not after such a head.
AwaitInv ==
  /\ handler \in {"arm", "recheck"} => TimeTo(release) \in -MaxLate..MaxDelay+1
  /\ Unannounced =>
       /\ handler = "off" =>
            compare # None /\ (compare - now) % Modulus \in 1..left[Head(list)]
       /\ handler \in {"arm", "recheck"} => TimeTo(release) <= left[Head(list)]
       /\ handler = "recheck" /\ TimeTo(release) > 0 => compare = release
       /\ handler # "disable"

DelayInv == TimerInv /\ PopInv /\ AwaitInv

-----------------------------------------------------------------------------
(***************************************************************************)
(* The clock                                                               *)
(***************************************************************************)
HalfClock == Modulus \div 2

LEMMA HalfOfClock ==
  /\ HalfClock \in Nat /\ Modulus \in Nat \ {0} /\ Modulus = 2 * HalfClock
  /\ MaxDelay \in Nat /\ MaxLate \in Nat /\ MaxDelay + 1 + MaxLate < HalfClock
  /\ Ticks = 0..Modulus-1
<1>1. /\ Modulus \in Nat /\ Modulus % 2 = 0 /\ MaxDelay \in Nat /\ MaxLate \in Nat
      /\ MaxDelay + 1 + MaxLate < HalfClock
  BY ClockAssumption DEF HalfClock
<1>2. HalfClock \in Nat /\ Modulus = 2 * HalfClock
  BY <1>1 DEF HalfClock
<1> QED BY <1>1, <1>2 DEF Ticks

\* A number that is off the clock by one round at most.
LEMMA ModNear ==
  ASSUME NEW D \in Nat \ {0}, NEW z \in -D..2*D-1
  PROVE  z % D = IF z < 0 THEN z + D ELSE IF z < D THEN z ELSE z - D
<1>1. CASE z < 0
  <2>1. z + D \in 0..D-1 /\ z = (-1) * D + (z + D)
    BY <1>1
  <2>2. \A r \in 0..D-1 : ((-1) * D + r) % D = r
    BY Z3
  <2> QED BY <2>1, <2>2, <1>1
<1>2. CASE z \in 0..D-1
  BY <1>2
<1>3. CASE z >= D
  <2>1. z - D \in 0..D-1 /\ z = 1 * D + (z - D)
    BY <1>3
  <2>2. \A r \in 0..D-1 : (1 * D + r) % D = r
    BY Z3
  <2> QED BY <2>1, <2>2, <1>3
<1> QED BY <1>1, <1>2, <1>3

\* The instant that is x ticks from now.
Instant(x) == (now + x) % Modulus

LEMMA InstantNear ==
  ASSUME now \in Ticks, NEW x \in -HalfClock..HalfClock
  PROVE  /\ Instant(x) \in Ticks
         /\ Instant(x) = IF now + x < 0 THEN now + x + Modulus
                         ELSE IF now + x < Modulus THEN now + x ELSE now + x - Modulus
<1>1. now + x \in -Modulus..2*Modulus-1 /\ now \in 0..Modulus-1 /\ Modulus \in Nat \ {0}
  BY HalfOfClock
<1>2. Instant(x) = IF now + x < 0 THEN now + x + Modulus
                   ELSE IF now + x < Modulus THEN now + x ELSE now + x - Modulus
  <2> DEFINE z == now + x
  <2> HIDE DEF z
  <2>1. z \in -Modulus..2*Modulus-1
    BY <1>1 DEF z
  <2>2. z % Modulus = IF z < 0 THEN z + Modulus ELSE IF z < Modulus THEN z ELSE z - Modulus
    BY <2>1, <1>1, ModNear
  <2>3. Instant(x) = z % Modulus
    BY Zenon DEF Instant, z
  <2>4. z = now + x
    BY DEF z
  <2>5. now \in Int /\ x \in Int /\ Modulus \in Int /\ z \in Int
    BY <1>1, <2>1, HalfOfClock
  <2> QED BY <2>2, <2>3, <2>4, <2>5
<1>3. Instant(x) \in 0..Modulus-1
  BY <1>1, <1>2
<1> QED BY <1>2, <1>3, HalfOfClock

LEMMA Difference ==
  ASSUME NEW a \in Ticks, NEW b \in Ticks
  PROVE  /\ a \in 0..Modulus-1 /\ b \in 0..Modulus-1
         /\ (a - b) % Modulus = IF a < b THEN a - b + Modulus ELSE a - b
<1>1. /\ Modulus \in Nat \ {0} /\ a \in 0..Modulus-1 /\ b \in 0..Modulus-1
      /\ a - b \in -Modulus..2*Modulus-1 /\ a - b < Modulus
  BY HalfOfClock
<1> DEFINE z == a - b
<1> HIDE DEF z
<1>2. z \in -Modulus..2*Modulus-1 /\ z < Modulus
  BY <1>1 DEF z
<1>3. z % Modulus = IF z < 0 THEN z + Modulus ELSE z
  BY <1>1, <1>2, ModNear
<1> QED BY <1>1, <1>3 DEF z

\* Instants that are near compare as the times do, with each other
\* (tick_type.rs:14-35) and with the clock.
LEMMA LessIsEarlier ==
  ASSUME now \in Ticks, NEW x \in -MaxLate..MaxDelay+1, NEW y \in -MaxLate..MaxDelay+1
  PROVE  Less(Instant(x), Instant(y)) <=> x < y
<1>1. x \in -HalfClock..HalfClock /\ y \in -HalfClock..HalfClock /\ x - y \in -HalfClock+1..HalfClock-1
  BY HalfOfClock
<1>2. /\ Instant(x) \in Ticks /\ Instant(y) \in Ticks
      /\ Instant(x) = IF now + x < 0 THEN now + x + Modulus
                      ELSE IF now + x < Modulus THEN now + x ELSE now + x - Modulus
      /\ Instant(y) = IF now + y < 0 THEN now + y + Modulus
                      ELSE IF now + y < Modulus THEN now + y ELSE now + y - Modulus
  BY <1>1, InstantNear
<1>3. (Instant(x) - Instant(y)) % Modulus =
        IF Instant(x) < Instant(y) THEN Instant(x) - Instant(y) + Modulus
        ELSE Instant(x) - Instant(y)
  BY <1>2, Difference
<1>4. /\ now \in 0..Modulus-1 /\ HalfClock \in Nat /\ Modulus = 2 * HalfClock
      /\ x \in Int /\ y \in Int
  BY HalfOfClock
<1>5. x < y => (Instant(x) - Instant(y)) % Modulus >= HalfClock
  BY <1>1, <1>2, <1>3, <1>4
<1>6. ~(x < y) => ~((Instant(x) - Instant(y)) % Modulus >= HalfClock)
  BY <1>1, <1>2, <1>3, <1>4
<1> QED BY <1>5, <1>6 DEF Less, HalfClock

LEMMA NowIsInstant ==
  ASSUME now \in Ticks
  PROVE  now = Instant(0) /\ 0 \in -MaxLate..MaxDelay+1
<1>1. 0 \in -HalfClock..HalfClock /\ now \in 0..Modulus-1 /\ Modulus \in Nat
  BY HalfOfClock
<1>2. now = Instant(0)
  BY <1>1, InstantNear
<1> QED BY <1>2, HalfOfClock

LEMMA AtLeastIsOver ==
  ASSUME now \in Ticks, NEW x \in -MaxLate..MaxDelay+1
  PROVE  IsAtLeast(now, Instant(x)) <=> x <= 0
<1>1. Less(now, Instant(x)) <=> 0 < x
  BY NowIsInstant, LessIsEarlier
<1>2. x \in Int
  BY HalfOfClock
<1> QED BY <1>1, <1>2 DEF IsAtLeast

\* TimeTo is the inverse of Instant.
LEMMA TimeOfInstant ==
  ASSUME now \in Ticks, NEW x \in -MaxLate..MaxDelay+1
  PROVE  TimeTo(Instant(x)) = x
<1>1. x \in -HalfClock..HalfClock /\ x \in -HalfClock+1..HalfClock-1 /\ x \in Int
  BY HalfOfClock
<1>2. /\ Instant(x) \in Ticks
      /\ Instant(x) = IF now + x < 0 THEN now + x + Modulus
                      ELSE IF now + x < Modulus THEN now + x ELSE now + x - Modulus
  BY <1>1, InstantNear
<1>3. (Instant(x) - now) % Modulus =
        IF Instant(x) < now THEN Instant(x) - now + Modulus ELSE Instant(x) - now
  BY <1>2, Difference
<1>4. now \in 0..Modulus-1 /\ HalfClock \in Nat /\ Modulus = 2 * HalfClock
  BY HalfOfClock
<1>5. (Instant(x) - now) % Modulus = IF x < 0 THEN x + Modulus ELSE x
  BY <1>1, <1>2, <1>3, <1>4
<1> QED BY <1>1, <1>4, <1>5 DEF TimeTo, HalfClock

LEMMA TimeToInstant ==
  ASSUME now \in Ticks, NEW a \in Ticks
  PROVE  /\ TimeTo(a) \in -HalfClock..HalfClock-1 /\ a = Instant(TimeTo(a))
         /\ (a - now) % Modulus \in 0..HalfClock-1 <=> TimeTo(a) >= 0
         /\ TimeTo(a) >= 0 => (a - now) % Modulus = TimeTo(a)
<1> DEFINE d == (a - now) % Modulus
           x == TimeTo(a)
<1>1. /\ now \in 0..Modulus-1 /\ a \in 0..Modulus-1
      /\ HalfClock \in Nat /\ Modulus = 2 * HalfClock
      /\ d = IF a < now THEN a - now + Modulus ELSE a - now
  BY HalfOfClock, Difference
<1>2. x = IF d < HalfClock THEN d ELSE d - Modulus
  BY DEF TimeTo, HalfClock
<1>3. d \in 0..Modulus-1
  BY <1>1
<1> HIDE DEF d, x
<1>4. x \in -HalfClock..HalfClock-1 /\ (d \in 0..HalfClock-1 <=> x >= 0) /\ (x >= 0 => d = x)
  BY <1>1, <1>2, <1>3
<1>5. Instant(x) = IF now + x < 0 THEN now + x + Modulus
                   ELSE IF now + x < Modulus THEN now + x ELSE now + x - Modulus
  BY <1>1, <1>4, InstantNear
<1>6. a = Instant(x)
  BY <1>1, <1>2, <1>5
<1> QED BY <1>4, <1>6 DEF d, x

\* A tick of the clock takes one from every time.
LEMMA TickInstant ==
  ASSUME now \in Ticks, now' = WrappingAdd(now, 1), NEW x \in -HalfClock+1..HalfClock
  PROVE  /\ now' \in Ticks /\ now' = Instant(1)
         /\ Instant(x) = (now' + (x - 1)) % Modulus
<1>1. /\ now \in 0..Modulus-1 /\ HalfClock \in Nat /\ Modulus = 2 * HalfClock /\ Modulus \in Nat \ {0}
      /\ 1 \in -HalfClock..HalfClock /\ x \in -HalfClock..HalfClock /\ x \in Int
  BY HalfOfClock
<1>2. now' = Instant(1)
  BY DEF WrappingAdd, Instant
<1>3. now' \in Ticks /\ now' = IF now + 1 < Modulus THEN now + 1 ELSE now + 1 - Modulus
  BY <1>1, <1>2, InstantNear
<1>4. now' \in 0..Modulus-1 /\ now' + (x - 1) \in -Modulus..2*Modulus-1
  BY <1>1, <1>3, HalfOfClock
<1>5. (now' + (x - 1)) % Modulus =
         IF now' + (x - 1) < 0 THEN now' + (x - 1) + Modulus
         ELSE IF now' + (x - 1) < Modulus THEN now' + (x - 1) ELSE now' + (x - 1) - Modulus
  <2> DEFINE z == now' + (x - 1)
  <2> HIDE DEF z
  <2>1. z \in -Modulus..2*Modulus-1
    BY <1>4 DEF z
  <2>2. z % Modulus = IF z < 0 THEN z + Modulus ELSE IF z < Modulus THEN z ELSE z - Modulus
    BY <2>1, <1>1, ModNear
  <2>3. (now' + (x - 1)) % Modulus = z % Modulus
    BY Zenon DEF z
  <2>4. z = now' + (x - 1)
    BY DEF z
  <2>5. z % Modulus =
         IF now' + (x - 1) < 0 THEN now' + (x - 1) + Modulus
         ELSE IF now' + (x - 1) < Modulus THEN now' + (x - 1) ELSE now' + (x - 1) - Modulus
    BY <2>2, <2>4, <1>1, <1>4
  <2> QED BY <2>3, <2>5, Zenon
<1>6. Instant(x) = IF now + x < 0 THEN now + x + Modulus
                   ELSE IF now + x < Modulus THEN now + x ELSE now + x - Modulus
  BY <1>1, InstantNear
<1>7. Instant(x) = (now' + (x - 1)) % Modulus
  BY <1>1, <1>3, <1>5, <1>6
<1> QED BY <1>2, <1>3, <1>7

\* One more tick.
LEMMA InstantNext ==
  ASSUME now \in Ticks, NEW x \in -HalfClock..HalfClock-1
  PROVE  (Instant(x) + 1) % Modulus = Instant(x + 1)
<1>1. /\ now \in 0..Modulus-1 /\ HalfClock \in Nat /\ Modulus = 2 * HalfClock /\ Modulus \in Nat \ {0}
      /\ x \in -HalfClock..HalfClock /\ x + 1 \in -HalfClock..HalfClock /\ x \in Int
  BY HalfOfClock
<1>2. /\ Instant(x) \in Ticks
      /\ Instant(x) = IF now + x < 0 THEN now + x + Modulus
                      ELSE IF now + x < Modulus THEN now + x ELSE now + x - Modulus
  BY <1>1, InstantNear
<1>3. Instant(x + 1) = IF now + (x + 1) < 0 THEN now + (x + 1) + Modulus
                       ELSE IF now + (x + 1) < Modulus THEN now + (x + 1)
                       ELSE now + (x + 1) - Modulus
  BY <1>1, InstantNear
<1> DEFINE z == Instant(x) + 1
<1> HIDE DEF z
<1>4. z = Instant(x) + 1 /\ z \in -Modulus..2*Modulus-1
  BY <1>1, <1>2, HalfOfClock DEF z
<1>5. z % Modulus = IF z < 0 THEN z + Modulus ELSE IF z < Modulus THEN z ELSE z - Modulus
  BY <1>1, <1>4, ModNear
<1>6. z % Modulus = Instant(x + 1)
  BY <1>1, <1>2, <1>3, <1>4, <1>5
<1> QED BY <1>6, Zenon DEF z

-----------------------------------------------------------------------------
(***************************************************************************)
(* Tasks, links and times                                                  *)
(***************************************************************************)
LEMMA TimesOfTasks ==
  ASSUME TimerInv
  PROVE  /\ now \in Ticks
         /\ \A t \in Tasks : left[t] \in -MaxLate..MaxDelay+1 /\ left[t] \in Int
         /\ \A t \in Tasks : pc[t] # "idle" =>
              /\ instant[t] = Instant(left[t])
              /\ IsAtLeast(now, instant[t]) <=> left[t] <= 0
         /\ \A t, u \in Tasks : pc[t] # "idle" /\ pc[u] # "idle" =>
              (Less(instant[t], instant[u]) <=> left[t] < left[u])
<1>1. now \in Ticks /\ \A t \in Tasks : left[t] \in -MaxLate..MaxDelay+1
  BY DEF TimerInv, TypeOK
<1>2. \A t \in Tasks : pc[t] # "idle" => instant[t] = Instant(left[t])
  BY DEF TimerInv, InstantIsTime, Instant
<1>3. \A t \in Tasks : left[t] \in Int
  BY <1>1, HalfOfClock
<1>4. \A t \in Tasks : IsAtLeast(now, Instant(left[t])) <=> left[t] <= 0
  BY <1>1, AtLeastIsOver
<1>5. \A t, u \in Tasks : Less(Instant(left[t]), Instant(left[u])) <=> left[t] < left[u]
  BY <1>1, LessIsEarlier
<1> QED BY <1>1, <1>2, <1>3, <1>4, <1>5

\* The elements of the list, and its head.
LEMMA ListedTasks ==
  ASSUME TimerInv
  PROVE  /\ list \in Seq(Tasks) /\ DOMAIN list = 1..Len(list) /\ Len(list) \in Nat
         /\ Range(list) = ToSet(list)
         /\ \A i \in DOMAIN list :
              /\ list[i] \in Tasks /\ list[i] \in ToSet(list)
              /\ link[list[i]] = "queued" /\ pc[list[i]] \notin {"idle", "insert"}
         /\ list # << >> =>
              /\ 1 \in DOMAIN list /\ Head(list) = list[1] /\ Head(list) \in Tasks
              /\ Head(list) \in ToSet(list)
              /\ link[Head(list)] = "queued" /\ pc[Head(list)] \notin {"idle", "insert"}
<1>1. list \in Seq(Tasks)
  BY DEF TimerInv, TypeOK
<1>2. DOMAIN list = 1..Len(list) /\ Len(list) \in Nat
  BY <1>1, LenProperties
<1>3. Range(list) = ToSet(list)
  BY DEF Range, ToSet
<1>4. \A i \in DOMAIN list : list[i] \in Tasks /\ list[i] \in ToSet(list)
  BY <1>1, <1>2, ElementOfSeq DEF ToSet
<1>5. \A i \in DOMAIN list : link[list[i]] = "queued" /\ pc[list[i]] \notin {"idle", "insert"}
  BY <1>4 DEF TimerInv, LinkWithinDelay
<1>6. list # << >> => 1 \in DOMAIN list /\ Head(list) = list[1]
  BY <1>1, <1>2, EmptySeq
<1> QED BY <1>1, <1>2, <1>3, <1>4, <1>5, <1>6

\* The list stays, and so do the times of those in it.
LEMMA SameOrder ==
  ASSUME TimerInv, list' = list, \A u \in ToSet(list) : left'[u] = left[u]
  PROVE  SortedByTime'
BY ListedTasks DEF TimerInv, SortedByTime

\* The head stays or becomes a later one, or an interrupt has been requested.
LEMMA SameAwait ==
  ASSUME AwaitInv, UNCHANGED <<now, handler, release, compare>>,
         Unannounced' => /\ Unannounced
                         /\ left[Head(list)] \in Int /\ left'[Head(list')] \in Int
                         /\ left[Head(list)] <= left'[Head(list')],
         now \in Ticks, release \in Ticks, compare \in Ticks \cup {None}
  PROVE  AwaitInv'
<1>1. TimeTo(release)' = TimeTo(release)
  BY DEF TimeTo
<1>2. TimeTo(release) \in Int
  BY TimeToInstant, HalfOfClock
<1>3. Unannounced' /\ handler = "off" =>
        compare # None /\ (compare - now) % Modulus \in 1..left'[Head(list')]
  BY DEF AwaitInv
<1>4. Unannounced' /\ handler \in {"arm", "recheck"} =>
        TimeTo(release) <= left'[Head(list')]
  BY <1>2 DEF AwaitInv
<1> QED BY <1>1, <1>3, <1>4 DEF AwaitInv

LEMMA SameTime ==
  ASSUME TimerInv, now' = now,
         \A t \in Tasks : pc'[t] # "idle" =>
           instant'[t] = Instant(left'[t]) \/
           (pc[t] # "idle" /\ instant'[t] = instant[t] /\ left'[t] = left[t])
  PROVE  InstantIsTime'
BY DEF TimerInv, InstantIsTime, Instant

LEMMA DelayInit == Init => DelayInv
<1> SUFFICES ASSUME Init PROVE DelayInv
  OBVIOUS
<1> USE DEF Init
<1>1. TypeOK
  <2>1. 0 \in Ticks /\ 0 \in -MaxLate..MaxDelay+1
    BY HalfOfClock
  <2>2. << >> \in Seq(Tasks)
    BY EmptySeq
  <2> QED BY <2>1, <2>2 DEF TypeOK
<1>2. DOMAIN list = {} /\ ToSet(list) = {}
  BY EmptySeq, LenProperties DEF ToSet
<1>3. LinkWithinDelay /\ SortedByTime /\ InstantIsTime
  BY <1>2 DEF LinkWithinDelay, SortedByTime, InstantIsTime, IsInjective
<1>4. PopInv /\ AwaitInv
  BY DEF PopInv, AwaitInv, Unannounced
<1> QED BY <1>1, <1>3, <1>4 DEF DelayInv, TimerInv

-----------------------------------------------------------------------------
(***************************************************************************)
(* The steps of a delay                                                    *)
(***************************************************************************)
LEMMA StartKeeps ==
  ASSUME DelayInv, NEW t \in Tasks, NEW x \in -MaxLate..MaxDelay+1,
         Start(t, Instant(x), x)
  PROVE  DelayInv'
<1>0. /\ pc[t] = "idle"
      /\ instant' = [instant EXCEPT ![t] = Instant(x)]
      /\ left' = [left EXCEPT ![t] = x]
      /\ woken' = [woken EXCEPT ![t] = TRUE]
      /\ pc' = [pc EXCEPT ![t] = "waiting"]
      /\ UNCHANGED <<now, list, link, irq, compare, handler, release, waking>>
  BY DEF Start, Goto, timerVars, handlerVars
<1>1. TypeOK /\ LinkWithinDelay /\ SortedByTime /\ InstantIsTime /\ PopInv /\ AwaitInv
  BY DEF DelayInv, TimerInv
<1>2. t \notin ToSet(list)
  BY <1>0, <1>1 DEF LinkWithinDelay
<1>3. Instant(x) \in Ticks
  <2>1. x \in -HalfClock..HalfClock /\ now \in Ticks
    BY <1>1, HalfOfClock DEF TypeOK
  <2> QED BY <2>1, InstantNear
<1>4. TypeOK'
  BY <1>0, <1>1, <1>3 DEF TypeOK
<1>5. /\ instant'[t] = Instant(x) /\ left'[t] = x /\ woken'[t] /\ pc'[t] = "waiting"
      /\ \A u \in Tasks \ {t} : /\ instant'[u] = instant[u] /\ left'[u] = left[u]
                                /\ woken'[u] = woken[u] /\ pc'[u] = pc[u]
  BY <1>0, <1>1 DEF TypeOK
<1>6. LinkWithinDelay'
  BY <1>0, <1>1, <1>2, <1>5 DEF LinkWithinDelay
<1>7. SortedByTime'
  BY <1>0, <1>2, <1>5, SameOrder, ListedTasks DEF DelayInv, TimerInv, SortedByTime
<1>8. InstantIsTime'
  BY <1>0, <1>5, SameTime DEF DelayInv
<1>9. PopInv'
  BY <1>0, <1>1, <1>5 DEF PopInv
<1>10. AwaitInv'
  <2>1. Unannounced' => Unannounced
    BY <1>0, <1>5 DEF Unannounced
  <2>2. list # << >> => Head(list) \in Tasks /\ Head(list) # t
    BY <1>2, ListedTasks DEF DelayInv
  <2>3. list # << >> => left'[Head(list)] = left[Head(list)] /\ left[Head(list)] \in Int
    BY <2>2, <1>5, TimesOfTasks DEF DelayInv
  <2> QED BY <2>1, <2>3, <1>0, <1>1, SameAwait DEF Unannounced, TypeOK
<1> QED BY <1>4, <1>6, <1>7, <1>8, <1>9, <1>10 DEF DelayInv, TimerInv

LEMMA DelayKeeps ==
  ASSUME DelayInv, NEW t \in Tasks, NEW d \in 0..MaxDelay, Delay(t, d)
  PROVE  DelayInv'
<1>1. /\ now \in Ticks /\ now \in 0..Modulus-1 /\ d \in -HalfClock..HalfClock-1 /\ d \in -HalfClock..HalfClock
      /\ d \in -MaxLate..MaxDelay+1 /\ d + 1 \in -MaxLate..MaxDelay+1 /\ d \in 0..HalfClock-1
      /\ HalfClock \in Nat /\ Modulus = 2 * HalfClock
  BY HalfOfClock DEF DelayInv, TimerInv, TypeOK
<1>2. WrappingAdd(now, d) = Instant(d)
  BY DEF WrappingAdd, Instant
<1>3. WrappingAdd(Instant(d), 1) = Instant(d + 1)
  BY <1>1, InstantNext DEF WrappingAdd
<1>4. now = Instant(d) <=> d = 0
  <2>1. Instant(d) = IF now + d < 0 THEN now + d + Modulus
                     ELSE IF now + d < Modulus THEN now + d ELSE now + d - Modulus
    BY <1>1, InstantNear
  <2> QED BY <2>1, <1>1
<1>5. CASE d = 0
  <2>1. Start(t, Instant(0), 0)
    BY <1>2, <1>4, <1>5 DEF Delay
  <2> QED BY <2>1, <1>1, <1>5, StartKeeps
<1>6. CASE d # 0
  <2>1. Start(t, Instant(d + 1), d + 1)
    BY <1>2, <1>3, <1>4, <1>6 DEF Delay
  <2> QED BY <2>1, <1>1, StartKeeps
<1> QED BY <1>5, <1>6

LEMMA DelayUntilKeeps ==
  ASSUME DelayInv, NEW t \in Tasks, NEW d \in -MaxLate..MaxDelay, DelayUntil(t, d)
  PROVE  DelayInv'
<1>1. d \in -MaxLate..MaxDelay+1
  BY HalfOfClock
<1>2. Start(t, Instant(d), d)
  BY DEF DelayUntil, WrappingAdd, Instant
<1> QED BY <1>1, <1>2, StartKeeps

\* A task that still has a link when it is polled is woken again: a link that
\* was popped has come to its time.
LEMMA PollKeeps ==
  ASSUME DelayInv, NEW t \in Tasks, PollDelay(t)
  PROVE  DelayInv'
<1>1. TypeOK /\ LinkWithinDelay /\ SortedByTime /\ InstantIsTime /\ PopInv /\ AwaitInv
  BY DEF DelayInv, TimerInv
<1>0. /\ pc[t] = "waiting"
      /\ woken' = [woken EXCEPT ![t] = FALSE]
      /\ UNCHANGED <<now, list, instant, link, left, irq, compare, handler, release, waking>>
  BY DEF PollDelay, timerVars, handlerVars
<1>2. \/ left[t] <= 0 /\ pc' = [pc EXCEPT ![t] = "ready"]
      \/ link[t] = "none" /\ pc' = [pc EXCEPT ![t] = "insert"]
      \/ ~(left[t] <= 0) /\ pc' = pc
  BY <1>0, TimesOfTasks DEF PollDelay, Goto, DelayInv
<1>3. TypeOK'
  BY <1>0, <1>1, <1>2 DEF TypeOK
<1>4. /\ ~woken'[t] /\ \A u \in Tasks \ {t} : woken'[u] = woken[u] /\ pc'[u] = pc[u]
      /\ pc'[t] \in {"waiting", "ready", "insert"}
      /\ pc'[t] = "insert" => link[t] = "none"
      /\ pc'[t] = "waiting" => ~(left[t] <= 0)
  BY <1>0, <1>1, <1>2 DEF TypeOK
<1>5. LinkWithinDelay'
  BY <1>0, <1>1, <1>4 DEF LinkWithinDelay
<1>6. SortedByTime'
  BY <1>0, <1>1 DEF SortedByTime
<1>7. InstantIsTime'
  BY <1>0, <1>4, SameTime DEF DelayInv
<1>8. PopInv'
  BY <1>0, <1>1, <1>4 DEF PopInv
<1>9. AwaitInv'
  <2>1. Unannounced' => Unannounced
    BY <1>0, <1>4 DEF Unannounced
  <2>2. list # << >> => left[Head(list)] \in Int
    BY ListedTasks, TimesOfTasks DEF DelayInv
  <2> QED BY <2>1, <2>2, <1>0, <1>1, SameAwait DEF Unannounced, TypeOK
<1> QED BY <1>3, <1>5, <1>6, <1>7, <1>8, <1>9 DEF DelayInv, TimerInv

\* The link goes before the first one that is later.  A new head is announced
\* by the task; with another place the head stays.
LEMMA InsertKeeps ==
  ASSUME DelayInv, NEW t \in Tasks, Insert(t)
  PROVE  DelayInv'
<1>1. TypeOK /\ LinkWithinDelay /\ SortedByTime /\ InstantIsTime /\ PopInv /\ AwaitInv
  BY DEF DelayInv, TimerInv
<1>2. PICK i \in 1..Len(list)+1 :
        /\ IsPlace(t, i)
        /\ list' = InsertAt(list, i, t)
        /\ pc' = [pc EXCEPT ![t] = IF i = 1 THEN "pend" ELSE "waiting"]
  BY DEF Insert, Goto
<1>0. /\ pc[t] = "insert"
      /\ link' = [link EXCEPT ![t] = "queued"]
      /\ UNCHANGED <<now, instant, woken, left, irq, compare, handler, release, waking>>
  BY DEF Insert, timerVars, handlerVars
<1>3. t \notin ToSet(list) /\ t \notin Range(list)
  BY <1>0, <1>1, ListedTasks DEF LinkWithinDelay, DelayInv
<1>4. /\ list \in Seq(Tasks) /\ DOMAIN list = 1..Len(list) /\ Len(list) \in Nat
      /\ i \in Int
  BY ListedTasks DEF DelayInv
<1>5. /\ list' \in Seq(Tasks) /\ Len(list') = Len(list) + 1
      /\ list'[i] = t
      /\ \A j \in 1..(i - 1) : list'[j] = list[j]
      /\ \A j \in (i + 1)..(Len(list) + 1) : list'[j] = list[j - 1]
  <2> DEFINE l == InsertAt(list, i, t)
  <2>1. /\ l \in Seq(Tasks) /\ Len(l) = Len(list) + 1
        /\ l[i] = t
        /\ \A j \in 1..(i - 1) : l[j] = list[j]
        /\ \A j \in (i + 1)..(Len(list) + 1) : l[j] = list[j - 1]
    <3>1. l \in Seq(Tasks)
      BY <1>4, InsertAtPlaces
    <3>2. Len(l) = Len(list) + 1
      BY <1>4, InsertAtPlaces
    <3>3. l[i] = t
      BY <1>4, InsertAtPlaces
    <3>4. \A j \in 1..(i - 1) : l[j] = list[j]
      BY <1>4, InsertAtPlaces
    <3>5. \A j \in (i + 1)..(Len(list) + 1) : l[j] = list[j - 1]
      BY <1>4, InsertAtPlaces
    <3> QED BY <3>1, <3>2, <3>3, <3>4, <3>5
  <2>2. list' = l
    BY <1>2
  <2> HIDE DEF l
  <2> QED BY <2>1, <2>2
<1>6. ToSet(list') = ToSet(list) \cup {t} /\ IsInjective(list')
  <2>1. Range(list') = Range(list) \cup {t} /\ IsInjective(list')
    BY <1>1, <1>2, <1>3, <1>4, InsertAtElements DEF LinkWithinDelay
  <2> QED BY <2>1 DEF Range, ToSet
<1>7. DOMAIN list' = 1..(Len(list) + 1)
  BY <1>5, LenProperties
<1>8. /\ link'[t] = "queued" /\ pc'[t] = (IF i = 1 THEN "pend" ELSE "waiting")
      /\ \A u \in Tasks \ {t} : link'[u] = link[u] /\ pc'[u] = pc[u]
  BY <1>0, <1>1, <1>2 DEF TypeOK
<1>9. TypeOK'
  BY <1>0, <1>1, <1>2, <1>5 DEF TypeOK
<1>10. LinkWithinDelay'
  BY <1>1, <1>6, <1>8 DEF LinkWithinDelay
\* Those before t end no later than t, those after it later.
<1>11. /\ \A j \in 1..(i - 1) : left[list[j]] <= left[t]
       /\ \A j \in i..Len(list) : left[t] < left[list[j]]
  <2>1. \A j \in 1..Len(list) : list[j] \in Tasks /\ pc[list[j]] # "idle"
    BY <1>4, ListedTasks DEF DelayInv
  <2>2. \A j \in 1..Len(list) :
          Less(instant[t], instant[list[j]]) <=> left[t] < left[list[j]]
    BY <2>1, <1>0, TimesOfTasks DEF DelayInv
  <2>3. left[t] \in Int /\ \A j \in 1..Len(list) : left[list[j]] \in Int
    BY <2>1, TimesOfTasks DEF DelayInv
  <2>4. ASSUME NEW j \in 1..(i - 1) PROVE left[list[j]] <= left[t]
    <3>1. j \in 1..Len(list) /\ ~Less(instant[t], instant[list[j]])
      BY <1>2, <1>4 DEF IsPlace
    <3> QED BY <3>1, <2>2, <2>3
  <2>5. ASSUME NEW j \in i..Len(list) PROVE left[t] < left[list[j]]
    <3>1. i \in 1..Len(list) /\ j \in 1..Len(list) /\ i <= j
      BY <1>4
    <3>2. left[t] < left[list[i]]
      BY <3>1, <2>2, <1>2 DEF IsPlace
    <3>3. i = j \/ left[list[i]] <= left[list[j]]
      BY <3>1, <1>1, <1>4 DEF SortedByTime
    <3> QED BY <3>1, <3>2, <3>3, <2>3
  <2> QED BY <2>4, <2>5
<1>12. SortedByTime'
  <2> SUFFICES ASSUME NEW j \in 1..(Len(list) + 1), NEW k \in 1..(Len(list) + 1), j < k
               PROVE  left[list'[j]] <= left[list'[k]]
    BY <1>0, <1>7 DEF SortedByTime
  <2>0. left[t] \in Int /\ \A l \in 1..Len(list) : left[list[l]] \in Int
    BY <1>4, ListedTasks, TimesOfTasks DEF DelayInv
  <2>1. CASE k < i
    <3>1. j \in DOMAIN list /\ k \in DOMAIN list /\ list'[j] = list[j] /\ list'[k] = list[k]
      BY <2>1, <1>4, <1>5
    <3> QED BY <3>1, <1>1 DEF SortedByTime
  <2>2. CASE k = i
    <3>1. j \in 1..(i - 1) /\ list'[j] = list[j] /\ list'[k] = t
      BY <2>2, <1>4, <1>5
    <3> QED BY <3>1, <1>11
  <2>3. CASE i < k
    <3>1. k - 1 \in i..Len(list) /\ k - 1 \in 1..Len(list) /\ list'[k] = list[k - 1]
      BY <2>3, <1>4, <1>5
    <3>2. CASE j < i
      <4>1. j \in DOMAIN list /\ k - 1 \in DOMAIN list /\ j < k - 1 /\ list'[j] = list[j]
        BY <2>3, <3>1, <3>2, <1>4, <1>5
      <4> QED BY <3>1, <4>1, <1>1 DEF SortedByTime
    <3>3. CASE j = i
      <4>1. left[t] < left[list[k - 1]] /\ list'[j] = t
        BY <3>1, <3>3, <1>5, <1>11
      <4>2. left[list[k - 1]] \in Int
        BY <3>1, <2>0
      <4> QED BY <3>1, <4>1, <4>2, <2>0
    <3>4. CASE i < j
      <4>1. /\ j - 1 \in DOMAIN list /\ k - 1 \in DOMAIN list /\ j - 1 < k - 1
            /\ list'[j] = list[j - 1]
        BY <2>3, <3>1, <3>4, <1>4, <1>5
      <4> QED BY <3>1, <4>1, <1>1 DEF SortedByTime
    <3> QED BY <3>2, <3>3, <3>4, <1>4
  <2> QED BY <2>1, <2>2, <2>3, <1>4
<1>13. InstantIsTime'
  BY <1>0, <1>8, SameTime DEF DelayInv
<1>14. PopInv'
  BY <1>0, <1>1, <1>8 DEF PopInv
<1>15. AwaitInv'
  <2>1. ASSUME Unannounced'
        PROVE  Unannounced /\ Head(list') = Head(list)
    <3>1. i # 1 /\ \A u \in Tasks : pc[u] # "pend"
      BY <2>1, <1>0, <1>8 DEF Unannounced
    <3>2. 1 \in 1..(i - 1) /\ list'[1] = list[1] /\ Len(list) # 0
      BY <3>1, <1>4, <1>5
    <3>3. list # << >> /\ list' # << >>
      BY <3>2, <1>4, <1>5, EmptySeq
    <3>4. Head(list') = list'[1] /\ Head(list) = list[1]
      BY <3>3, <1>4, <1>5
    <3> QED BY <2>1, <3>1, <3>2, <3>3, <3>4, <1>0 DEF Unannounced
  <2>2. list # << >> => left[Head(list)] \in Int
    BY ListedTasks, TimesOfTasks DEF DelayInv
  <2> QED BY <2>1, <2>2, <1>0, <1>1, SameAwait DEF Unannounced, TypeOK
<1> QED BY <1>9, <1>10, <1>12, <1>13, <1>14, <1>15 DEF DelayInv, TimerInv

LEMMA PendKeeps ==
  ASSUME DelayInv, NEW t \in Tasks, PendInterrupt(t)
  PROVE  DelayInv'
<1>1. TypeOK /\ LinkWithinDelay /\ SortedByTime /\ InstantIsTime /\ PopInv /\ AwaitInv
  BY DEF DelayInv, TimerInv
<1>0. /\ pc[t] = "pend" /\ irq' = TRUE /\ pc' = [pc EXCEPT ![t] = "waiting"]
      /\ UNCHANGED <<now, list, instant, link, woken, left, compare, handler, release, waking>>
  BY DEF PendInterrupt, Goto, handlerVars
<1>2. TypeOK'
  BY <1>0, <1>1 DEF TypeOK
<1>3. pc'[t] = "waiting" /\ \A u \in Tasks \ {t} : pc'[u] = pc[u]
  BY <1>0, <1>1 DEF TypeOK
<1>4. LinkWithinDelay'
  BY <1>0, <1>1, <1>3 DEF LinkWithinDelay
<1>5. SortedByTime'
  BY <1>0, <1>1 DEF SortedByTime
<1>6. InstantIsTime'
  BY <1>0, <1>3, SameTime DEF DelayInv
<1>7. PopInv'
  BY <1>0, <1>1, <1>3 DEF PopInv
<1>8. AwaitInv'
  <2>1. ~Unannounced'
    BY <1>0 DEF Unannounced
  <2> QED BY <2>1, <1>0, <1>1, SameAwait DEF TypeOK
<1> QED BY <1>2, <1>4, <1>5, <1>6, <1>7, <1>8 DEF DelayInv, TimerInv

\* A delay ends: nothing of it is left, and the others are as they were.
Ends(t) ==
  /\ instant' \in [Tasks -> Ticks]
  /\ link' \in [Tasks -> {"none", "queued", "popped"}]
  /\ pc' \in [Tasks -> {"idle", "waiting", "insert", "pend", "ready", "delete"}]
  /\ woken' \in [Tasks -> BOOLEAN]
  /\ left' \in [Tasks -> -MaxLate..MaxDelay+1]
  /\ pc'[t] = "idle" /\ link'[t] = "none" /\ left'[t] = 0
  /\ \A u \in Tasks \ {t} :
       /\ pc'[u] = pc[u] /\ link'[u] = link[u] /\ left'[u] = left[u]
       /\ woken'[u] = woken[u] /\ instant'[u] = instant[u]

LEMMA GoneEnds ==
  ASSUME TypeOK, NEW t \in Tasks, Gone(t)
  PROVE  Ends(t)
<1>1. 0 \in Ticks /\ 0 \in -MaxLate..MaxDelay+1
  BY HalfOfClock
<1> QED BY <1>1 DEF Gone, Goto, TypeOK, Ends

LEMMA DropKeeps ==
  ASSUME DelayInv, NEW t \in Tasks, Drop(t)
  PROVE  DelayInv'
<1>1. TypeOK /\ LinkWithinDelay /\ SortedByTime /\ InstantIsTime /\ PopInv /\ AwaitInv
  BY DEF DelayInv, TimerInv
<1>0. /\ pc[t] \in {"waiting", "ready"}
      /\ UNCHANGED <<now, list, irq, compare, handler, release, waking>>
  BY DEF Drop, timerVars, handlerVars
<1>2. CASE link[t] # "queued"
  <2>1. Gone(t) /\ t \notin ToSet(list)
    BY <1>1, <1>2 DEF Drop, LinkWithinDelay
  <2>2. Ends(t)
    BY <2>1, <1>1, GoneEnds
  <2>3. TypeOK'
    BY <2>2, <1>0, <1>1 DEF TypeOK, Ends
  <2>4. LinkWithinDelay'
    BY <2>1, <2>2, <1>0, <1>1 DEF LinkWithinDelay, Ends
  <2>5. \A u \in ToSet(list) : u \in Tasks /\ u # t
    BY <2>1, ListedTasks DEF DelayInv, ToSet
  <2>6. SortedByTime'
    BY <2>2, <2>5, <1>0, SameOrder DEF DelayInv, Ends
  <2>7. InstantIsTime'
    BY <2>2, <1>0, SameTime DEF DelayInv, Ends
  <2>8. PopInv'
    BY <2>2, <1>0, <1>1 DEF PopInv, Ends
  <2>9. AwaitInv'
    <3>1. Unannounced' => Unannounced
      BY <2>2, <1>0 DEF Unannounced, Ends
    <3>2. list # << >> => /\ left'[Head(list)] = left[Head(list)]
                          /\ left[Head(list)] \in Int
      BY <2>2, <2>5, ListedTasks, TimesOfTasks DEF DelayInv, Ends
    <3> QED BY <3>1, <3>2, <1>0, <1>1, SameAwait DEF Unannounced, TypeOK
  <2> QED BY <2>3, <2>4, <2>6, <2>7, <2>8, <2>9 DEF DelayInv, TimerInv
<1>3. CASE link[t] = "queued"
  <2>1. pc' = [pc EXCEPT ![t] = "delete"] /\ UNCHANGED <<instant, link, woken, left>>
    BY <1>3 DEF Drop, Goto
  <2>2. pc'[t] = "delete" /\ \A u \in Tasks \ {t} : pc'[u] = pc[u]
    BY <2>1, <1>1 DEF TypeOK
  <2>3. TypeOK'
    BY <2>1, <1>0, <1>1 DEF TypeOK
  <2>4. LinkWithinDelay'
    BY <2>1, <2>2, <1>0, <1>1 DEF LinkWithinDelay
  <2>5. SortedByTime'
    BY <2>1, <1>0, <1>1 DEF SortedByTime
  <2>6. InstantIsTime'
    BY <2>1, <2>2, <1>0, SameTime DEF DelayInv
  <2>7. PopInv'
    BY <2>1, <2>2, <1>0, <1>1 DEF PopInv
  <2>8. AwaitInv'
    <3>1. Unannounced' => Unannounced
      BY <2>2, <1>0 DEF Unannounced
    <3>2. list # << >> => left[Head(list)] \in Int
      BY ListedTasks, TimesOfTasks DEF DelayInv
    <3> QED BY <3>1, <3>2, <2>1, <1>0, <1>1, SameAwait DEF Unannounced, TypeOK
  <2> QED BY <2>3, <2>4, <2>5, <2>6, <2>7, <2>8 DEF DelayInv, TimerInv
<1> QED BY <1>2, <1>3

\* A link leaves the list at place i, and the order of the others stays.  The
\* head is the old one or a later one.
LEMMA CutOrder ==
  ASSUME TimerInv, NEW i \in DOMAIN list, NEW l, l \in Seq(Tasks), Len(l) = Len(list) - 1,
         \A j \in 1..(Len(list) - 1) : l[j] = IF j < i THEN list[j] ELSE list[j + 1]
  PROVE  /\ \A j, k \in DOMAIN l : j < k => left[l[j]] <= left[l[k]]
         /\ l # << >> => /\ left[Head(list)] <= left[Head(l)]
                         /\ Head(l) \in Tasks /\ Head(l) \in ToSet(list)
         /\ ToSet(l) = ToSet(list) \ {list[i]}
         /\ IsInjective(l)
<1>1. /\ DOMAIN list = 1..Len(list) /\ Len(list) \in Nat /\ DOMAIN l = 1..(Len(list) - 1)
      /\ i \in 1..Len(list) /\ list \in Seq(Tasks) /\ list # << >>
      /\ \A j \in DOMAIN list : left[list[j]] \in Int /\ list[j] \in ToSet(list)
  BY ListedTasks, TimesOfTasks, LenProperties, EmptySeq
<1>2. \A j, k \in DOMAIN list : j < k => left[list[j]] <= left[list[k]]
  BY DEF TimerInv, SortedByTime
<1> DEFINE place(j) == IF j < i THEN j ELSE j + 1
<1>3. \A j \in DOMAIN l : place(j) \in DOMAIN list /\ l[j] = list[place(j)]
  BY <1>1
<1>4. \A j, k \in DOMAIN l : j < k => place(j) < place(k)
  BY <1>1
<1>5. \A j, k \in DOMAIN l : j < k => left[l[j]] <= left[l[k]]
  BY <1>2, <1>3, <1>4
<1>6. ASSUME l # << >>
      PROVE  /\ left[Head(list)] <= left[Head(l)]
             /\ Head(l) \in Tasks /\ Head(l) \in ToSet(list)
  <2>1. 1 \in DOMAIN l /\ Head(l) = l[1] /\ Head(list) = list[1] /\ 1 \in DOMAIN list
    BY <1>1, <1>6, EmptySeq
  <2>2. l[1] = list[1] \/ (2 \in DOMAIN list /\ l[1] = list[2])
    BY <2>1, <1>1, <1>3
  <2>3. l[1] = list[1] \/ left[list[1]] <= left[l[1]]
    BY <2>1, <2>2, <1>2
  <2>4. l[1] \in ToSet(list) /\ left[l[1]] \in Int /\ l[1] \in Tasks
    BY <2>1, <1>1, <1>3, ListedTasks
  <2> QED BY <2>1, <2>3, <2>4
<1>7. IsInjective(list)
  BY DEF TimerInv, LinkWithinDelay
<1>8. Range(l) = Range(list) \ {list[i]} /\ IsInjective(l)
  BY <1>1, <1>7, CutElement
<1> QED BY <1>5, <1>6, <1>8 DEF Range, ToSet

LEMMA DeleteKeeps ==
  ASSUME DelayInv, NEW t \in Tasks, Delete(t)
  PROVE  DelayInv'
<1>1. TypeOK /\ LinkWithinDelay /\ SortedByTime /\ InstantIsTime /\ PopInv /\ AwaitInv
  BY DEF DelayInv, TimerInv
<1>0. /\ pc[t] = "delete" /\ Gone(t)
      /\ UNCHANGED <<now, irq, compare, handler, release, waking>>
  BY DEF Delete, timerVars, handlerVars
<1>2. Ends(t)
  BY <1>0, <1>1, GoneEnds
\* With and without the link in the list.
<1>3. /\ list' \in Seq(Tasks) /\ IsInjective(list')
      /\ ToSet(list') = ToSet(list) \ {t}
      /\ \A j, k \in DOMAIN list' : j < k => left[list'[j]] <= left[list'[k]]
      /\ list' # << >> => /\ list # << >> /\ left[Head(list)] <= left[Head(list')]
                          /\ Head(list') \in ToSet(list')
  <2>0. list \in Seq(Tasks)
    BY <1>1 DEF TypeOK
  <2>1. ASSUME NEW i \in DOMAIN list, list[i] = t, list' = RemoveAt(list, i)
        PROVE  /\ list' \in Seq(Tasks) /\ IsInjective(list')
               /\ ToSet(list') = ToSet(list) \ {t}
               /\ \A j, k \in DOMAIN list' : j < k => left[list'[j]] <= left[list'[k]]
               /\ list' # << >> => /\ list # << >> /\ left[Head(list)] <= left[Head(list')]
                                   /\ Head(list') \in ToSet(list')
    <3>1. /\ list' \in Seq(Tasks) /\ Len(list') = Len(list) - 1
          /\ \A j \in 1..(Len(list) - 1) : list'[j] = IF j < i THEN list[j] ELSE list[j + 1]
      BY <2>0, <2>1, RemoveAtPlaces
    <3>2. /\ \A j, k \in DOMAIN list' : j < k => left[list'[j]] <= left[list'[k]]
          /\ list' # << >> => left[Head(list)] <= left[Head(list')]
          /\ ToSet(list') = ToSet(list) \ {t}
          /\ IsInjective(list')
      BY <2>1, <3>1, CutOrder DEF DelayInv
    <3>3. list # << >>
      BY <2>0, EmptySeq, LenProperties
    <3>4. list' # << >> => Head(list') \in ToSet(list')
      BY <3>1, TailElements DEF Range, ToSet
    <3> QED BY <3>1, <3>2, <3>3, <3>4
  <2>2. CASE t \notin ToSet(list) /\ list' = list
    <3>1. list # << >> => Head(list) \in ToSet(list) /\ left[Head(list)] \in Int
      BY ListedTasks, TimesOfTasks DEF DelayInv
    <3> QED BY <2>0, <2>2, <3>1, <1>1 DEF LinkWithinDelay, SortedByTime
  <2> QED BY <2>1, <2>2 DEF Delete
<1>4. TypeOK'
  BY <1>0, <1>1, <1>2, <1>3 DEF TypeOK, Ends
<1>5. LinkWithinDelay'
  BY <1>1, <1>2, <1>3 DEF LinkWithinDelay, Ends
<1>6. \A u \in ToSet(list') : u \in Tasks /\ u # t /\ left'[u] = left[u] /\ left[u] \in Int
  <2>1. \A u \in ToSet(list) : u \in Tasks
    BY ListedTasks DEF DelayInv, ToSet
  <2> QED BY <2>1, <1>2, <1>3, TimesOfTasks DEF DelayInv, Ends
<1>7. SortedByTime'
  <2>1. \A j \in DOMAIN list' : left'[list'[j]] = left[list'[j]]
    BY <1>6 DEF ToSet
  <2> QED BY <2>1, <1>3 DEF SortedByTime
<1>8. InstantIsTime'
  BY <1>0, <1>2, SameTime DEF DelayInv, Ends
<1>9. PopInv'
  BY <1>0, <1>1, <1>2 DEF PopInv, Ends
<1>10. AwaitInv'
  <2>1. Unannounced' => Unannounced
    BY <1>0, <1>2, <1>3 DEF Unannounced, Ends
  <2>2. list # << >> => left[Head(list)] \in Int
    BY ListedTasks, TimesOfTasks DEF DelayInv
  <2>3. Unannounced' => left'[Head(list')] \in Int /\ left[Head(list)] <= left'[Head(list')]
    BY <1>3, <1>6 DEF Unannounced
  <2> QED BY <2>1, <2>2, <2>3, <1>0, <1>1, SameAwait DEF Unannounced, TypeOK
<1> QED BY <1>4, <1>5, <1>7, <1>8, <1>9, <1>10 DEF DelayInv, TimerInv

-----------------------------------------------------------------------------
(***************************************************************************)
(* The steps of the interrupt handler                                      *)
(***************************************************************************)

\* The tasks, their delays and the list stay.
LEMMA SameDelays ==
  ASSUME TimerInv, UNCHANGED <<now, list, instant, link, pc, left>>
  PROVE  LinkWithinDelay' /\ SortedByTime' /\ InstantIsTime'
BY DEF TimerInv, LinkWithinDelay, SortedByTime, InstantIsTime, IsInjective, ToSet

\* The request is taken, and the handler looks at the head itself.
LEMMA InterruptKeeps ==
  ASSUME DelayInv, Interrupt
  PROVE  DelayInv'
<1>1. TypeOK /\ TimerInv /\ PopInv
  BY DEF DelayInv, TimerInv
<1>2. /\ handler = "off" /\ irq' = FALSE /\ handler' = "pop"
      /\ UNCHANGED <<now, list, instant, link, pc, woken, left, compare, release, waking>>
  BY DEF Interrupt, delayVars
<1>3. TypeOK'
  BY <1>1, <1>2 DEF TypeOK
<1>4. LinkWithinDelay' /\ SortedByTime' /\ InstantIsTime'
  BY <1>1, <1>2, SameDelays
<1>5. PopInv' /\ AwaitInv'
  BY <1>1, <1>2 DEF PopInv, AwaitInv
<1> QED BY <1>3, <1>4, <1>5 DEF DelayInv, TimerInv

\* A head whose time has come leaves the list; the time of another is the
\* release that the handler takes with it.
LEMMA PopKeeps ==
  ASSUME DelayInv, PopIf
  PROVE  DelayInv'
<1>1. /\ TypeOK /\ TimerInv /\ LinkWithinDelay /\ SortedByTime /\ InstantIsTime
      /\ PopInv /\ waking = None
  BY DEF PopIf, DelayInv, TimerInv, PopInv
<1>0. /\ handler = "pop"
      /\ UNCHANGED <<now, instant, pc, woken, left, irq, compare>>
  BY DEF PopIf, timerVars
<1>2. CASE list = << >> /\ handler' = "disable" /\ UNCHANGED <<list, link, release, waking>>
  <2>1. TypeOK'
    BY <1>0, <1>1, <1>2 DEF TypeOK
  <2>2. LinkWithinDelay' /\ SortedByTime' /\ InstantIsTime'
    BY <1>0, <1>1, <1>2, SameDelays
  <2>3. PopInv' /\ AwaitInv'
    BY <1>0, <1>1, <1>2 DEF PopInv, AwaitInv, Unannounced
  <2> QED BY <2>1, <2>2, <2>3 DEF DelayInv, TimerInv
<1>3. CASE /\ list # << >> /\ PopHead /\ waking' = Head(list) /\ handler' = "wake"
           /\ UNCHANGED release
  <2> DEFINE h == Head(list)
  <2>1. /\ h \in Tasks /\ h \in ToSet(list) /\ pc[h] \notin {"idle", "insert"}
        /\ 1 \in DOMAIN list /\ h = list[1]
        /\ list \in Seq(Tasks) /\ Len(list) \in Nat
    BY <1>1, <1>3, ListedTasks
  <2>2. left[h] <= 0
    BY <1>1, <1>3, <2>1, TimesOfTasks DEF PopHead
  <2>3. /\ list' \in Seq(Tasks) /\ Len(list') = Len(list) - 1
        /\ \A j \in 1..(Len(list) - 1) : list'[j] = list[j + 1]
    BY <1>3, <2>1, HeadTailProperties DEF PopHead
  <2>4. \A j \in 1..(Len(list) - 1) : list'[j] = IF j < 1 THEN list[j] ELSE list[j + 1]
    BY <2>1, <2>3
  <2>5. /\ \A j, k \in DOMAIN list' : j < k => left[list'[j]] <= left[list'[k]]
        /\ ToSet(list') = ToSet(list) \ {h}
        /\ IsInjective(list')
    BY <1>1, <2>1, <2>3, <2>4, CutOrder
  <2>6. /\ link' \in [Tasks -> {"none", "queued", "popped"}] /\ link'[h] = "popped"
        /\ \A u \in Tasks \ {h} : link'[u] = link[u]
    BY <1>1, <1>3, <2>1 DEF PopHead, TypeOK
  <2> HIDE DEF h
  <2>7. TypeOK'
    BY <1>0, <1>1, <1>3, <2>1, <2>3, <2>6 DEF TypeOK, h
  <2>8. LinkWithinDelay'
    BY <1>0, <1>1, <2>1, <2>5, <2>6 DEF LinkWithinDelay
  <2>9. SortedByTime' /\ InstantIsTime'
    BY <1>0, <1>1, <2>5 DEF SortedByTime, InstantIsTime
  <2>10. PopInv'
    <3>1. waking' = h /\ h # None /\ \A u \in Tasks : u # None
      BY <1>3, <2>1, NoneAssumption DEF h
    <3> QED BY <3>1, <1>0, <1>1, <1>3, <2>1, <2>2, <2>6 DEF PopInv
  <2>11. AwaitInv'
    BY <1>3 DEF AwaitInv
  <2> QED BY <2>7, <2>8, <2>9, <2>10, <2>11 DEF DelayInv, TimerInv
<1>4. CASE /\ list # << >> /\ release' = instant[Head(list)] /\ handler' = "arm"
           /\ UNCHANGED <<list, link, waking>>
  <2>1. /\ Head(list) \in Tasks /\ now \in Ticks
        /\ left[Head(list)] \in -MaxLate..MaxDelay+1 /\ left[Head(list)] \in Int
        /\ instant[Head(list)] = Instant(left[Head(list)])
    BY <1>1, <1>4, ListedTasks, TimesOfTasks
  <2>2. TypeOK'
    BY <1>0, <1>1, <1>4, <2>1 DEF TypeOK
  <2>3. LinkWithinDelay' /\ SortedByTime' /\ InstantIsTime'
    BY <1>0, <1>1, <1>4, SameDelays
  <2>4. PopInv'
    BY <1>0, <1>1, <1>4 DEF PopInv
  <2>5. TimeTo(release)' = left[Head(list)]
    <3>1. TimeTo(instant[Head(list)]) = left[Head(list)]
      BY <2>1, TimeOfInstant
    <3> QED BY <3>1, <1>0, <1>4 DEF TimeTo
  <2>6. AwaitInv'
    BY <1>0, <1>4, <2>1, <2>5 DEF AwaitInv
  <2> QED BY <2>2, <2>3, <2>4, <2>6 DEF DelayInv, TimerInv
<1> QED BY <1>2, <1>3, <1>4 DEF PopIf

LEMMA WakeKeeps ==
  ASSUME DelayInv, WakeTask
  PROVE  DelayInv'
<1>1. TypeOK /\ TimerInv /\ PopInv
  BY DEF DelayInv, TimerInv
<1>2. /\ handler = "wake" /\ woken' = [woken EXCEPT ![waking] = pc[waking] # "idle"]
      /\ waking' = None /\ handler' = "pop"
      /\ UNCHANGED <<now, list, instant, link, pc, left, irq, compare, release>>
  BY DEF WakeTask, timerVars
<1>3. waking \in Tasks
  BY <1>1, <1>2 DEF PopInv, TypeOK
<1>4. TypeOK'
  BY <1>1, <1>2, <1>3 DEF TypeOK
<1>5. LinkWithinDelay' /\ SortedByTime' /\ InstantIsTime'
  BY <1>1, <1>2, SameDelays
<1>6. PopInv'
  <2>1. /\ pc[waking] # "idle" => woken'[waking]
        /\ \A u \in Tasks \ {waking} : woken'[u] = woken[u]
    BY <1>1, <1>2, <1>3 DEF TypeOK
  <2> QED BY <2>1, <1>1, <1>2, <1>3 DEF PopInv
<1>7. AwaitInv'
  BY <1>2 DEF AwaitInv
<1> QED BY <1>4, <1>5, <1>6, <1>7 DEF DelayInv, TimerInv

LEMMA ArmKeeps ==
  ASSUME DelayInv, Arm
  PROVE  DelayInv'
<1>1. TypeOK /\ TimerInv /\ PopInv /\ AwaitInv
  BY DEF DelayInv, TimerInv
<1>2. /\ handler = "arm" /\ compare' = release /\ handler' = "recheck"
      /\ UNCHANGED <<now, list, instant, link, pc, woken, left, irq, release, waking>>
  BY DEF Arm, delayVars
<1>3. TypeOK'
  BY <1>1, <1>2 DEF TypeOK
<1>4. LinkWithinDelay' /\ SortedByTime' /\ InstantIsTime'
  BY <1>1, <1>2, SameDelays
<1>5. PopInv'
  BY <1>1, <1>2 DEF PopInv
<1>6. AwaitInv'
  BY <1>1, <1>2 DEF AwaitInv, Unannounced, TimeTo
<1> QED BY <1>3, <1>4, <1>5, <1>6 DEF DelayInv, TimerInv

\* The handler ends only when the register is still ahead.
LEMMA RecheckKeeps ==
  ASSUME DelayInv, Recheck
  PROVE  DelayInv'
<1>1. TypeOK /\ TimerInv /\ PopInv /\ AwaitInv
  BY DEF DelayInv, TimerInv
<1>2. /\ handler = "recheck" /\ release' = 0
      /\ handler' = IF IsAtLeast(now, release) THEN "pop" ELSE "off"
      /\ UNCHANGED <<now, list, instant, link, pc, woken, left, irq, compare, waking>>
  BY DEF Recheck, delayVars, timerVars
<1>3. TypeOK'
  <2>1. 0 \in Ticks
    BY HalfOfClock
  <2> QED BY <2>1, <1>1, <1>2 DEF TypeOK
<1>4. LinkWithinDelay' /\ SortedByTime' /\ InstantIsTime'
  BY <1>1, <1>2, SameDelays
<1>5. PopInv'
  BY <1>1, <1>2 DEF PopInv
<1>6. /\ TimeTo(release) \in -MaxLate..MaxDelay+1 /\ TimeTo(release) \in Int
      /\ release \in Ticks /\ now \in Ticks /\ release # None
  <2>1. release \in Ticks /\ now \in Ticks /\ TimeTo(release) \in -MaxLate..MaxDelay+1
    BY <1>1, <1>2 DEF TypeOK, AwaitInv
  <2>2. release \in Int
    BY <2>1, HalfOfClock
  <2> QED BY <2>1, <2>2, HalfOfClock, NoneAssumption
<1>7. IsAtLeast(now, release) <=> TimeTo(release) <= 0
  <2>1. release = Instant(TimeTo(release))
    BY <1>6, TimeToInstant
  <2>2. IsAtLeast(now, Instant(TimeTo(release))) <=> TimeTo(release) <= 0
    BY <1>6, AtLeastIsOver
  <2> QED BY <2>1, <2>2
<1>8. ASSUME Unannounced', handler' = "off"
      PROVE  compare # None /\ (compare - now) % Modulus \in 1..left[Head(list)]
  <2>1. TimeTo(release) > 0
    BY <1>2, <1>6, <1>7, <1>8
  <2>2. compare = release /\ TimeTo(release) <= left[Head(list)]
    BY <2>1, <1>1, <1>2, <1>8 DEF AwaitInv, Unannounced
  <2>3. (compare - now) % Modulus = TimeTo(release)
    BY <2>1, <2>2, <1>6, TimeToInstant
  <2>4. left[Head(list)] \in Int
    BY <1>1, <1>2, <1>8, ListedTasks, TimesOfTasks DEF Unannounced
  <2> QED BY <2>1, <2>2, <2>3, <2>4, <1>6
<1>9. AwaitInv'
  <2>1. handler' \in {"pop", "off"}
    BY <1>2
  <2> QED BY <2>1, <1>2, <1>8 DEF AwaitInv
<1> QED BY <1>3, <1>4, <1>5, <1>9 DEF DelayInv, TimerInv

\* A head that has come since the list was found empty is announced.
LEMMA DisableKeeps ==
  ASSUME DelayInv, Disable
  PROVE  DelayInv'
<1>1. TypeOK /\ TimerInv /\ PopInv /\ AwaitInv
  BY DEF DelayInv, TimerInv
<1>2. /\ handler = "disable" /\ compare' = None /\ handler' = "off"
      /\ UNCHANGED <<now, list, instant, link, pc, woken, left, irq, release, waking>>
  BY DEF Disable, delayVars
<1>3. TypeOK'
  BY <1>1, <1>2 DEF TypeOK
<1>4. LinkWithinDelay' /\ SortedByTime' /\ InstantIsTime'
  BY <1>1, <1>2, SameDelays
<1>5. PopInv'
  BY <1>1, <1>2 DEF PopInv
<1>6. ~Unannounced'
  BY <1>1, <1>2 DEF AwaitInv, Unannounced
<1>7. AwaitInv'
  BY <1>2, <1>6 DEF AwaitInv
<1> QED BY <1>3, <1>4, <1>5, <1>7 DEF DelayInv, TimerInv

-----------------------------------------------------------------------------
(***************************************************************************)
(* The clock ticks                                                         *)
(***************************************************************************)

\* A tick brings an instant nearer, unless it is that instant.
LEMMA TickDistance ==
  ASSUME now \in Ticks, now' = WrappingAdd(now, 1), NEW a \in Ticks
  PROVE  /\ now' \in Ticks
         /\ (a - now) % Modulus = 1 => a = now'
         /\ (a - now) % Modulus \in 1..Modulus =>
              (a - now') % Modulus = ((a - now) % Modulus) - 1
         /\ TimeTo(a) > -HalfClock => TimeTo(a)' = TimeTo(a) - 1
<1>1. /\ now \in 0..Modulus-1 /\ a \in 0..Modulus-1 /\ 1 \in -HalfClock+1..HalfClock
      /\ HalfClock \in Nat \ {0} /\ Modulus = 2 * HalfClock /\ 1 \in -HalfClock..HalfClock
  BY HalfOfClock
<1>2. now' \in Ticks /\ now' = IF now + 1 < Modulus THEN now + 1 ELSE now + 1 - Modulus
  <2>1. now' = Instant(1)
    BY DEF WrappingAdd, Instant
  <2> QED BY <2>1, <1>1, InstantNear
<1> DEFINE d == (a - now) % Modulus
           e == (a - now') % Modulus
<1>3. /\ d = IF a < now THEN a - now + Modulus ELSE a - now
      /\ e = IF a < now' THEN a - now' + Modulus ELSE a - now'
  BY <1>2, Difference
<1>4. /\ TimeTo(a) = IF d < HalfClock THEN d ELSE d - Modulus
      /\ TimeTo(a)' = IF e < HalfClock THEN e ELSE e - Modulus
  BY DEF TimeTo, HalfClock
<1> HIDE DEF d, e
<1>5. d = 1 => a = now'
  BY <1>1, <1>2, <1>3
<1>6. d \in 1..Modulus => e = d - 1
  BY <1>1, <1>2, <1>3
<1>7. d = 0 => e = Modulus - 1
  BY <1>1, <1>2, <1>3
<1>8. d \in 0..Modulus-1
  BY <1>1, <1>3
<1>9. TimeTo(a) > -HalfClock => TimeTo(a)' = TimeTo(a) - 1
  <2>1. CASE d = 0
    BY <2>1, <1>1, <1>4, <1>7
  <2>2. CASE d \in 1..Modulus
    BY <2>2, <1>1, <1>4, <1>6, <1>8
  <2> QED BY <2>1, <2>2, <1>1, <1>8
<1> QED BY <1>2, <1>5, <1>6, <1>9 DEF d, e

\* The handler is not held up for longer than MaxLate (InTime).
LEMMA ReleaseIsNear ==
  ASSUME now \in Ticks, NEW a \in Ticks, now # WrappingAdd(a, MaxLate)
  PROVE  TimeTo(a) # -MaxLate
<1> SUFFICES ASSUME TimeTo(a) = -MaxLate PROVE now = (a + MaxLate) % Modulus
  BY DEF WrappingAdd
<1>1. /\ now \in 0..Modulus-1 /\ MaxLate \in 0..HalfClock-1 /\ HalfClock \in Nat \ {0}
      /\ Modulus = 2 * HalfClock /\ Modulus \in Nat \ {0} /\ -MaxLate \in -HalfClock..HalfClock
  BY HalfOfClock
<1>2. a = Instant(-MaxLate)
  BY TimeToInstant
<1>3. a = IF now + (-MaxLate) < 0 THEN now + (-MaxLate) + Modulus
          ELSE IF now + (-MaxLate) < Modulus THEN now + (-MaxLate)
          ELSE now + (-MaxLate) - Modulus
  BY <1>1, <1>2, InstantNear
<1> DEFINE z == a + MaxLate
<1> HIDE DEF z
<1>4. z = a + MaxLate /\ z \in -Modulus..2*Modulus-1
  BY <1>1, <1>3 DEF z
<1>5. z % Modulus = IF z < 0 THEN z + Modulus ELSE IF z < Modulus THEN z ELSE z - Modulus
  BY <1>1, <1>4, ModNear
<1>6. now = z % Modulus
  BY <1>1, <1>3, <1>4, <1>5
<1> QED BY <1>6, Zenon DEF z

LEMMA TickKeeps ==
  ASSUME DelayInv, Tick
  PROVE  DelayInv'
<1>1. TypeOK /\ TimerInv /\ LinkWithinDelay /\ SortedByTime /\ InstantIsTime /\ PopInv /\ AwaitInv
  BY DEF DelayInv, TimerInv
<1>2. /\ now' = WrappingAdd(now, 1)
      /\ left' = [t \in Tasks |-> IF pc[t] = "idle" THEN 0 ELSE left[t] - 1]
      /\ compare' = IF compare = now' THEN None ELSE compare
      /\ UNCHANGED <<list, instant, link, pc, woken, handler, release, waking>>
  BY DEF Tick, handlerVars
<1>3. /\ \A t \in Tasks : pc[t] # "idle" => left[t] > -MaxLate
      /\ handler \in {"arm", "recheck"} => now # WrappingAdd(release, MaxLate)
  BY DEF Tick, InTime
<1>4. irq' \in BOOLEAN /\ (~irq' => ~irq /\ compare # now')
  BY <1>1 DEF Tick, TypeOK
<1>5. now \in Ticks /\ now' \in Ticks
  BY <1>1, <1>2, TickDistance DEF TypeOK
<1>6. ASSUME NEW t \in Tasks
      PROVE  /\ left'[t] \in -MaxLate..MaxDelay+1
             /\ left[t] \in Int
             /\ pc[t] # "idle" => left'[t] = left[t] - 1
  BY <1>1, <1>2, <1>3, HalfOfClock DEF TypeOK
<1>7. TypeOK'
  <2>1. left' \in [Tasks -> -MaxLate..MaxDelay+1]
    BY <1>2, <1>6
  <2> QED BY <2>1, <1>1, <1>2, <1>4, <1>5 DEF TypeOK
<1>8. LinkWithinDelay'
  BY <1>1, <1>2 DEF LinkWithinDelay
<1>9. \A i \in DOMAIN list : /\ left'[list[i]] = left[list[i]] - 1
                             /\ left[list[i]] \in Int
  BY <1>1, <1>6, ListedTasks
<1>10. SortedByTime'
  BY <1>1, <1>2, <1>9 DEF SortedByTime
<1>11. InstantIsTime'
  <2> SUFFICES ASSUME NEW t \in Tasks, pc[t] # "idle"
               PROVE  instant[t] = (now' + left'[t]) % Modulus
    BY <1>2 DEF InstantIsTime
  <2>1. instant[t] = Instant(left[t]) /\ left'[t] = left[t] - 1
    BY <1>1, <1>6, TimesOfTasks
  <2>2. left[t] \in -HalfClock+1..HalfClock
    BY <1>1, HalfOfClock DEF TypeOK
  <2>3. Instant(left[t]) = (now' + (left[t] - 1)) % Modulus
    BY <2>2, <1>2, <1>5, TickInstant
  <2> QED BY <2>1, <2>3
<1>12. PopInv'
  <2>1. \A t \in Tasks : link[t] = "popped" => left'[t] <= 0
    BY <1>1, <1>6 DEF PopInv
  <2> QED BY <2>1, <1>1, <1>2 DEF PopInv
<1>13. handler \in {"arm", "recheck"} =>
         /\ TimeTo(release)' = TimeTo(release) - 1
         /\ TimeTo(release) \in Int
         /\ TimeTo(release)' \in -MaxLate..MaxDelay+1
  <2> SUFFICES ASSUME handler \in {"arm", "recheck"}
               PROVE  /\ TimeTo(release)' = TimeTo(release) - 1
                      /\ TimeTo(release) \in Int
                      /\ TimeTo(release)' \in -MaxLate..MaxDelay+1
    OBVIOUS
  <2>1. /\ TimeTo(release) \in -MaxLate..MaxDelay+1 /\ release \in Ticks /\ release' = release
    BY <1>1, <1>2 DEF AwaitInv, TypeOK
  <2>2. TimeTo(release) # -MaxLate
    BY <2>1, <1>3, <1>5, ReleaseIsNear
  <2>3. TimeTo(release) > -HalfClock /\ TimeTo(release) \in Int
    BY <2>1, HalfOfClock
  <2>4. TimeTo(release)' = TimeTo(release) - 1
    BY <2>1, <2>3, <1>2, <1>5, TickDistance DEF TimeTo
  <2> QED BY <2>1, <2>2, <2>3, <2>4, HalfOfClock
<1>14. AwaitInv'
  <2> SUFFICES ASSUME Unannounced'
               PROVE  /\ handler = "off" =>
                           /\ compare' # None
                           /\ (compare' - now') % Modulus \in 1..left'[Head(list)]
                      /\ handler \in {"arm", "recheck"} =>
                           TimeTo(release)' <= left'[Head(list)]
                      /\ handler = "recheck" /\ TimeTo(release)' > 0 => compare' = release
                      /\ handler # "disable"
    BY <1>2, <1>13 DEF AwaitInv
  <2>1. Unannounced /\ ~irq' /\ compare # now' /\ compare' = compare
    BY <1>2, <1>4 DEF Unannounced
  <2>2. left[Head(list)] \in Int /\ left'[Head(list)] = left[Head(list)] - 1
    BY <2>1, <1>1, <1>6, ListedTasks DEF Unannounced
  <2>3. ASSUME handler = "off"
        PROVE  compare # None /\ (compare - now') % Modulus \in 1..left'[Head(list)]
    <3> DEFINE d == (compare - now) % Modulus
    <3>1. compare # None /\ d \in 1..left[Head(list)] /\ compare \in Ticks
      BY <2>1, <2>3, <1>1 DEF AwaitInv, TypeOK
    <3>2. left[Head(list)] <= Modulus
      BY <2>1, <1>1, ListedTasks, HalfOfClock DEF Unannounced, TypeOK
    <3>3. d \in 1..Modulus /\ d # 1
      <4>1. d \in 1..Modulus
        BY <3>1, <3>2, <2>2, HalfOfClock
      <4> QED BY <4>1, <3>1, <2>1, <1>2, <1>5, TickDistance
    <3>4. (compare - now') % Modulus = d - 1
      BY <3>1, <3>3, <1>2, <1>5, TickDistance
    <3> HIDE DEF d
    <3> QED BY <3>1, <3>3, <3>4, <2>2, HalfOfClock
  <2>4. handler \in {"arm", "recheck"} => TimeTo(release)' <= left'[Head(list)]
    BY <2>1, <2>2, <1>1, <1>13 DEF AwaitInv
  <2>5. handler = "recheck" /\ TimeTo(release)' > 0 => compare = release
    BY <2>1, <1>1, <1>13 DEF AwaitInv
  <2>6. handler # "disable"
    BY <2>1, <1>1 DEF AwaitInv
  <2> QED BY <2>1, <2>3, <2>4, <2>5, <2>6
<1> QED BY <1>7, <1>8, <1>10, <1>11, <1>12, <1>14 DEF DelayInv, TimerInv

-----------------------------------------------------------------------------
(***************************************************************************)
(* The theorems                                                            *)
(***************************************************************************)
LEMMA StutterKeeps ==
  ASSUME DelayInv, UNCHANGED vars
  PROVE  DelayInv'
<1>1. UNCHANGED <<now, list, instant, link, pc, woken, left, irq, compare,
                  handler, release, waking>>
  BY DEF vars, delayVars, timerVars, handlerVars
<1>2. TypeOK /\ TimerInv /\ PopInv /\ AwaitInv
  BY DEF DelayInv, TimerInv
<1>3. TypeOK'
  BY <1>1, <1>2 DEF TypeOK
<1>4. LinkWithinDelay' /\ SortedByTime' /\ InstantIsTime'
  BY <1>1, <1>2, SameDelays
<1>5. PopInv'
  BY <1>1, <1>2 DEF PopInv
<1>6. AwaitInv'
  BY <1>1, <1>2 DEF AwaitInv, Unannounced, TimeTo
<1> QED BY <1>3, <1>4, <1>5, <1>6 DEF DelayInv, TimerInv

LEMMA DelayNext == DelayInv /\ [Next]_vars => DelayInv'
<1> SUFFICES ASSUME DelayInv, [Next]_vars PROVE DelayInv'
  OBVIOUS
<1>1. CASE Tick
  BY <1>1, TickKeeps
<1>2. CASE Handler
  BY <1>2, InterruptKeeps, PopKeeps, WakeKeeps, ArmKeeps, RecheckKeeps, DisableKeeps
  DEF Handler
<1>3. ASSUME NEW t \in Tasks, TaskNext(t) PROVE DelayInv'
  <2>1. CASE \E d \in 0..MaxDelay : Delay(t, d)
    BY <2>1, DelayKeeps
  <2>2. CASE \E d \in -MaxLate..MaxDelay : DelayUntil(t, d)
    BY <2>2, DelayUntilKeeps
  <2>3. CASE PollDelay(t) \/ Insert(t) \/ PendInterrupt(t)
    BY <2>3, PollKeeps, InsertKeeps, PendKeeps
  <2>4. CASE Drop(t) \/ Delete(t)
    BY <2>4, DropKeeps, DeleteKeeps
  <2> QED BY <1>3, <2>1, <2>2, <2>3, <2>4 DEF TaskNext
<1>4. CASE UNCHANGED vars
  BY <1>4, StutterKeeps
<1> QED BY <1>1, <1>2, <1>3, <1>4 DEF Next

\* The list holds the links of delays that exist, in the order in which the
\* delays end, and the handler knows of every head or is told (timer_queue.rs).
THEOREM DelayInvariance == Spec => []DelayInv
<1>1. Init => DelayInv
  BY DelayInit
<1>2. DelayInv /\ [Next]_vars => DelayInv'
  BY DelayNext
<1> QED BY <1>1, <1>2, PTL DEF Spec

\* Links in the list belong to delays that exist, and the list is sorted by
\* the times of the delays although the instants wrap around (LinkedList::insert,
\* pop_if and delete).
THEOREM TimerTheorem == Spec => []TimerInv
<1>1. DelayInv => TimerInv
  BY DEF DelayInv
<1> QED BY <1>1, DelayInvariance, PTL

\* A delay whose link was popped is polled again (on_monotonic_interrupt).
THEOREM PoppedTheorem == Spec => []PoppedIsWoken
<1>1. DelayInv => PoppedIsWoken
  BY DEF DelayInv, PopInv, PoppedIsWoken
<1> QED BY <1>1, DelayInvariance, PTL

\* When the handler is done, the compare register is ahead and no later than
\* the head of the list (the double check after set_compare, and the pend
\* after an insert at the head).
THEOREM AwaitedTheorem == Spec => []HeadIsAwaited
<1>1. DelayInv => HeadIsAwaited
  BY DEF DelayInv, AwaitInv, Unannounced, HeadIsAwaited
<1> QED BY <1>1, DelayInvariance, PTL

\* No delay ends early (Delay::poll with the instant that delay made).
THEOREM NeverEarlyTheorem == Spec => NeverEarly
<1>1. ASSUME DelayInv, [Next]_vars, NEW t \in Tasks, pc[t] = "waiting", pc'[t] = "ready"
      PROVE  left[t] <= 0
  <2>0. pc \in [Tasks -> {"idle", "waiting", "insert", "pend", "ready", "delete"}]
    BY <1>1 DEF DelayInv, TimerInv, TypeOK
  <2>1. PICK u \in Tasks : TaskNext(u)
    <3>1. ~UNCHANGED pc
      BY <1>1
    <3>2. ~Tick /\ ~Handler
      BY <3>1 DEF Tick, Handler, Interrupt, PopIf, WakeTask, Arm, Recheck, Disable,
                  handlerVars, delayVars
    <3> QED BY <3>1, <3>2, <1>1 DEF Next, vars, delayVars
  <2>2. PollDelay(t)
    <3>1. u = t /\ ~(\E d \in 0..MaxDelay : Delay(u, d))
          /\ ~(\E d \in -MaxLate..MaxDelay : DelayUntil(u, d))
      BY <2>0, <2>1, <1>1
      DEF TaskNext, Delay, DelayUntil, Start, PollDelay, Insert, PendInterrupt, Drop,
          Delete, Gone, Goto
    <3> QED BY <3>1, <2>0, <2>1, <1>1
        DEF TaskNext, Insert, PendInterrupt, Drop, Delete, Gone, Goto
  <2>3. IsAtLeast(now, instant[t])
    BY <2>0, <2>2, <1>1 DEF PollDelay, Goto
  <2> QED BY <2>3, <1>1, TimesOfTasks DEF DelayInv
<1>2. DelayInv /\ [Next]_vars =>
        [\A t \in Tasks : pc[t] = "waiting" /\ pc'[t] = "ready" => left[t] <= 0]_vars
  BY <1>1
<1> QED BY <1>2, DelayInvariance, PTL DEF Spec, NeverEarly
=============================================================================
