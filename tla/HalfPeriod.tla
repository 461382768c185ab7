----------------------------- MODULE HalfPeriod -----------------------------
(***************************************************************************)
(* The clock of rtic-monotonics: a timer that overflows, a counter of its  *)
(* half periods, and calculate_now of rtic-time, which reads one after the *)
(* other (src/rtic-time/src/half_period_counter.rs, with the interrupt     *)
(* handler of src/rtic-monotonics/src/stm32.rs; nrf/timer.rs and           *)
(* nrf/rtc.rs have the same one).                                          *)
(*                                                                         *)
(* The timer runs on between any two steps.  It goes through two halves of *)
(* Half ticks, and each half begins with an interrupt flag.  Tasks of any  *)
(* priority ask for the time, also while the handler is in the middle of   *)
(* counting; calculate_now itself is a critical section.                   *)
(***************************************************************************)
EXTENDS Integers

CONSTANTS
  Half,         \* half a period of the timer, 2^(BITS - 1)
  CounterSize,  \* the number of values of the period counter, 2^32 or 2^64
  MaxHalves     \* bound on the number of half periods

ASSUME SizeAssumption ==
  /\ Half \in Nat /\ Half > 1
  /\ CounterSize \in Nat \ {0} /\ CounterSize % 2 = 0
  /\ MaxHalves \in Nat

VARIABLES
  half,          \* the half periods that have begun since the start
  offset,        \* the ticks since the last one began
  uif,           \* the flag of the overflow
  ccif,          \* the flag of the compare register at half the period
  half_periods,  \* the static $overflow
  on_interrupt,  \* the place in on_interrupt
  reading,       \* calculate_now is between its two reads
  periods,       \* the half_periods it has read
  result         \* the last result of calculate_now

tickVars == <<half, offset>>
readVars == <<reading, periods, result>>
counterVars == <<tickVars, readVars, uif, ccif, half_periods, on_interrupt>>

\* The count register: the first or the second half of the period.
TimerValue == (half % 2) * Half + offset

\* The timer starts at 0, or at 1 on an STM32.
InitCounter ==
  /\ half = 0
  /\ offset \in 0..1
  /\ uif = FALSE
  /\ ccif = FALSE
  /\ half_periods = 0
  /\ on_interrupt = "off"
  /\ reading = FALSE
  /\ periods = 0
  /\ result = 0

-----------------------------------------------------------------------------
\* "Both the overflow interrupt and the half-way interrupt must be processed
\* within half a timer period" (half_period_counter.rs:38): that is up to the
\* application.
CountedInTime == ~uif /\ ~ccif /\ on_interrupt \notin {"overflow", "half"}

TimerTick ==
  /\ \/ offset < Half - 1 /\ offset' = offset + 1 /\ UNCHANGED <<half, uif, ccif>>
     \/ /\ offset = Half - 1
        /\ CountedInTime
        /\ half < MaxHalves
        /\ half' = half + 1
        /\ offset' = 0
        /\ uif' = (half' % 2 = 0)
        /\ ccif' = (half' % 2 = 1)
  /\ UNCHANGED <<readVars, half_periods, on_interrupt>>

-----------------------------------------------------------------------------
(***************************************************************************)
(* on_interrupt                                                            *)
(***************************************************************************)
Increment == half_periods' = (half_periods + 1) % CounterSize

\* A bug: calculate_now without its critical section.
MayInterruptAlways == TRUE

\* calculate_now is not interrupted between its reads.
MayInterrupt == ~reading

HandlerStep(from, to) == MayInterrupt /\ on_interrupt = from /\ on_interrupt' = to

\* The interrupt comes for one of the two flags, or for the compare register
\* of the timer queue.
TestOverflow ==
  /\ HandlerStep("off", IF uif THEN "overflow" ELSE "test")
  /\ uif' = FALSE
  /\ UNCHANGED <<tickVars, readVars, ccif, half_periods>>

CountOverflow ==
  /\ HandlerStep("overflow", "test")
  /\ Increment
  /\ UNCHANGED <<tickVars, readVars, uif, ccif>>

\* A bug: the flag of the half period is not cleared.
TestHalfOnly ==
  /\ HandlerStep("test", IF ccif THEN "half" ELSE "off")
  /\ UNCHANGED <<tickVars, readVars, uif, ccif, half_periods>>

TestHalf ==
  /\ HandlerStep("test", IF ccif THEN "half" ELSE "off")
  /\ ccif' = FALSE
  /\ UNCHANGED <<tickVars, readVars, uif, half_periods>>

CountHalf ==
  /\ HandlerStep("half", "off")
  /\ Increment
  /\ UNCHANGED <<tickVars, readVars, uif, ccif>>

-----------------------------------------------------------------------------
(***************************************************************************)
(* calculate_now                                                           *)
(***************************************************************************)

\* The upper and the lower half of the result: the counter shifted, and the
\* timer with its highest bit turned over when the counter is odd.
Combine(counter, timer) ==
  counter * Half +
    (IF counter % 2 = 1 THEN (timer + Half) % (2 * Half) ELSE timer)

ReadPeriods ==
  /\ ~reading
  /\ reading' = TRUE
  /\ periods' = half_periods
  /\ UNCHANGED <<tickVars, result, uif, ccif, half_periods, on_interrupt>>

\* When the counter starts again and the interrupt for it is still to come,
\* the result is one Range too high; so it is taken modulo Range.
ReadTimer ==
  /\ reading
  /\ reading' = FALSE
  /\ result' = Combine(periods, TimerValue) % (CounterSize * Half)
  /\ UNCHANGED <<tickVars, periods, uif, ccif, half_periods, on_interrupt>>

-----------------------------------------------------------------------------
OnInterrupt == TestOverflow \/ CountOverflow \/ TestHalf \/ CountHalf

NextCounter == TimerTick \/ OnInterrupt \/ ReadPeriods \/ ReadTimer

CounterSpec == InitCounter /\ [][NextCounter]_counterVars

-----------------------------------------------------------------------------
\* Every variable has the type of what it stands for.
CounterTypeOK ==
  /\ half \in Nat
  /\ offset \in 0..Half-1
  /\ uif \in BOOLEAN
  /\ ccif \in BOOLEAN
  /\ half_periods \in 0..CounterSize-1
  /\ on_interrupt \in {"off", "overflow", "test", "half"}
  /\ reading \in BOOLEAN
  /\ periods \in 0..CounterSize-1
  /\ result \in 0..CounterSize * Half - 1

\* The overflow and the half period are counted in turn: neither assertion of
\* on_interrupt, "Monotonic must have missed an interrupt!", can fail
\* (stm32.rs:413 and 422), although both flags are read and cleared while the
\* timer runs on.
AssertsHold ==
  /\ on_interrupt = "overflow" => half_periods % 2 = 1
  /\ on_interrupt = "half" => half_periods % 2 = 0

\* "calculate_now will reliably return the correct time value"
\* (half_period_counter.rs:42): a call is a single look at a clock that counts
\* every tick, however the timer, the interrupt and the two reads interleave.
TheClock == INSTANCE Clock WITH
              Range <- CounterSize * Half, time <- half * Half + offset, now <- result
ImplementsClock == TheClock!Spec

-----------------------------------------------------------------------------
\* The inductive invariant: the counter is behind by what is being counted.
Uncounted == uif \/ ccif \/ on_interrupt \in {"overflow", "half"}

CountInv ==
  /\ IF Uncounted THEN half > 0 /\ half_periods = (half - 1) % CounterSize
     ELSE half_periods = half % CounterSize
  /\ uif => half % 2 = 0 /\ ~ccif /\ on_interrupt \notin {"overflow", "half"}
  /\ ccif => half % 2 = 1 /\ on_interrupt \notin {"overflow", "half"}
  /\ on_interrupt = "overflow" => half % 2 = 0
  /\ on_interrupt = "half" => half % 2 = 1

\* Nothing is counted while calculate_now runs.
ReadInv == reading => periods = half_periods

HalfPeriodInv == CounterTypeOK /\ CountInv /\ ReadInv /\ AssertsHold
=============================================================================
