------------------------------- MODULE Locks --------------------------------
(***************************************************************************)
(* Shared resources at run time: lock and run of the backends              *)
(* (src/rtic/src/export/cortex_basepri.rs, cortex_source_mask.rs,          *)
(* riscv_esp32c3.rs, riscv_esp32c6.rs) under the preemption of one core,   *)
(* with the ceilings that the analysis has computed.                       *)
(*                                                                         *)
(* The chip (external) starts an interrupt at any time when its priority   *)
(* is above that of everything that has begun and it is not masked.  What  *)
(* has begun are the tasks of `active`; their priorities differ, and the   *)
(* highest one runs.  A task takes locks inside locks and gives them back  *)
(* in reverse order, because a lock is a closure.                          *)
(*                                                                         *)
(* The registers: `level` masks the priorities up to it.  It stands for    *)
(* BASEPRI, whose hardware values run the other way and where 0 masks      *)
(* nothing, and for the threshold of the ESP32, which lets priorities from *)
(* its value on through (level + 1).  `enabled` are the enable bits of the *)
(* NVIC; software tasks of one priority have one bit, their dispatcher's.  *)
(* `primask` is set in a critical section.                                 *)
(***************************************************************************)
EXTENDS Analysis, Sequences

CONSTANT Backends   \* the backends to look at

ASSUME BackendsAssumption ==
  Backends \subseteq {"basepri", "source_mask", "threshold"}

VARIABLES
  backend,  \* the backend the program is built for
  active,   \* the tasks that have begun: idle, and the preempted ones
  regs,     \* the registers that mask interrupts
  initial,  \* the local of run: the level at the beginning of the task
  reading,  \* the registers were read by a lock that has not written them yet
  held      \* the locks a task is in, and what each will restore

lockVars == <<backend, active, regs, initial, reading, held>>
vars == <<analysisVars, lockVars>>

Registers == [level : 0..Top, enabled : SUBSET Interrupts, primask : BOOLEAN]
Frame == [res : Resources, saved : Registers]

Ceiling(r) == ownerships[r].ceiling

\* reading[t] has at most one frame.
NoFrame == << >>

Init ==
  /\ InitAnalysis
  /\ backend \in Backends
  /\ active = {Idle}
  /\ regs = [level |-> 0, enabled |-> Interrupts, primask |-> FALSE]
  /\ initial = [t \in Tasks |-> 0]
  /\ reading = [t \in Tasks |-> NoFrame]
  /\ held = [t \in Tasks |-> << >>]

-----------------------------------------------------------------------------
LevelMasked(s, t) ==
  IF backend = "source_mask" THEN t \notin s.enabled ELSE prio(t) <= s.level

Masked(t) == regs.primask \/ LevelMasked(regs, t)

Running(t) == t \in active /\ \A u \in active \ {t} : prio(u) < prio(t)

HeldBy(t) == {held[t][i].res : i \in DOMAIN held[t]}

\* An interrupt arrives and its handler enters run.  The priorities of the
\* ESP32 are below the one that stands for a critical section.
Start(t) ==
  /\ phase = "run"
  /\ t \in Interrupts
  /\ backend = "threshold" => prio(t) < Top
  /\ \A u \in active : prio(u) < prio(t)
  /\ ~Masked(t)
  /\ active' = active \cup {t}
  /\ initial' = [initial EXCEPT ![t] = regs.level]
  /\ UNCHANGED <<analysisVars, backend, regs, reading, held>>

\* The handler is over and run writes the level back.
Finish(t) ==
  /\ t # Idle
  /\ Running(t)
  /\ held[t] = << >> /\ reading[t] = NoFrame
  /\ active' = active \ {t}
  /\ regs' = IF backend = "source_mask" THEN regs
             ELSE [regs EXCEPT !.level = IF prio(t) = 1 THEN 0 ELSE initial[t]]
  /\ UNCHANGED <<analysisVars, backend, initial, reading, held>>

\* lock begins: it reads the registers.  The resource is not one the task has
\* locked already, since that would need a second &mut to its proxy.
ReadRegisters(t, r) ==
  /\ phase = "run"
  /\ Running(t)
  /\ r \in Uses(t) \ (LockFree \cup ReadOnly \cup HeldBy(t))
  /\ reading[t] = NoFrame
  /\ reading' = [reading EXCEPT ![t] = <<[res |-> r, saved |-> regs]>>]
  /\ UNCHANGED <<analysisVars, backend, active, regs, initial, held>>

\* compute_mask(0, ceiling): the interrupts of the priorities up to it.
Mask(r) == {t \in Interrupts : prio(t) <= Ceiling(r)}

\* A bug: basepri instead of basepri_max.
RaiseUnconditionally(r) ==
  CASE Ceiling(r) = Top -> [regs EXCEPT !.primask = TRUE]
    [] Ceiling(r) # Top /\ backend = "source_mask" ->
         [regs EXCEPT !.enabled = @ \ Mask(r)]
    [] Ceiling(r) # Top /\ backend # "source_mask" ->
         [regs EXCEPT !.level = Ceiling(r)]

\* What lock writes before the closure runs.  The threshold is written
\* whatever it is, BASEPRI_MAX takes larger values only.
Raise(r) ==
  CASE Ceiling(r) = Top -> [regs EXCEPT !.primask = TRUE]
    [] Ceiling(r) # Top /\ backend = "source_mask" ->
         [regs EXCEPT !.enabled = @ \ Mask(r)]
    [] Ceiling(r) # Top /\ backend = "threshold" ->
         [regs EXCEPT !.level = Ceiling(r)]
    [] Ceiling(r) # Top /\ backend = "basepri" ->
         [regs EXCEPT !.level = IF Ceiling(r) > @ THEN Ceiling(r) ELSE @]

\* A bug: the registers are read after they were written.
EnterLockReadsLate(t) ==
  /\ Running(t)
  /\ reading[t] # NoFrame
  /\ regs' = Raise(reading[t][1].res)
  /\ held' = [held EXCEPT ![t] = Append(@, [reading[t][1] EXCEPT !.saved = regs'])]
  /\ reading' = [reading EXCEPT ![t] = NoFrame]
  /\ UNCHANGED <<analysisVars, backend, active, initial>>

\* The registers are written and the closure is called.
EnterLock(t) ==
  /\ Running(t)
  /\ reading[t] # NoFrame
  /\ regs' = Raise(reading[t][1].res)
  /\ held' = [held EXCEPT ![t] = Append(@, reading[t][1])]
  /\ reading' = [reading EXCEPT ![t] = NoFrame]
  /\ UNCHANGED <<analysisVars, backend, active, initial>>

\* A bug: the bits of the mask are set, whether they were set before or not.
RestoreMask(f) ==
  CASE Ceiling(f.res) = Top -> [regs EXCEPT !.primask = f.saved.primask]
    [] Ceiling(f.res) # Top /\ backend = "source_mask" ->
         [regs EXCEPT !.enabled = @ \cup Mask(f.res)]
    [] Ceiling(f.res) # Top /\ backend # "source_mask" ->
         [regs EXCEPT !.level = f.saved.level]

\* What lock writes when the closure has returned.  Writing ones to the
\* enable register enables, and zeros change nothing.
Restore(f) ==
  CASE Ceiling(f.res) = Top -> [regs EXCEPT !.primask = f.saved.primask]
    [] Ceiling(f.res) # Top /\ backend = "source_mask" ->
         [regs EXCEPT !.enabled = @ \cup
            (IF Mask(f.res) = {} THEN {} ELSE f.saved.enabled)]
    [] Ceiling(f.res) # Top /\ backend # "source_mask" ->
         [regs EXCEPT !.level = f.saved.level]

ExitLock(t) ==
  /\ Running(t)
  /\ reading[t] = NoFrame
  /\ held[t] # << >>
  /\ regs' = Restore(held[t][Len(held[t])])
  /\ held' = [held EXCEPT ![t] = SubSeq(@, 1, Len(@) - 1)]
  /\ UNCHANGED <<analysisVars, backend, active, initial, reading>>

-----------------------------------------------------------------------------
TaskNext(t) ==
  \/ Start(t) \/ Finish(t)
  \/ \E r \in Resources : ReadRegisters(t, r)
  \/ EnterLock(t) \/ ExitLock(t)

Next ==
  \/ Analyse /\ UNCHANGED lockVars
  \/ \E t \in Tasks : TaskNext(t)

Spec == Init /\ [][Next]_vars

-----------------------------------------------------------------------------
\* The registers and the locals have their types.
LocksTypeOK ==
  /\ backend \in Backends
  /\ active \subseteq Tasks
  /\ Idle \in active
  /\ regs \in Registers
  /\ initial \in [Tasks -> 0..Top]
  /\ reading \in [Tasks -> Seq(Frame)]
  /\ held \in [Tasks -> Seq(Frame)]

Below(u, t) == u \in active /\ t \in active /\ prio(u) < prio(t)

\* The threshold of an ESP32 is lowered by a lock inside of one with a higher
\* ceiling.
Lowered ==
  /\ backend = "threshold"
  /\ \E t \in active : \E i, j \in DOMAIN held[t] :
       i < j /\ Ceiling(held[t][i].res) > Ceiling(held[t][j].res)

\* A task that has begun finds none of its resources locked, so a lock never
\* waits, and no two tasks are inside the same resource (resources.md:73,
\* "raises the dynamic priority of the context to a ceiling priority that
\* prevents other tasks from preempting the critical section").
NoConflict ==
  ~Lowered =>
    \A u, t \in Tasks : Below(u, t) => HeldBy(u) \cap Uses(t) = {}

\* A resource that is used without a lock is used by one task at a time: the
\* check that rejects applications is strong enough for the preemption rule.
LockFreeExclusive ==
  phase = "run" => \A u, t \in active :
    u # t => Uses(u) \cap Uses(t) \cap LockFree = {}

\* An interrupt is masked for the time of a lock only: whatever locks were
\* nested and whoever preempted, what was masked is unmasked again.
MaskIsHeld ==
  \A t \in Interrupts : Masked(t) =>
    \E u \in active : \E r \in HeldBy(u) : prio(t) <= Ceiling(r)

\* A task is held up by the locks of at most one task of a lower priority.
SingleBlocking ==
  ~Lowered => \A t \in Interrupts : \A u, v \in active :
    /\ prio(u) < prio(t) /\ \E r \in HeldBy(u) : prio(t) <= Ceiling(r)
    /\ prio(v) < prio(t) /\ \E r \in HeldBy(v) : prio(t) <= Ceiling(r)
    => u = v

\* riscv_esp32c3.rs:43, "The system ceiling is raised from current to
\* ceiling": with each backend no task finds a resource of its own locked.
NeverInLocked ==
  \A u, t \in Tasks : Below(u, t) => HeldBy(u) \cap Uses(t) = {}
=============================================================================
