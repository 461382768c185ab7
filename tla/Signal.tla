------------------------------- MODULE Signal -------------------------------
(***************************************************************************)
(* Signal of rtic-sync (src/rtic-sync/src/signal.rs): a store that keeps   *)
(* the last value, written from many places and read by one.               *)
(*                                                                         *)
(* A write is three steps (the store, the seen flag, the wake), a poll of  *)
(* the reader is two (register, take), and the others run in between.  A   *)
(* value is the number of its write, in the order in which they reach the  *)
(* store.  Watch (module Watch) puts another reader on the same store.     *)
(***************************************************************************)
EXTENDS Integers

CONSTANTS
  Writers,    \* the clones of SignalWriter
  MaxWrites   \* bound on the number of writes

ASSUME WritesAssumption == MaxWrites \in Nat

\* Store::Unset; the values are 1..MaxWrites.
Unset == 0
Store == 0..MaxWrites

VARIABLES
  kind,     \* what was split: a "signal" or a "watch"
  store,    \* Signal::store
  seen,     \* Signal::seen
  waker,    \* Signal::waker holds the waker of the reader's task
  writer,   \* where each writer is: idle, flag (value stored), wake
  pc,       \* where the reader is in its call
  woken,    \* the reader's task is to be polled
  val,      \* the value the watch reader has in hand (get_inner)
  got,      \* the value that was returned last (history)
  written,  \* the number of values that were written (history)
  floor,    \* a signal returns only values after this one (history)
  raced     \* a value came between get_inner and mark_seen (history)

writeVars == <<store, seen, written>>
vars == <<kind, writeVars, waker, writer, pc, woken, val, got, floor, raced>>

Init ==
  /\ kind \in {"signal", "watch"}
  /\ store = Unset
  /\ seen = FALSE
  /\ waker = FALSE
  /\ writer = [w \in Writers |-> "idle"]
  /\ pc = "idle"
  /\ woken = FALSE
  /\ val = Unset
  /\ got = Unset
  /\ written = 0
  /\ floor = 0
  /\ raced = FALSE

-----------------------------------------------------------------------------
(***************************************************************************)
(* The writers: write_inner                                                *)
(***************************************************************************)
WriterAt(w, from, to) == writer[w] = from /\ writer' = [writer EXCEPT ![w] = to]

\* A bug: the flag is not touched by a write.
WriteUnflagged(w) ==
  /\ WriterAt(w, "idle", "wake")
  /\ written < MaxWrites
  /\ written' = written + 1
  /\ store' = written'
  /\ UNCHANGED <<kind, seen, waker, pc, woken, val, got, floor, raced>>

\* write: the value goes into the store.
Write(w) ==
  /\ WriterAt(w, "idle", "flag")
  /\ written < MaxWrites
  /\ written' = written + 1
  /\ store' = written'
  /\ UNCHANGED <<kind, seen, waker, pc, woken, val, got, floor, raced>>

\* clear: a watch does not offer it.
Clear(w) ==
  /\ kind = "signal"
  /\ WriterAt(w, "idle", "flag")
  /\ store' = Unset
  /\ UNCHANGED <<kind, seen, waker, pc, woken, val, got, written, floor, raced>>

ResetSeen(w) ==
  /\ WriterAt(w, "flag", "wake")
  /\ seen' = FALSE
  /\ raced' = (raced \/ (pc = "mark" /\ store # val))
  /\ UNCHANGED <<kind, store, waker, pc, woken, val, got, written, floor>>

\* A bug: a reader that is in the middle of a poll is not woken.
WakeSleeping(w) ==
  /\ WriterAt(w, "wake", "idle")
  /\ woken' = (woken \/ (waker /\ pc = "waiting"))
  /\ waker' = FALSE
  /\ UNCHANGED <<kind, writeVars, pc, val, got, floor, raced>>

\* CriticalSectionWakerRegistration::wake
Wake(w) ==
  /\ WriterAt(w, "wake", "idle")
  /\ woken' = (woken \/ waker)
  /\ waker' = FALSE
  /\ UNCHANGED <<kind, writeVars, pc, val, got, floor, raced>>

WriterStep(w) == ResetSeen(w) \/ Wake(w)

-----------------------------------------------------------------------------
(***************************************************************************)
(* SignalReader                                                            *)
(***************************************************************************)

\* The value is returned; the next one is younger.
Return(v) == got' = v /\ floor' = v /\ pc' = "idle"

\* A bug: the value stays in the store.
TakeAndKeep ==
  \/ store = Unset /\ pc' = "waiting" /\ UNCHANGED <<store, got, floor>>
  \/ store # Unset /\ Return(store) /\ UNCHANGED store

\* The match on take() in wait.
TakeOrPend ==
  \/ store = Unset /\ pc' = "waiting" /\ UNCHANGED <<store, got, floor>>
  \/ store # Unset /\ Return(store) /\ store' = Unset

\* try_read; it changes nothing when the store is empty.
TryRead ==
  /\ kind = "signal"
  /\ pc = "idle"
  /\ store # Unset
  /\ TakeOrPend
  /\ UNCHANGED <<kind, seen, waker, writer, woken, val, written, raced>>

\* wait is called, or wait_fresh, which takes what is there first.
Wait ==
  /\ kind = "signal"
  /\ pc = "idle"
  /\ pc' = "waiting"
  /\ woken' = TRUE
  /\ \/ UNCHANGED <<store, floor>>
     \/ store' = Unset /\ floor' = written
  /\ UNCHANGED <<kind, seen, waker, writer, val, got, written, raced>>

\* A poll of either reader begins by registering the waker.
Register ==
  /\ pc = "waiting"
  /\ pc' = "poll"
  /\ waker' = TRUE
  /\ woken' = FALSE
  /\ UNCHANGED <<kind, writeVars, writer, val, got, floor, raced>>

Take ==
  /\ kind = "signal"
  /\ pc = "poll"
  /\ TakeOrPend
  /\ UNCHANGED <<kind, seen, waker, writer, woken, val, written, raced>>

\* The future of wait or changed is dropped; its waker stays registered.
Cancel ==
  /\ pc = "waiting"
  /\ pc' = "idle"
  /\ UNCHANGED <<kind, writeVars, waker, writer, woken, val, got, floor, raced>>

SignalReaderCall == TryRead \/ Wait

-----------------------------------------------------------------------------
\* Nothing that a signal still has in its store was returned before, or was
\* there when wait_fresh was called (signal.rs:160, "it will be evicted and a
\* new value must be written for the wait to resolve").
PendingIsFresh == kind = "signal" => store = Unset \/ store > floor
=============================================================================
