------------------------------- MODULE Watch --------------------------------
(***************************************************************************)
(* Watch of rtic-sync (src/rtic-sync/src/watch.rs): the store of a Signal  *)
(* with a reader that leaves the value there and marks it as seen.  The    *)
(* specification has both readers; a behaviour has one of them.            *)
(*                                                                         *)
(* The reader looks at the flag, reads the value and sets the flag in      *)
(* three steps.  A value that is written between the last two is marked    *)
(* as seen although nobody has got it (raced).                             *)
(***************************************************************************)
EXTENDS Signal

\* get_inner of try_get; nothing happens when the store is empty.
TryGet ==
  /\ kind = "watch"
  /\ pc = "idle"
  /\ store # Unset
  /\ val' = store
  /\ pc' = "mark"
  /\ UNCHANGED <<kind, writeVars, waker, writer, woken, got, floor, raced>>

Changed ==
  /\ kind = "watch"
  /\ pc = "idle"
  /\ pc' = "waiting"
  /\ woken' = TRUE
  /\ UNCHANGED <<kind, writeVars, waker, writer, val, got, floor, raced>>

\* get_seen
CheckSeen ==
  /\ kind = "watch"
  /\ pc = "poll"
  /\ pc' = IF seen THEN "waiting" ELSE "get"
  /\ UNCHANGED <<kind, writeVars, waker, writer, woken, val, got, floor, raced>>

\* get_inner in changed
GetInner ==
  /\ pc = "get"
  /\ \/ store = Unset /\ pc' = "waiting" /\ UNCHANGED val
     \/ store # Unset /\ pc' = "mark" /\ val' = store
  /\ UNCHANGED <<kind, writeVars, waker, writer, woken, got, floor, raced>>

\* mark_seen, and the value is returned.
MarkSeen ==
  /\ pc = "mark"
  /\ seen' = TRUE
  /\ Return(val)
  /\ UNCHANGED <<kind, store, written, waker, writer, woken, val, raced>>

-----------------------------------------------------------------------------
\* What a poll does after it has registered.
PollStep == Take \/ CheckSeen \/ GetInner \/ MarkSeen

Next ==
  \/ \E w \in Writers : Write(w) \/ Clear(w) \/ WriterStep(w)
  \/ SignalReaderCall \/ TryGet \/ Changed
  \/ Register \/ PollStep \/ Cancel

\* A woken reader is polled, and calls that were begun go on.  Nobody has to
\* write, to read or to cancel.
Fairness ==
  /\ WF_vars(woken /\ Register)
  /\ WF_vars(PollStep)
  /\ \A w \in Writers : WF_vars(WriterStep(w))

Spec == Init /\ [][Next]_vars
FairSpec == Spec /\ Fairness

-----------------------------------------------------------------------------
\* Every variable has the type of the field it stands for.
TypeOK ==
  /\ kind \in {"signal", "watch"}
  /\ store \in Store
  /\ seen \in BOOLEAN
  /\ waker \in BOOLEAN
  /\ writer \in [Writers -> {"idle", "flag", "wake"}]
  /\ pc \in {"idle", "waiting", "poll", "get", "mark"}
  /\ woken \in BOOLEAN
  /\ val \in Store
  /\ got \in Store
  /\ written \in Store
  /\ floor \in Store
  /\ raced \in BOOLEAN

WriterIn(places) == \E w \in Writers : writer[w] \in places

\* A value that the reader's next poll would return.
Unread == store # Unset /\ (kind = "watch" => ~seen)

\* A reader that sleeps beside a value it would return is about to be woken by
\* a writer that is still in its call, and can be woken: no write falls
\* between the look at the store and the registration of the waker.
NoSleepBesideValue ==
  pc = "waiting" /\ ~woken => waker /\ (Unread => WriterIn({"flag", "wake"}))

\* In a watch that nobody has raced, the value that is marked as seen is the
\* one the reader has got, or the writer is about to take the mark off again.
\* With a race the last value may be lost (watch.rs:131, "If the current value
\* is unseen it will be returned immediately").
SeenWasReturned ==
  kind = "watch" /\ seen /\ ~raced => store = got \/ WriterIn({"flag"})

\* A reader that waits gets a value: a signal unless it is cleared first, a
\* watch whenever the store has another value than the one it got last and
\* there was no race.
ReadReturns ==
  /\ kind = "signal" /\ pc = "waiting" /\ store # Unset
       ~> pc = "idle" \/ store = Unset
  /\ []~raced =>
       (kind = "watch" /\ pc = "waiting" /\ store # got ~> pc = "idle")

-----------------------------------------------------------------------------
\* The inductive invariant: PendingIsFresh needs the values to be numbered in
\* the order of the store, NoSleepBesideValue the state of a poll that is in
\* progress, SeenWasReturned the value in the reader's hand.
PollInv ==
  /\ pc \in {"poll", "get"} /\ ~woken => waker
  /\ pc = "get" => kind = "watch" /\ ~seen
  /\ pc = "mark" => kind = "watch" /\ val # Unset

OrderInv == store <= written /\ floor <= written /\ val <= written

\* A value that is newer than the one in the reader's hand has not had its
\* flag reset yet, or there was a race.
HandInv ==
  kind = "watch" /\ pc = "mark" /\ ~raced => store = val \/ WriterIn({"flag"})

WatchInv ==
  /\ TypeOK /\ PollInv /\ OrderInv /\ HandInv
  /\ PendingIsFresh /\ NoSleepBesideValue /\ SeenWasReturned
=============================================================================
