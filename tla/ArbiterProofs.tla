--------------------------- MODULE ArbiterProofs ---------------------------
(***************************************************************************)
(* Proofs about Arbiter for any set of tasks: the value has one owner at a *)
(* time, whatever accesses are cancelled, owners are woken, and ownership  *)
(* is passed on in the order of the queue.                                 *)
(*                                                                         *)
(* MutualExclusion is not inductive: that a task which finds the value     *)
(* available is alone follows from TakenInv, and that the popped task was  *)
(* not served already from LinksInv.                                       *)
(***************************************************************************)
EXTENDS Arbiter, QueueLemmas

LEMMA InitArbiterInv == Init => ArbiterInv
<1> SUFFICES ASSUME Init PROVE ArbiterInv
  OBVIOUS
<1>1. Range(<< >>) = {} /\ IsInjective(<< >>)
  BY DEF Range, IsInjective
<1>2. waitq \in Seq(Tasks)
  BY EmptySeq DEF Init
<1>3. taken \in BOOLEAN /\ lost \in BOOLEAN
  BY Zenon DEF Init
<1>4. TypeOK
  BY <1>2, <1>3 DEF Init, TypeOK
<1>5. LinksInv /\ TakenInv /\ MutualExclusion
  BY <1>1 DEF Init, LinksInv, TakenInv, MutualExclusion, Owns
<1> QED BY <1>4, <1>5 DEF ArbiterInv

-----------------------------------------------------------------------------
\* The queue and the links through a poll, a cancel and a release.
LEMMA PollQueue ==
  ASSUME TypeOK, LinksInv, NEW t \in Tasks, Poll(t)
  PROVE  waitq' \in Seq(Tasks) /\ LinksInv'
<1>0. waitq \in Seq(Tasks) /\ IsInjective(waitq)
  BY DEF TypeOK, LinksInv
<1>1. CASE waitq' = waitq
  <2>1. \/ link' = [link EXCEPT ![t] = "none"]
           /\ (waitq = << >> \/ link[t] = "popped")
        \/ link' = link /\ pc' = pc
    BY <1>0, <1>1, AppendElement DEF Poll, Available, TypeOK, LinksInv
  <2>2. \A u \in Tasks : u # t => pc'[u] = pc[u]
    BY DEF Poll, Goto, TypeOK
  <2>3. waitq = << >> => \A u \in Tasks : u \notin Range(waitq)
    BY DEF Range
  <2> QED BY <1>0, <1>1, <2>1, <2>2, <2>3 DEF LinksInv, TypeOK
<1>2. CASE waitq' # waitq
  <2>1. /\ waitq' = Append(waitq, t)
        /\ link' = [link EXCEPT ![t] = "linked"]
        /\ link[t] = "none" /\ pc' = pc /\ pc[t] = "waiting"
    BY <1>2 DEF Poll
  <2>2. t \notin Range(waitq)
    BY <2>1 DEF LinksInv
  <2>3. /\ waitq' \in Seq(Tasks)
        /\ IsInjective(waitq')
        /\ Range(waitq') = Range(waitq) \cup {t}
    BY <1>0, <2>1, <2>2, AppendElement
  <2> QED BY <2>1, <2>3 DEF LinksInv, TypeOK
<1> QED BY <1>1, <1>2

LEMMA CancelQueue ==
  ASSUME TypeOK, LinksInv, NEW t \in Tasks, Cancel(t)
  PROVE  waitq' \in Seq(Tasks) /\ LinksInv'
<1>0. waitq \in Seq(Tasks) /\ IsInjective(waitq)
  BY DEF TypeOK, LinksInv
<1>1. /\ link' = [link EXCEPT ![t] = "none"]
      /\ pc' = [pc EXCEPT ![t] = "idle"]
  BY DEF Cancel, Goto
<1>2. CASE link[t] = "linked"
  <2>1. PICK i \in DOMAIN waitq : waitq[i] = t /\ waitq' = RemoveAt(waitq, i)
    BY <1>2 DEF Cancel
  <2>2. /\ waitq' \in Seq(Tasks)
        /\ IsInjective(waitq')
        /\ Range(waitq') = Range(waitq) \ {t}
    BY <1>0, <2>1, RemoveAtElements
  <2> QED BY <1>1, <2>2 DEF LinksInv, TypeOK
<1>3. CASE link[t] # "linked"
  <2>1. waitq' = waitq
    BY <1>3 DEF Cancel
  <2> QED BY <1>0, <1>1, <1>3, <2>1 DEF LinksInv, TypeOK
<1> QED BY <1>2, <1>3

\* A release pops the head of the queue, which had a pending access.
LEMMA ReleaseHead ==
  ASSUME TypeOK, LinksInv, NEW t \in Tasks, Release(t), waitq # << >>
  PROVE  \E h \in Tasks :
           /\ h = Head(waitq)
           /\ h # t
           /\ link[h] = "linked"
           /\ pc[h] = "waiting"
           /\ link' = [link EXCEPT ![h] = "popped"]
           /\ woken' = [woken EXCEPT ![h] = TRUE]
           /\ taken' = taken
           /\ waitq' \in Seq(Tasks)
           /\ IsInjective(waitq')
           /\ Range(waitq') = Range(waitq) \ {h}
<1> DEFINE h == Head(waitq)
<1>0. waitq \in Seq(Tasks) /\ IsInjective(waitq)
  BY DEF TypeOK, LinksInv
<1>1. /\ h \in Tasks
      /\ h \in Range(waitq)
      /\ Tail(waitq) \in Seq(Tasks)
      /\ Range(Tail(waitq)) = Range(waitq) \ {h}
      /\ IsInjective(Tail(waitq))
  BY <1>0, TailElements
<1>2. /\ waitq' = Tail(waitq)
      /\ link' = [link EXCEPT ![h] = "popped"]
      /\ woken' = [woken EXCEPT ![h] = TRUE]
      /\ taken' = taken
      /\ pc[t] = "holding"
  BY DEF Release
<1>3. h = Head(waitq)
  OBVIOUS
<1> HIDE DEF h
<1>4. link[h] = "linked" /\ pc[h] = "waiting" /\ h # t
  BY <1>1, <1>2 DEF LinksInv
<1> QED BY <1>1, <1>2, <1>3, <1>4, Zenon

-----------------------------------------------------------------------------
LEMMA NextArbiterInv == ArbiterInv /\ [Next]_vars => ArbiterInv'
<1> SUFFICES ASSUME ArbiterInv, [Next]_vars PROVE ArbiterInv'
  OBVIOUS
<1>0. TypeOK /\ LinksInv /\ TakenInv /\ MutualExclusion
  BY DEF ArbiterInv
<1>1. ASSUME NEW t \in Tasks, Access(t) PROVE ArbiterInv'
  <2>1. /\ pc' = [pc EXCEPT ![t] = "waiting"] /\ pc[t] = "idle"
        /\ woken' = [woken EXCEPT ![t] = TRUE]
        /\ UNCHANGED <<waitq, taken, link, lost>>
    BY <1>1 DEF Access, Goto
  <2>2. TypeOK'
    BY <1>0, <2>1 DEF TypeOK
  <2>3. LinksInv'
    BY <1>0, <2>1 DEF LinksInv, TypeOK
  <2>4. \A u \in Tasks : Owns(u)' <=> Owns(u)
    BY <1>0, <2>1 DEF Owns, TypeOK
  <2> QED BY <1>0, <2>1, <2>2, <2>3, <2>4
          DEF ArbiterInv, TakenInv, MutualExclusion
<1>2. ASSUME NEW t \in Tasks, Poll(t) PROVE ArbiterInv'
  <2>1. waitq' \in Seq(Tasks) /\ LinksInv'
    BY <1>0, <1>2, PollQueue
  <2>2. /\ lost' = lost
        /\ woken' = [woken EXCEPT ![t] = FALSE]
        /\ pc' = pc \/ pc' = [pc EXCEPT ![t] = "holding"]
    BY <1>2 DEF Poll, Goto
  <2>3. /\ taken' \in BOOLEAN
        /\ pc' \in [Tasks -> {"idle", "waiting", "holding"}]
        /\ link' \in [Tasks -> {"none", "linked", "popped"}]
        /\ woken' \in [Tasks -> BOOLEAN]
    <3>1. taken' = taken \/ taken' = TRUE
      BY <1>2 DEF Poll
    <3>2. \/ link' = link
          \/ \E x \in {"none", "linked", "popped"} :
               link' = [link EXCEPT ![t] = x]
      BY <1>2 DEF Poll
    <3>3. taken' \in BOOLEAN
      BY <1>0, <3>1, Zenon DEF TypeOK
    <3> QED BY <1>0, <2>2, <3>2, <3>3 DEF TypeOK
  <2>4. TypeOK'
    BY <1>0, <2>1, <2>2, <2>3 DEF TypeOK
  <2>5. CASE Available
    <3>1. taken' = TRUE /\ ~taken /\ ~lost
      BY <1>0, <1>2, <2>5 DEF Poll, Available, TakenInv
    <3>2. \A u \in Tasks : ~Owns(u)
      BY <1>0, <3>1 DEF TakenInv
    <3>3. \A u \in Tasks : Owns(u)' => u = t
      BY <1>0, <1>2, <2>5, <3>2 DEF Poll, Goto, Owns, TypeOK
    <3> QED BY <2>1, <2>2, <2>4, <3>1, <3>3
            DEF ArbiterInv, TakenInv, MutualExclusion
  <2>6. CASE ~Available
    <3>1. taken' = taken
      BY <1>2, <2>6 DEF Poll
    <3>2. \A u \in Tasks : Owns(u)' => Owns(u)
      BY <1>0, <1>2, <2>6 DEF Poll, Goto, Owns, TypeOK
    <3>3. waitq' # << >> => taken
      BY <1>0, <1>2, <2>6 DEF Poll, Available, TakenInv
    <3> QED BY <1>0, <2>1, <2>2, <2>4, <3>1, <3>2, <3>3
            DEF ArbiterInv, TakenInv, MutualExclusion
  <2> QED BY <2>5, <2>6
<1>3. ASSUME NEW t \in Tasks, Cancel(t) PROVE ArbiterInv'
  <2>1. waitq' \in Seq(Tasks) /\ LinksInv'
    BY <1>0, <1>3, CancelQueue
  <2>2. /\ pc' = [pc EXCEPT ![t] = "idle"] /\ pc[t] = "waiting"
        /\ link' = [link EXCEPT ![t] = "none"]
        /\ lost' = (lost \/ link[t] = "popped")
        /\ UNCHANGED <<taken, woken>>
    BY <1>3 DEF Cancel, Goto
  <2>3. lost' \in BOOLEAN
    BY <2>2, Zenon
  <2>4. TypeOK'
    BY <1>0, <2>1, <2>2, <2>3 DEF TypeOK
  <2>5. \A u \in Tasks : Owns(u)' => Owns(u) /\ u # t
    BY <1>0, <2>2 DEF Owns, TypeOK
  <2>6. Owns(t) <=> link[t] = "popped"
    BY <2>2 DEF Owns
  <2>7. waitq' # << >> => waitq # << >>
    BY <1>3 DEF Cancel
  <2>8. TakenInv'
    BY <1>0, <2>2, <2>5, <2>6, <2>7 DEF TakenInv, MutualExclusion
  <2> QED BY <1>0, <2>1, <2>4, <2>5, <2>8 DEF ArbiterInv, MutualExclusion
<1>4. ASSUME NEW t \in Tasks, TryAccess(t) PROVE ArbiterInv'
  <2>1. /\ pc' = [pc EXCEPT ![t] = "holding"] /\ pc[t] = "idle"
        /\ taken' = TRUE /\ ~taken
        /\ UNCHANGED <<waitq, link, woken, lost>>
    BY <1>4 DEF TryAccess, Goto, Available
  <2>2. taken' \in BOOLEAN
    BY <2>1, Zenon
  <2>3. TypeOK'
    BY <1>0, <2>1, <2>2 DEF TypeOK
  <2>4. LinksInv'
    BY <1>0, <2>1 DEF LinksInv, TypeOK
  <2>5. \A u \in Tasks : Owns(u)' => u = t
    BY <1>0, <2>1 DEF Owns, TypeOK, TakenInv
  <2> QED BY <1>0, <2>1, <2>3, <2>4, <2>5
          DEF ArbiterInv, TakenInv, MutualExclusion
<1>5. ASSUME NEW t \in Tasks, Release(t) PROVE ArbiterInv'
  <2>1. /\ pc' = [pc EXCEPT ![t] = "idle"] /\ pc[t] = "holding"
        /\ lost' = lost
    BY <1>5 DEF Release, Goto
  <2>2. \A u \in Tasks : u # t => ~Owns(u)
    BY <1>0, <2>1 DEF MutualExclusion, Owns
  <2>3. taken /\ ~lost /\ link[t] = "none"
    BY <1>0, <2>1 DEF TakenInv, Owns, LinksInv, TypeOK
  <2>4. CASE waitq = << >>
    <3>1. taken' = FALSE /\ UNCHANGED <<waitq, link, woken>>
      BY <1>5, <2>4 DEF Release
    <3>2. taken' \in BOOLEAN
      BY <3>1, Zenon
    <3>3. TypeOK'
      BY <1>0, <2>1, <3>1, <3>2 DEF TypeOK
    <3>4. LinksInv'
      BY <1>0, <2>1, <2>3, <3>1 DEF LinksInv, TypeOK
    <3>5. \A u \in Tasks : ~Owns(u)'
      BY <1>0, <2>1, <2>2, <2>3, <3>1 DEF Owns, TypeOK
    <3> QED BY <2>1, <2>3, <2>4, <3>1, <3>3, <3>4, <3>5
            DEF ArbiterInv, TakenInv, MutualExclusion
  <2>5. CASE waitq # << >>
    <3>1. PICK h \in Tasks :
            /\ h # t
            /\ link[h] = "linked"
            /\ pc[h] = "waiting"
            /\ link' = [link EXCEPT ![h] = "popped"]
            /\ woken' = [woken EXCEPT ![h] = TRUE]
            /\ taken' = taken
            /\ waitq' \in Seq(Tasks)
            /\ IsInjective(waitq')
            /\ Range(waitq') = Range(waitq) \ {h}
      BY <1>0, <1>5, <2>5, ReleaseHead
    <3>2. TypeOK'
      BY <1>0, <2>1, <3>1 DEF TypeOK
    <3>3. LinksInv'
      BY <1>0, <2>1, <2>3, <3>1 DEF LinksInv, TypeOK
    <3>4. \A u \in Tasks : Owns(u)' => u = h
      BY <1>0, <2>1, <2>2, <2>3, <3>1 DEF Owns, TypeOK
    <3> QED BY <2>1, <2>3, <3>1, <3>2, <3>3, <3>4
            DEF ArbiterInv, TakenInv, MutualExclusion
  <2> QED BY <2>4, <2>5
<1>6. CASE UNCHANGED vars
  BY <1>0, <1>6
     DEF ArbiterInv, TypeOK, LinksInv, TakenInv, MutualExclusion, Owns, vars
<1> QED BY <1>1, <1>2, <1>3, <1>4, <1>5, <1>6 DEF Next, TaskNext

-----------------------------------------------------------------------------
\* ArbiterInv is an inductive invariant of the arbiter.
THEOREM ArbiterInvariance == Spec => []ArbiterInv
BY InitArbiterInv, NextArbiterInv, PTL DEF Spec

\* One owner at a time, however many tasks there are and whatever is
\* cancelled: the &mut made in access and try_access is never aliased.
THEOREM OneOwner == Spec => []MutualExclusion
<1>1. ArbiterInv => MutualExclusion
  BY DEF ArbiterInv
<1> QED BY <1>1, ArbiterInvariance, PTL

\* A task that owns the value and does not know it yet is going to be polled.
THEOREM OwnersWoken == Spec => []PoppedIsWoken
<1>1. Init => PoppedIsWoken
  BY DEF Init, PoppedIsWoken
<1>2. ArbiterInv /\ PoppedIsWoken /\ [Next]_vars => PoppedIsWoken'
  <2> SUFFICES ASSUME ArbiterInv, PoppedIsWoken, [Next]_vars
               PROVE  PoppedIsWoken'
    OBVIOUS
  <2>0. TypeOK /\ LinksInv
    BY DEF ArbiterInv
  <2>1. ASSUME NEW t \in Tasks, Access(t) \/ Poll(t) \/ Cancel(t) \/ TryAccess(t)
        PROVE  PoppedIsWoken'
    <3>1. \A u \in Tasks : link'[u] = "popped" =>
            link[u] = "popped" /\ woken'[u] = woken[u]
      <4>1. CASE Access(t)
        BY <2>0, <4>1 DEF Access, TypeOK, LinksInv
      <4>2. CASE Poll(t)
        BY <2>0, <4>2 DEF Poll, TypeOK, LinksInv, Available
      <4>3. CASE Cancel(t)
        BY <2>0, <4>3 DEF Cancel, TypeOK
      <4>4. CASE TryAccess(t)
        BY <4>4 DEF TryAccess
      <4> QED BY <2>1, <4>1, <4>2, <4>3, <4>4
    <3> QED BY <3>1 DEF PoppedIsWoken
  <2>2. ASSUME NEW t \in Tasks, Release(t) PROVE PoppedIsWoken'
    <3>1. CASE waitq = << >>
      BY <2>2, <3>1 DEF Release, PoppedIsWoken
    <3>2. CASE waitq # << >>
      <4>1. PICK h \in Tasks :
              /\ link' = [link EXCEPT ![h] = "popped"]
              /\ woken' = [woken EXCEPT ![h] = TRUE]
        BY <2>0, <2>2, <3>2, ReleaseHead
      <4>2. \A u \in Tasks : u # h => link'[u] = link[u] /\ woken'[u] = woken[u]
        BY <2>0, <4>1 DEF TypeOK
      <4>3. woken'[h]
        BY <2>0, <4>1 DEF TypeOK
      <4> QED BY <4>2, <4>3 DEF PoppedIsWoken
    <3> QED BY <3>1, <3>2
  <2>3. CASE UNCHANGED vars
    BY <2>3 DEF PoppedIsWoken, vars
  <2> QED BY <2>1, <2>2, <2>3 DEF Next, TaskNext
<1> QED BY <1>1, <1>2, ArbiterInvariance, PTL DEF Spec

\* Ownership goes to the task that has waited for the longest time.
THEOREM InOrder == Spec => NoOvertaking
<1>1. ArbiterInv /\ [Next]_vars =>
        [\A t \in Tasks : ~Owns(t) /\ Owns(t)' =>
           waitq = << >> \/ t = Head(waitq)]_vars
  <2> SUFFICES ASSUME ArbiterInv, Next, NEW t \in Tasks, ~Owns(t), Owns(t)',
                      waitq # << >>
               PROVE  t = Head(waitq)
    BY Zenon
  <2>0. TypeOK /\ LinksInv
    BY DEF ArbiterInv
  <2>1. PICK u \in Tasks : TaskNext(u)
    BY DEF Next
  <2>2. ~ (Access(u) \/ Poll(u) \/ Cancel(u) \/ TryAccess(u))
    BY <2>0 DEF Access, Poll, Cancel, TryAccess, Goto, Owns, Available, TypeOK
  <2>3. Release(u)
    BY <2>1, <2>2 DEF TaskNext
  <2>4. PICK h \in Tasks :
          h = Head(waitq) /\ link' = [link EXCEPT ![h] = "popped"]
    BY <2>0, <2>3, ReleaseHead
  <2>5. pc' = [pc EXCEPT ![u] = "idle"]
    BY <2>3 DEF Release, Goto
  <2> QED BY <2>0, <2>4, <2>5 DEF Owns, TypeOK
<1> QED BY <1>1, ArbiterInvariance, PTL DEF Spec, NoOvertaking
=============================================================================
