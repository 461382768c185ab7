---------------------------- MODULE LocksProofs -----------------------------
(***************************************************************************)
(* Locks keep tasks apart and leave no mask behind, for every set of       *)
(* tasks, resources and applications.                                      *)
(*                                                                         *)
(* The first part is about the analysis: the ceilings it computes are      *)
(* right after every access, and lock-free resources have users of one     *)
(* priority.  The second part is about the program that runs.              *)
(*                                                                         *)
(* All theorems hold for every backend.  MaskInv says that the registers,  *)
(* and whatever a lock or a task has saved of them, fit the locks that are *)
(* held, or were held at that time: they mask what those locks want masked *)
(* and nothing else.  Only a threshold that a nested lock has lowered may  *)
(* mask less.  A saved value fits the locks that are left when it is       *)
(* written back, and a task that was not masked is above what is locked.   *)
(***************************************************************************)
EXTENDS Locks, QueueLemmas

\* One round of the match: the entry of r is at least as high as the access
\* and as it was before, and it is one of the two (analyze.rs:213-239).
LEMMA OwnIsMaximum ==
  ASSUME ownerships \in [Resources -> Ownership], NEW r \in Resources, NEW p \in 0..Top
  PROVE  /\ Own(r, p) \in Ownership
         /\ Own(r, p).kind # "none"
         /\ p <= Own(r, p).ceiling
         /\ ownerships[r].kind # "none" =>
              /\ ownerships[r].ceiling <= Own(r, p).ceiling
              /\ Own(r, p).ceiling \in {p, ownerships[r].ceiling}
         /\ ownerships[r].kind = "none" => Own(r, p).ceiling = p
<1> DEFINE own == ownerships[r]
<1>0. own \in Ownership
  OBVIOUS
<1>1. own.kind \in {"none", "Owned", "CoOwned", "Contended"} /\ own.ceiling \in 0..Top
  BY <1>0 DEF Ownership
<1>2. Top \in Nat
  BY AppsAssumption
<1>a. CASE own.kind = "none"
  <2>1. Own(r, p) = Owned(p)
    BY <1>a DEF Own
  <2> QED BY <2>1, <1>a, <1>2 DEF Owned, Ownership
<1>b. CASE own.kind # "none" /\ own.ceiling # p
  <2>1. Own(r, p) = Contended(IF own.ceiling > p THEN own.ceiling ELSE p)
    BY <1>b DEF Own
  <2> QED BY <2>1, <1>b, <1>1, <1>2 DEF Contended, Ownership
<1>c. CASE own.kind = "Owned" /\ own.ceiling = p
  <2>1. Own(r, p) = CoOwned(p)
    BY <1>c DEF Own
  <2> QED BY <2>1, <1>c, <1>1, <1>2 DEF CoOwned, Ownership
<1>d. CASE own.kind \in {"CoOwned", "Contended"} /\ own.ceiling = p
  <2>1. Own(r, p) = own
    BY <1>d DEF Own
  <2> QED BY <2>1, <1>d, <1>0, <1>1, <1>2
<1> QED BY <1>1, <1>a, <1>b, <1>c, <1>d

\* The check of lock-free resources looks at the application only.
LEMMA SameCheck == app' = app => (LockFreeError' <=> LockFreeError)
<1> SUFFICES ASSUME app' = app PROVE LockFreeError' <=> LockFreeError
  OBVIOUS
<1>1. /\ \A r : Users(r)' = Users(r)
      /\ \A t : prio(t)' = prio(t)
  BY DEF Users, Uses, prio
<1>2. \A t, u, r : Previous(t, u, r)' <=> Previous(t, u, r)
  BY <1>1 DEF Previous, ListedBefore
<1> QED BY <1>1, <1>2 DEF LockFreeError

\* Before the first access nothing is owned.
LEMMA OwnershipInit == InitAnalysis => OwnershipInv
<1> SUFFICES ASSUME InitAnalysis PROVE OwnershipInv
  OBVIOUS
<1> USE DEF InitAnalysis
<1>1. AnalysisTypeOK
  BY AppsAssumption DEF AnalysisTypeOK, NoOwner, Ownership, Uses
<1>2. \A t \in Tasks, r \in Resources : ~Processed(t, r)
  BY DEF Processed, Uses
<1>3. CeilingIsMaximum
  BY <1>2 DEF CeilingIsMaximum, NoOwner
<1>4. SharedIsSync
  BY <1>2, ResourcesAssumption DEF SharedIsSync
<1> QED BY <1>1, <1>3, <1>4 DEF OwnershipInv

\* The check and the end of the analysis change the phase only.
LEMMA PhaseKeepsOwnership ==
  OwnershipInv /\ (CheckLockFree \/ Accept) => OwnershipInv'
<1> SUFFICES ASSUME OwnershipInv, CheckLockFree \/ Accept PROVE OwnershipInv'
  OBVIOUS
<1> USE DEF OwnershipInv
<1>0. UNCHANGED <<app, todo, ownerships, sync_types>>
  BY DEF CheckLockFree, Accept
<1>1. AnalysisTypeOK'
  BY <1>0 DEF AnalysisTypeOK, CheckLockFree, Accept, Uses
<1>6. phase' \in {"ownership", "run"} => ~LockFreeError'
  <2>1. LockFreeError' <=> LockFreeError
    BY <1>0, SameCheck
  <2> QED BY <2>1 DEF CheckLockFree, Accept
<1>2. phase' = "run" => todo' = {}
  BY <1>0 DEF CheckLockFree, Accept
<1>3. \A t, r : Processed(t, r)' <=> Processed(t, r)
  BY <1>0 DEF Processed, Uses
<1>4. CeilingIsMaximum'
  BY <1>0, <1>3 DEF CeilingIsMaximum, prio
<1>5. SharedIsSync'
  BY <1>0, <1>3 DEF SharedIsSync, prio
<1> QED BY <1>1, <1>2, <1>4, <1>5, <1>6

\* One access, of a task that the loop has come to.
LEMMA AccessKeepsOwnership ==
  ASSUME OwnershipInv, NEW t \in Tasks, NEW r \in Resources, ProcessAccess(t, r)
  PROVE  OwnershipInv'
<1> USE DEF OwnershipInv
<1>0. /\ phase = "ownership" /\ <<t, r>> \in todo
      /\ todo' = todo \ {<<t, r>>}
      /\ ownerships' = [ownerships EXCEPT ![r] = Own(r, prio(t))]
      /\ UNCHANGED <<app, phase>>
  BY DEF ProcessAccess
<1>1. prio(t) \in 0..Top /\ Top \in Nat /\ r \in Uses(t)
  BY <1>0, AppsAssumption DEF AnalysisTypeOK, prio, Uses
<1>2. ownerships \in [Resources -> Ownership]
  BY DEF AnalysisTypeOK
<1> DEFINE own == ownerships[r]
           new == Own(r, prio(t))
<1>3. /\ new \in Ownership /\ new.kind # "none" /\ prio(t) <= new.ceiling
      /\ own.kind # "none" =>
           own.ceiling <= new.ceiling /\ new.ceiling \in {prio(t), own.ceiling}
      /\ own.kind = "none" => new.ceiling = prio(t)
  BY <1>1, <1>2, OwnIsMaximum
<1>4. new.ceiling \in 0..Top /\ own.ceiling \in 0..Top
  BY <1>2, <1>3 DEF Ownership
<1>5. ownerships'[r] = new /\ \A q \in Resources \ {r} : ownerships'[q] = ownerships[q]
  BY <1>0, <1>2
<1> HIDE DEF new
<1>6. \A u, q : Processed(u, q)' <=> Processed(u, q) \/ (u = t /\ q = r)
  BY <1>0, <1>1 DEF Processed, Uses
<1>7. AnalysisTypeOK'
  <2>1. ownerships' \in [Resources -> Ownership]
    BY <1>0, <1>2, <1>3 DEF new
  <2>2. sync_types' \subseteq Resources
    BY ResourcesAssumption DEF AnalysisTypeOK, ProcessAccess
  <2> QED BY <1>0, <2>1, <2>2 DEF AnalysisTypeOK, Uses
<1>8. CeilingIsMaximum'
  <2> SUFFICES ASSUME NEW q \in Resources
               PROVE  /\ \A u \in Tasks : Processed(u, q)' =>
                           ownerships'[q].kind # "none" /\ prio(u) <= ownerships'[q].ceiling
                      /\ ownerships'[q].kind # "none" =>
                           \E u \in Tasks : Processed(u, q)' /\ prio(u) = ownerships'[q].ceiling
    BY <1>0 DEF CeilingIsMaximum, prio
  <2>1. CASE q # r
    BY <2>1, <1>5, <1>6 DEF CeilingIsMaximum
  <2>2. CASE q = r
    <3>1. ASSUME NEW u \in Tasks, Processed(u, r)'
          PROVE  prio(u) <= new.ceiling
      <4>1. CASE u = t
        BY <4>1, <1>3
      <4>2. CASE u # t
        <5>1. Processed(u, r)
          BY <4>2, <3>1, <1>6
        <5>2. own.kind # "none" /\ prio(u) <= own.ceiling
          BY <5>1 DEF CeilingIsMaximum
        <5>3. prio(u) \in 0..Top
          BY AppsAssumption DEF AnalysisTypeOK, prio
        <5> QED BY <5>2, <5>3, <1>1, <1>3, <1>4
      <4> QED BY <4>1, <4>2
    <3>2. \E u \in Tasks : Processed(u, r)' /\ prio(u) = new.ceiling
      <4>1. CASE new.ceiling = prio(t)
        BY <4>1, <1>6
      <4>2. CASE new.ceiling # prio(t)
        <5>1. own.kind # "none" /\ new.ceiling = own.ceiling
          BY <4>2, <1>3
        <5>2. PICK u \in Tasks : Processed(u, r) /\ prio(u) = own.ceiling
          BY <5>1 DEF CeilingIsMaximum
        <5> QED BY <5>1, <5>2, <1>6
      <4> QED BY <4>1, <4>2
    <3> QED BY <2>2, <3>1, <3>2, <1>3, <1>5
  <2> QED BY <2>1, <2>2
<1>9. SharedIsSync'
  <2> SUFFICES ASSUME NEW q \in ReadOnly, NEW u \in Tasks, NEW v \in Tasks,
                      Processed(u, q)', Processed(v, q)', prio(u) # prio(v)
               PROVE  q \in sync_types'
    BY <1>0 DEF SharedIsSync, prio
  <2>0. sync_types \subseteq sync_types' /\ q \in Resources
    BY ResourcesAssumption DEF ProcessAccess
  <2>1. CASE Processed(u, q) /\ Processed(v, q)
    BY <2>0, <2>1 DEF SharedIsSync
  <2>2. CASE ~(Processed(u, q) /\ Processed(v, q))
    \* One of the two is the access of this round.  If the ceiling differs from
    \* its priority the type is added now; if not, the other one is below the
    \* ceiling, and then the task that has the ceiling has brought it in.
    <3>1. PICK w \in Tasks : Processed(w, r) /\ prio(w) # prio(t) /\ q = r
      BY <2>2, <1>6
    <3>2. own.kind # "none"
      BY <3>1 DEF CeilingIsMaximum
    <3>3. CASE own.ceiling # prio(t)
      BY <3>1, <3>2, <3>3 DEF ProcessAccess
    <3>4. CASE own.ceiling = prio(t)
      <4>1. PICK x \in Tasks : Processed(x, r) /\ prio(x) = own.ceiling
        BY <3>2 DEF CeilingIsMaximum
      <4>2. r \in sync_types
        BY <4>1, <3>1, <3>4 DEF SharedIsSync
      <4> QED BY <4>2, <2>0, <3>1
    <3> QED BY <3>3, <3>4
  <2> QED BY <2>1, <2>2
<1>10. ~LockFreeError'
  BY <1>0, SameCheck
<1> QED BY <1>0, <1>7, <1>8, <1>9, <1>10

\* Every step of the analysis, and every step of the program after it.
LEMMA OwnershipNext ==
  OwnershipInv /\ (Analyse \/ UNCHANGED analysisVars) => OwnershipInv'
<1> SUFFICES ASSUME OwnershipInv, Analyse \/ UNCHANGED analysisVars PROVE OwnershipInv'
  OBVIOUS
<1>1. CASE CheckLockFree \/ Accept
  BY <1>1, PhaseKeepsOwnership
<1>2. ASSUME NEW t \in Tasks, NEW r \in Resources, ProcessAccess(t, r)
      PROVE  OwnershipInv'
  BY <1>2, AccessKeepsOwnership
<1>3. CASE UNCHANGED analysisVars
  <2>1. UNCHANGED <<app, phase, todo, ownerships, sync_types>>
    BY <1>3 DEF analysisVars
  <2>2. LockFreeError' <=> LockFreeError
    BY <2>1, SameCheck
  <2> QED BY <2>1, <2>2 DEF OwnershipInv, AnalysisTypeOK, CeilingIsMaximum,
                           SharedIsSync, Processed, Uses, prio
<1> QED BY <1>1, <1>2, <1>3 DEF Analyse
-----------------------------------------------------------------------------
(***************************************************************************)
(* Lock-free resources.  The check compares each user with the one before  *)
(* it in the list only.  That is enough: of two users with different       *)
(* priorities that are closest to each other in the list, one would be the *)
(* previous one of the other.                                              *)
(***************************************************************************)

\* The place of idle and of the hardware tasks in the list.
Place(t) == IF t = Idle THEN 0 ELSE Position[t] + 1

LEMMA PlaceIsOrder ==
  /\ \A t \in {Idle} \cup Hardware : Place(t) \in Nat
  /\ \A t, u \in {Idle} \cup Hardware :
       /\ ListedBefore(t, u) <=> Place(t) < Place(u)
       /\ Place(t) = Place(u) => t = u
<1>1. \A t \in Hardware : t # Idle /\ t \notin Software /\ Position[t] \in Nat
  BY TasksAssumption DEF Interrupts, Tasks
<1>2. Idle \notin Software
  BY TasksAssumption
<1>3. \A t, u \in Hardware : Position[t] = Position[u] => t = u
  BY TasksAssumption
<1>4. \A t \in {Idle} \cup Hardware : Place(t) \in Nat
  BY <1>1 DEF Place
<1>5. ASSUME NEW t \in {Idle} \cup Hardware, NEW u \in {Idle} \cup Hardware
      PROVE  ListedBefore(t, u) <=> Place(t) < Place(u)
  BY <1>1, <1>2 DEF ListedBefore, Place
<1>6. ASSUME NEW t \in {Idle} \cup Hardware, NEW u \in {Idle} \cup Hardware,
             Place(t) = Place(u)
      PROVE  t = u
  BY <1>1, <1>3, <1>6 DEF Place
<1> QED BY <1>4, <1>5, <1>6

LEMMA LockFreeUsers ==
  ASSUME ~LockFreeError, app \in Apps, NEW r \in LockFree,
         NEW t \in Users(r), NEW u \in Users(r)
  PROVE  prio(t) = prio(u)
<1> SUFFICES ASSUME prio(t) # prio(u) PROVE FALSE
  OBVIOUS
<1>1. Users(r) \subseteq {Idle} \cup Hardware
  BY DEF LockFreeError, Users, Tasks
<1>2. \A v \in {Idle} \cup Hardware : Place(v) \in Nat
  BY PlaceIsOrder
<1> DEFINE Gap(n) == \E v, w \in Users(r) :
             prio(v) # prio(w) /\ Place(v) < Place(w) /\ n = Place(w) - Place(v)
           Gaps == {n \in Nat : Gap(n)}
<1>3. Gaps # {}
  <2>1. Place(t) # Place(u)
    BY <1>1, PlaceIsOrder
  <2>2. Place(t) \in Nat /\ Place(u) \in Nat
    BY <1>1, <1>2
  <2>3. CASE Place(t) < Place(u)
    <3>1. Gap(Place(u) - Place(t)) /\ Place(u) - Place(t) \in Nat
      BY <2>2, <2>3
    <3> QED BY <3>1
  <2>4. CASE Place(u) < Place(t)
    <3>1. Gap(Place(t) - Place(u)) /\ Place(t) - Place(u) \in Nat
      BY <2>2, <2>4
    <3> QED BY <3>1
  <2> QED BY <2>1, <2>2, <2>3, <2>4
<1>4. PICK n \in Gaps : \A m \in Gaps : n <= m
  <2> HIDE DEF Gaps
  <2>1. Gaps \in SUBSET Nat
    BY DEF Gaps
  <2> QED BY <1>3, <2>1, NatMin
<1>5. PICK v \in Users(r), w \in Users(r) :
        prio(v) # prio(w) /\ Place(v) < Place(w) /\ n = Place(w) - Place(v)
  BY <1>4
<1>6. ListedBefore(v, w)
  BY <1>1, <1>5, PlaceIsOrder
<1>7. ASSUME NEW x \in Users(r), ListedBefore(v, x), ListedBefore(x, w)
      PROVE  FALSE
  <2>1. Place(v) < Place(x) /\ Place(x) < Place(w)
    BY <1>1, <1>7, PlaceIsOrder
  <2>2. Place(v) \in Nat /\ Place(w) \in Nat /\ Place(x) \in Nat
    BY <1>1, <1>2
  <2>3. CASE prio(x) # prio(v)
    <3>1. Place(x) - Place(v) \in Gaps
      BY <2>1, <2>2, <2>3
    <3> QED BY <1>4, <1>5, <2>1, <2>2, <3>1
  <2>4. CASE prio(x) = prio(v)
    <3>1. Place(w) - Place(x) \in Gaps
      BY <1>5, <2>1, <2>2, <2>4
    <3> QED BY <1>4, <1>5, <2>1, <2>2, <3>1
  <2> QED BY <2>3, <2>4
<1>8. Previous(v, w, r)
  BY <1>6, <1>7 DEF Previous
<1> QED BY <1>5, <1>8 DEF LockFreeError

-----------------------------------------------------------------------------
(***************************************************************************)
(* What every backend keeps: the types, and which tasks have locks.        *)
(***************************************************************************)

\* Before the program runs, and in tasks that have not begun, there is no lock.
QuietInv ==
  /\ phase # "run" => active = {Idle}
  /\ \A t \in Tasks :
       phase # "run" \/ t \notin active => held[t] = << >> /\ reading[t] = NoFrame
  /\ \A t, u \in active : prio(t) = prio(u) => t = u

\* A lock in progress is of a task that runs, for a resource of the task.
HeldInv ==
  \A t \in Tasks :
    /\ \A i \in DOMAIN held[t] : held[t][i].res \in Uses(t)
    /\ reading[t] # NoFrame => Len(reading[t]) = 1 /\ reading[t][1].res \in Uses(t)

BaseInv == OwnershipInv /\ LocksTypeOK /\ QuietInv /\ HeldInv

\* Facts on the frames of one task.
LEMMA PushFrame ==
  ASSUME NEW s \in Seq(Frame), NEW f \in Frame
  PROVE  /\ Append(s, f) \in Seq(Frame)
         /\ DOMAIN Append(s, f) = DOMAIN s \cup {Len(s) + 1}
         /\ \A i \in DOMAIN s : i < Len(s) + 1 /\ Append(s, f)[i] = s[i]
         /\ Append(s, f)[Len(s) + 1] = f
         /\ Len(s) + 1 \notin DOMAIN s
  OBVIOUS

LEMMA PopFrame ==
  ASSUME NEW s \in Seq(Frame), s # << >>
  PROVE  /\ Len(s) \in DOMAIN s
         /\ SubSeq(s, 1, Len(s) - 1) \in Seq(Frame)
         /\ DOMAIN SubSeq(s, 1, Len(s) - 1) = DOMAIN s \ {Len(s)}
         /\ \A i \in DOMAIN SubSeq(s, 1, Len(s) - 1) :
              i \in DOMAIN s /\ i < Len(s) /\ SubSeq(s, 1, Len(s) - 1)[i] = s[i]
<1>1. Len(s) \in Nat \ {0} /\ DOMAIN s = 1..Len(s)
  BY EmptySeq, LenProperties
<1>2. 1 \in 1..(Len(s) + 1) /\ Len(s) - 1 \in 0..Len(s)
  BY <1>1
<1>3. /\ SubSeq(s, 1, Len(s) - 1) \in Seq(Frame)
      /\ Len(SubSeq(s, 1, Len(s) - 1)) = Len(s) - 1
      /\ \A i \in 1..(Len(s) - 1) : SubSeq(s, 1, Len(s) - 1)[i] = s[i]
  BY <1>1, <1>2, SubSeqProperties
<1>4. DOMAIN SubSeq(s, 1, Len(s) - 1) = 1..(Len(s) - 1)
  BY <1>1, <1>3, LenProperties
<1> QED BY <1>1, <1>3, <1>4

\* Types of what lock reads: the ceiling, and the priorities.
LEMMA CeilingType ==
  ASSUME OwnershipInv, LocksTypeOK
  PROVE  /\ \A r \in Resources : Ceiling(r) \in 0..Top
         /\ \A t \in Tasks : prio(t) \in 0..Top
         /\ \A t \in Interrupts : prio(t) \in 1..Top
         /\ \A t \in Tasks : Uses(t) \subseteq Resources
         /\ Top \in Nat
<1>1. app \in Apps /\ ownerships \in [Resources -> Ownership] /\ Top \in Nat
  BY AppsAssumption DEF OwnershipInv, AnalysisTypeOK
<1>2. \A r \in Resources : ownerships[r].ceiling \in 0..Top
  BY <1>1 DEF Ownership
<1>3. \A t \in Tasks : app.prio[t] \in 0..Top /\ app.uses[t] \subseteq Resources
  BY <1>1, AppsAssumption
<1>4. \A t \in Interrupts : app.prio[t] > 0 /\ t \in Tasks
  BY <1>1, AppsAssumption DEF Interrupts
<1> QED BY <1>1, <1>2, <1>3, <1>4 DEF Ceiling, prio, Uses

LEMMA HeldType ==
  ASSUME LocksTypeOK, NEW t \in Tasks, NEW i \in DOMAIN held[t]
  PROVE  /\ held[t][i] \in Frame
         /\ held[t][i].res \in Resources
         /\ held[t][i].saved \in Registers
<1>1. held[t] \in Seq(Frame)
  BY DEF LocksTypeOK
<1>2. held[t] \in [1..Len(held[t]) -> Frame] /\ DOMAIN held[t] = 1..Len(held[t])
  BY <1>1, LenProperties
<1>3. held[t][i] \in Frame
  BY <1>2
<1> QED BY <1>3 DEF Frame

\* Whoever has a frame or reads the registers has begun, and the program runs.
LEMMA HoldersAreActive ==
  ASSUME BaseInv
  PROVE  /\ \A u \in Tasks : \A i \in DOMAIN held[u] : phase = "run" /\ u \in active
         /\ \A u \in Tasks : reading[u] # NoFrame => phase = "run" /\ u \in active
<1>1. \A u \in Tasks : held[u] = << >> => DOMAIN held[u] = {}
  BY EmptySeq, LenProperties
<1> QED BY <1>1 DEF BaseInv, QuietInv

\* Nobody is above the task that runs, and the others are below it.
LEMMA RunningIsHighest ==
  ASSUME BaseInv, NEW t \in Tasks, Running(t)
  PROVE  /\ t \in active
         /\ \A u \in active : u = t \/ Below(u, t)
         /\ \A u : ~Below(t, u)
<1>1. \A u \in Tasks : prio(u) \in Int
  BY CeilingType DEF BaseInv
<1>2. active \subseteq Tasks
  BY DEF BaseInv, LocksTypeOK
<1> QED BY <1>1, <1>2 DEF Running, Below

\* lock and run write registers.
LEMMA RaiseType ==
  ASSUME BaseInv, NEW r \in Resources
  PROVE  Raise(r) \in Registers
<1>0. /\ regs \in Registers /\ backend \in {"basepri", "source_mask", "threshold"}
      /\ Ceiling(r) \in 0..Top /\ regs.level \in 0..Top
  BY CeilingType, BackendsAssumption DEF BaseInv, LocksTypeOK, Registers
<1>1. CASE Ceiling(r) = Top
  BY <1>0, <1>1 DEF Raise, Registers
<1>2. CASE Ceiling(r) # Top /\ backend = "source_mask"
  BY <1>0, <1>2 DEF Raise, Registers
<1>3. CASE Ceiling(r) # Top /\ backend = "basepri"
  BY <1>0, <1>3 DEF Raise, Registers
<1>4. CASE Ceiling(r) # Top /\ backend = "threshold"
  BY <1>0, <1>4 DEF Raise, Registers
<1> QED BY <1>0, <1>1, <1>2, <1>3, <1>4

LEMMA RestoreType ==
  ASSUME BaseInv, NEW f \in Frame
  PROVE  Restore(f) \in Registers
<1>0. /\ regs \in Registers /\ f.saved \in Registers
      /\ f.saved.level \in 0..Top /\ f.saved.enabled \subseteq Interrupts
      /\ f.saved.primask \in BOOLEAN
  BY DEF BaseInv, LocksTypeOK, Frame, Registers
<1>1. CASE Ceiling(f.res) = Top
  BY <1>0, <1>1 DEF Restore, Registers
<1>2. CASE Ceiling(f.res) # Top /\ backend = "source_mask"
  BY <1>0, <1>2 DEF Restore, Registers
<1>3. CASE Ceiling(f.res) # Top /\ backend # "source_mask"
  BY <1>0, <1>3 DEF Restore, Registers
<1> QED BY <1>1, <1>2, <1>3

-----------------------------------------------------------------------------
LEMMA BaseInit == Init => BaseInv
<1> SUFFICES ASSUME Init PROVE BaseInv
  OBVIOUS
<1> USE DEF Init
<1>1. OwnershipInv
  BY OwnershipInit
<1>2. LocksTypeOK
  <2>1. Idle \in Tasks /\ Top \in Nat
    BY AppsAssumption DEF Tasks
  <2>2. regs \in Registers
    BY <2>1 DEF Registers
  <2>3. << >> \in Seq(Frame)
    BY EmptySeq
  <2> QED BY <2>1, <2>2, <2>3 DEF LocksTypeOK, NoFrame
<1>3. QuietInv
  BY DEF QuietInv, NoFrame
<1>4. HeldInv
  <2>1. \A t \in Tasks : DOMAIN held[t] = {} /\ reading[t] = NoFrame
    BY EmptySeq, LenProperties DEF NoFrame
  <2> QED BY <2>1 DEF HeldInv
<1> QED BY <1>1, <1>2, <1>3, <1>4 DEF BaseInv

\* The analysis runs before the program: there are no locks yet.
LEMMA AnalyseBase ==
  ASSUME BaseInv, Analyse, UNCHANGED lockVars
  PROVE  /\ BaseInv'
         /\ UNCHANGED <<app, backend, active, regs, initial, reading, held>>
         /\ \A t \in Tasks : DOMAIN held[t] = {} /\ reading[t] = NoFrame
         /\ active = {Idle}
<1> USE DEF BaseInv
<1>0. UNCHANGED <<backend, active, regs, initial, reading, held>>
  BY DEF lockVars
<1>1. OwnershipInv'
  BY OwnershipNext
<1>2. LocksTypeOK'
  BY <1>0 DEF LocksTypeOK
<1>3. phase # "run" /\ app' = app
  BY DEF Analyse, CheckLockFree, ProcessAccess, Accept
<1>4. /\ active = {Idle}
      /\ \A t \in Tasks : held[t] = << >> /\ reading[t] = NoFrame
  BY <1>3 DEF QuietInv
<1>5. QuietInv'
  BY <1>0, <1>3, <1>4 DEF QuietInv
<1>6. \A t \in Tasks : DOMAIN held[t] = {}
  BY <1>4, EmptySeq, LenProperties
<1>7. HeldInv'
  BY <1>0, <1>4, <1>6 DEF HeldInv
<1> QED BY <1>0, <1>1, <1>2, <1>3, <1>4, <1>5, <1>6, <1>7

\* A task begins, without locks.
LEMMA StartBase ==
  ASSUME BaseInv, NEW t \in Tasks, Start(t)
  PROVE  /\ BaseInv'
         /\ t \notin active /\ DOMAIN held[t] = {} /\ reading[t] = NoFrame
         /\ \A u \in active : prio(u) < prio(t)
         /\ active' = active \cup {t}
         /\ initial' = [initial EXCEPT ![t] = regs.level]
         /\ UNCHANGED <<app, phase, ownerships, backend, regs, reading, held>>
<1> USE DEF BaseInv
<1>0. /\ \A u \in active : prio(u) < prio(t)
      /\ active' = active \cup {t}
      /\ initial' = [initial EXCEPT ![t] = regs.level]
      /\ UNCHANGED <<analysisVars, backend, regs, reading, held>>
  BY DEF Start
<1>1. OwnershipInv'
  BY <1>0, OwnershipNext
<1>2. LocksTypeOK'
  BY <1>0 DEF LocksTypeOK, Registers
<1>3. UNCHANGED <<app, phase, ownerships>> /\ phase = "run"
  BY <1>0 DEF analysisVars, Start
<1>4. \A u \in Tasks : prio(u) \in Int
  BY CeilingType
<1>5. t \notin active
  BY <1>0, <1>4
<1>6. held[t] = << >> /\ DOMAIN held[t] = {} /\ reading[t] = NoFrame
  BY <1>5, EmptySeq, LenProperties DEF QuietInv
<1>7. QuietInv'
  <2>1. active \subseteq Tasks
    BY DEF LocksTypeOK
  <2> QED BY <1>0, <1>3, <1>4, <1>5, <2>1 DEF QuietInv, prio
<1>8. HeldInv'
  BY <1>0, <1>3 DEF HeldInv, Uses
<1> QED BY <1>0, <1>1, <1>2, <1>3, <1>5, <1>6, <1>7, <1>8

\* A task is over, and run writes the level.
LEMMA FinishBase ==
  ASSUME BaseInv, NEW t \in Tasks, Finish(t)
  PROVE  /\ BaseInv'
         /\ phase = "run" /\ t \in active
         /\ DOMAIN held[t] = {} /\ reading[t] = NoFrame
         /\ active' = active \ {t}
         /\ regs'.primask = regs.primask /\ regs'.enabled = regs.enabled
         /\ regs'.level = IF backend = "source_mask" THEN regs.level
                          ELSE IF prio(t) = 1 THEN 0 ELSE initial[t]
         /\ UNCHANGED <<app, phase, ownerships, backend, initial, reading, held>>
<1> USE DEF BaseInv
<1> DEFINE level == IF prio(t) = 1 THEN 0 ELSE initial[t]
<1>0. /\ t # Idle /\ t \in active /\ held[t] = << >> /\ reading[t] = NoFrame
      /\ active' = active \ {t}
      /\ regs' = IF backend = "source_mask" THEN regs ELSE [regs EXCEPT !.level = level]
      /\ UNCHANGED <<analysisVars, backend, initial, reading, held>>
  BY DEF Finish, Running
<1>1. OwnershipInv'
  BY <1>0, OwnershipNext
<1>2. UNCHANGED <<app, phase, ownerships>> /\ phase = "run"
  BY <1>0 DEF analysisVars, QuietInv
<1>3. regs \in Registers /\ level \in 0..Top
  BY CeilingType DEF LocksTypeOK
<1>4. /\ regs' \in Registers /\ regs'.primask = regs.primask
      /\ regs'.enabled = regs.enabled
      /\ regs'.level = IF backend = "source_mask" THEN regs.level ELSE level
  BY <1>0, <1>3 DEF Registers
<1>5. LocksTypeOK'
  <2>1. active' \subseteq Tasks /\ Idle \in active'
    BY <1>0 DEF LocksTypeOK
  <2> QED BY <2>1, <1>0, <1>4 DEF LocksTypeOK
<1>6. QuietInv'
  BY <1>0, <1>2 DEF QuietInv, prio
<1>7. HeldInv'
  BY <1>0, <1>2 DEF HeldInv, Uses
<1>8. DOMAIN held[t] = {}
  BY <1>0, EmptySeq, LenProperties
<1> QED BY <1>0, <1>1, <1>2, <1>4, <1>5, <1>6, <1>7, <1>8

\* A lock begins, and has read the registers.
LEMMA ReadBase ==
  ASSUME BaseInv, NEW t \in Tasks, NEW r \in Resources, ReadRegisters(t, r)
  PROVE  /\ BaseInv'
         /\ Running(t)
         /\ reading'[t] # NoFrame /\ reading'[t][1].saved = regs
         /\ \A u \in Tasks \ {t} : reading'[u] = reading[u]
         /\ UNCHANGED <<app, phase, ownerships, backend, active, regs, initial, held>>
<1> USE DEF BaseInv
<1> DEFINE f == [res |-> r, saved |-> regs]
<1>0. /\ phase = "run" /\ Running(t) /\ t \in active /\ r \in Uses(t)
      /\ reading' = [reading EXCEPT ![t] = <<f>>]
      /\ UNCHANGED <<analysisVars, backend, active, regs, initial, held>>
  BY DEF ReadRegisters, Running
<1>1. OwnershipInv'
  BY <1>0, OwnershipNext
<1>2. f \in Frame /\ <<f>> \in Seq(Frame) /\ Len(<<f>>) = 1 /\ <<f>>[1] = f
      /\ <<f>> # NoFrame
  BY DEF LocksTypeOK, Frame, NoFrame
<1>3. reading'[t] = <<f>> /\ \A u \in Tasks \ {t} : reading'[u] = reading[u]
  BY <1>0 DEF LocksTypeOK
<1>4. f.res = r /\ f.saved = regs
  OBVIOUS
<1> HIDE DEF f
<1>5. LocksTypeOK'
  BY <1>0, <1>2 DEF LocksTypeOK
<1>6. UNCHANGED <<app, phase, ownerships>>
  BY <1>0 DEF analysisVars
<1>7. QuietInv'
  BY <1>0, <1>3, <1>6 DEF QuietInv, prio
<1>8. HeldInv'
  BY <1>0, <1>2, <1>3, <1>4, <1>6 DEF HeldInv, Uses
<1> QED BY <1>0, <1>1, <1>2, <1>3, <1>4, <1>5, <1>6, <1>7, <1>8

\* A lock has written the registers: its frame is on top of those of the task.
LEMMA EnterBase ==
  ASSUME BaseInv, NEW t \in Tasks, EnterLock(t)
  PROVE  LET f == reading[t][1]
             n == Len(held[t]) + 1
         IN  /\ BaseInv'
             /\ phase = "run" /\ Running(t) /\ reading[t] # NoFrame
             /\ f \in Frame /\ f.res \in Uses(t) /\ f.res \in Resources
             /\ regs' = Raise(f.res)
             /\ DOMAIN held'[t] = DOMAIN held[t] \cup {n}
             /\ n \in Nat /\ n \notin DOMAIN held[t] /\ held'[t][n] = f
             /\ \A i \in DOMAIN held[t] : i \in Nat /\ i < n /\ held'[t][i] = held[t][i]
             /\ \A u \in Tasks \ {t} : held'[u] = held[u] /\ reading'[u] = reading[u]
             /\ reading'[t] = NoFrame
             /\ UNCHANGED <<app, phase, ownerships, backend, active, initial>>
<1> USE DEF BaseInv
<1> DEFINE f == reading[t][1]
           n == Len(held[t]) + 1
<1>0. /\ t \in active /\ Running(t) /\ reading[t] # NoFrame
      /\ regs' = Raise(f.res)
      /\ held' = [held EXCEPT ![t] = Append(held[t], f)]
      /\ reading' = [reading EXCEPT ![t] = NoFrame]
      /\ UNCHANGED <<analysisVars, backend, active, initial>>
  BY DEF EnterLock, Running
<1>1. OwnershipInv'
  BY <1>0, OwnershipNext
<1>2. UNCHANGED <<app, phase, ownerships>> /\ phase = "run"
  BY <1>0 DEF analysisVars, QuietInv
<1>3. f \in Frame /\ f.res \in Resources /\ f.res \in Uses(t)
  <2>1. Len(reading[t]) = 1 /\ f.res \in Uses(t)
    BY <1>0 DEF HeldInv
  <2>2. reading[t] \in Seq(Frame)
    BY DEF LocksTypeOK
  <2>3. f \in Frame
    BY <2>1, <2>2, LenProperties
  <2> QED BY <2>1, <2>3 DEF Frame
<1>4. regs' \in Registers
  BY <1>0, <1>3, RaiseType
<1> HIDE DEF f
<1>5. /\ held'[t] \in Seq(Frame) /\ DOMAIN held'[t] = DOMAIN held[t] \cup {n}
      /\ \A i \in DOMAIN held[t] : i < n /\ held'[t][i] = held[t][i]
      /\ held'[t][n] = f /\ n \notin DOMAIN held[t]
      /\ \A u \in Tasks \ {t} : held'[u] = held[u]
  <2>1. held[t] \in Seq(Frame) /\ held'[t] = Append(held[t], f)
    BY <1>0 DEF LocksTypeOK
  <2>2. \A u \in Tasks \ {t} : held'[u] = held[u]
    BY <1>0 DEF LocksTypeOK
  <2> QED BY <2>1, <2>2, <1>3, PushFrame
<1>6. reading'[t] = NoFrame /\ \A u \in Tasks \ {t} : reading'[u] = reading[u]
  BY <1>0 DEF LocksTypeOK
<1>7. n \in Nat /\ \A i \in DOMAIN held[t] : i \in Nat
  <2>1. held[t] \in Seq(Frame)
    BY DEF LocksTypeOK
  <2>2. Len(held[t]) \in Nat /\ DOMAIN held[t] = 1..Len(held[t])
    BY <2>1, LenProperties
  <2> QED BY <2>2
<1> HIDE DEF n
<1>8. LocksTypeOK'
  <2>1. held' \in [Tasks -> Seq(Frame)]
    BY <1>0, <1>5 DEF LocksTypeOK
  <2>2. reading' \in [Tasks -> Seq(Frame)]
    BY <1>0, EmptySeq DEF LocksTypeOK, NoFrame
  <2> QED BY <2>1, <2>2, <1>0, <1>4 DEF LocksTypeOK
<1>9. QuietInv'
  BY <1>0, <1>2, <1>5, <1>6 DEF QuietInv, prio
<1>10. HeldInv'
  <2>1. \A u \in Tasks : \A i \in DOMAIN held'[u] : held'[u][i].res \in Uses(u)
    BY <1>3, <1>5 DEF HeldInv
  <2> QED BY <2>1, <1>2, <1>6 DEF HeldInv, Uses
<1>11. BaseInv'
  BY <1>1, <1>8, <1>9, <1>10
<1> QED BY <1>0, <1>2, <1>3, <1>5, <1>6, <1>7, <1>11 DEF f, n

\* A lock is over: its frame is taken off.
LEMMA ExitBase ==
  ASSUME BaseInv, NEW t \in Tasks, ExitLock(t)
  PROVE  LET n == Len(held[t])
         IN  /\ BaseInv'
             /\ phase = "run" /\ Running(t) /\ reading[t] = NoFrame
             /\ n \in DOMAIN held[t] /\ held[t][n] \in Frame
             /\ regs' = Restore(held[t][n])
             /\ DOMAIN held'[t] = DOMAIN held[t] \ {n}
             /\ \A i \in DOMAIN held'[t] : i < n /\ held'[t][i] = held[t][i]
             /\ \A i \in DOMAIN held[t] : ~(n < i)
             /\ \A u \in Tasks \ {t} : held'[u] = held[u]
             /\ UNCHANGED <<app, phase, ownerships, backend, active, initial, reading>>
<1> USE DEF BaseInv
<1> DEFINE n == Len(held[t])
<1>0. /\ t \in active /\ Running(t) /\ reading[t] = NoFrame /\ held[t] # << >>
      /\ regs' = Restore(held[t][n])
      /\ held' = [held EXCEPT ![t] = SubSeq(held[t], 1, n - 1)]
      /\ UNCHANGED <<analysisVars, backend, active, initial, reading>>
  BY DEF ExitLock, Running
<1>1. OwnershipInv'
  BY <1>0, OwnershipNext
<1>2. UNCHANGED <<app, phase, ownerships>> /\ phase = "run"
  BY <1>0 DEF analysisVars, QuietInv
<1>3. /\ n \in DOMAIN held[t]
      /\ held'[t] \in Seq(Frame)
      /\ DOMAIN held'[t] = DOMAIN held[t] \ {n}
      /\ \A i \in DOMAIN held'[t] : i \in DOMAIN held[t] /\ i < n /\ held'[t][i] = held[t][i]
      /\ \A u \in Tasks \ {t} : held'[u] = held[u]
  <2>1. held[t] \in Seq(Frame) /\ held'[t] = SubSeq(held[t], 1, n - 1)
    BY <1>0 DEF LocksTypeOK
  <2>2. \A u \in Tasks \ {t} : held'[u] = held[u]
    BY <1>0 DEF LocksTypeOK
  <2> QED BY <2>1, <2>2, <1>0, PopFrame
<1>4. \A i \in DOMAIN held[t] : ~(n < i)
  <2>1. DOMAIN held[t] = 1..n /\ n \in Nat
    BY LenProperties DEF LocksTypeOK
  <2> QED BY <2>1
<1>5. held[t][n] \in Frame
  BY <1>3, HeldType
<1>6. regs' \in Registers
  BY <1>0, <1>5, RestoreType
<1> HIDE DEF n
<1>7. LocksTypeOK'
  <2>1. held' \in [Tasks -> Seq(Frame)]
    BY <1>0, <1>3 DEF LocksTypeOK
  <2> QED BY <2>1, <1>0, <1>6 DEF LocksTypeOK
<1>8. QuietInv'
  BY <1>0, <1>2, <1>3 DEF QuietInv, prio
<1>9. HeldInv'
  <2>1. \A u \in Tasks : \A i \in DOMAIN held'[u] : held'[u][i].res \in Uses(u)
    BY <1>3 DEF HeldInv
  <2> QED BY <2>1, <1>0, <1>2 DEF HeldInv, Uses
<1>10. BaseInv'
  BY <1>1, <1>7, <1>8, <1>9
<1> QED BY <1>0, <1>2, <1>3, <1>4, <1>5, <1>10 DEF n

LEMMA StutterBase ==
  ASSUME BaseInv, UNCHANGED vars
  PROVE  /\ BaseInv'
         /\ UNCHANGED <<app, phase, ownerships, backend, active, regs, initial,
                        reading, held>>
<1> USE DEF BaseInv, vars, lockVars
<1>1. OwnershipInv'
  BY OwnershipNext
<1>2. UNCHANGED <<app, phase, ownerships>>
  BY DEF analysisVars
<1>3. LocksTypeOK' /\ QuietInv' /\ HeldInv'
  BY <1>2 DEF LocksTypeOK, QuietInv, HeldInv, prio, Uses
<1> QED BY <1>1, <1>2, <1>3

\* The invariant of analysis and locks that holds for every backend.
THEOREM BaseInvariant == Spec => []BaseInv
<1>1. BaseInv /\ [Next]_vars => BaseInv'
  BY AnalyseBase, StartBase, FinishBase, ReadBase, EnterBase, ExitBase, StutterBase
     DEF Next, TaskNext
<1> QED BY <1>1, BaseInit, PTL DEF Spec

\* The ceilings are right at every step of the analysis and of the program
\* (analyze.rs:204-242), and no application that the check rejects runs.
THEOREM OwnershipTheorem == Spec => []OwnershipInv
<1>1. BaseInv => OwnershipInv
  BY DEF BaseInv
<1> QED BY <1>1, BaseInvariant, PTL

\* Of the users of a lock-free resource only one has begun at any time
\* (analyze.rs:60-93): they have one priority, and do not preempt one another.
THEOREM LockFreeTheorem == Spec => []LockFreeExclusive
<1>1. BaseInv => LockFreeExclusive
  <2> SUFFICES ASSUME BaseInv, phase = "run", NEW u \in active, NEW t \in active, u # t,
                      NEW r \in Uses(u) \cap Uses(t) \cap LockFree
               PROVE  FALSE
    BY DEF LockFreeExclusive
  <2>1. u \in Users(r) /\ t \in Users(r)
    BY DEF BaseInv, LocksTypeOK, Users
  <2>2. ~LockFreeError /\ app \in Apps
    BY DEF BaseInv, OwnershipInv, AnalysisTypeOK
  <2>3. prio(u) = prio(t)
    BY <2>1, <2>2, LockFreeUsers
  <2> QED BY <2>3 DEF BaseInv, QuietInv
<1> QED BY <1>1, BaseInvariant, PTL

-----------------------------------------------------------------------------
(***************************************************************************)
(* What is masked, and for which locks.                                    *)
(***************************************************************************)

\* The frames of all tasks: the task, the place in held, and the resource.
Frames == UNION {{<<u, i, held[u][i].res>> : i \in DOMAIN held[u]} : u \in Tasks}

\* The frames that were there when v began its frame j; those v finds when it
\* begins a lock; and those that were there when v began.
FramesBefore(v, j) == {p \in Frames : (p[1] = v /\ p[2] < j) \/ Below(p[1], v)}
FramesUnder(v) == {p \in Frames : p[1] = v \/ Below(p[1], v)}
FramesBelow(v) == {p \in Frames : Below(p[1], v)}

\* A threshold was lowered by one of these frames.
LoweredIn(F) ==
  /\ backend = "threshold"
  /\ \E p, q \in F : /\ p[1] = q[1] /\ p[2] < q[2]
                     /\ Ceiling(p[3]) # Top /\ Ceiling(p[3]) > Ceiling(q[3])

\* One of these frames has to keep t from starting, by a level or a mask.
Wanted(F, t) == \E p \in F : Ceiling(p[3]) # Top /\ prio(t) <= Ceiling(p[3])

\* The registers s mask what the frames want masked, and nothing else.
Fits(F, s) ==
  /\ s.primask <=> \E p \in F : Ceiling(p[3]) = Top
  /\ \A t \in Interrupts :
       /\ LevelMasked(s, t) => Wanted(F, t)
       /\ Wanted(F, t) => LevelMasked(s, t) \/ LoweredIn(F)

LevelFits(F, level) ==
  backend = "source_mask" \/
  \A t \in Interrupts :
    /\ prio(t) <= level => Wanted(F, t)
    /\ Wanted(F, t) => prio(t) <= level \/ LoweredIn(F)

\* The registers fit the locks that are held; what was saved fits the locks
\* that were held; and whoever has begun is above the ceilings it has found.
MaskInv ==
  /\ Fits(Frames, regs)
  /\ \A v \in Tasks : \A j \in DOMAIN held[v] :
       Fits(FramesBefore(v, j), held[v][j].saved)
  /\ \A v \in Tasks : reading[v] # NoFrame => Fits(FramesUnder(v), reading[v][1].saved)
  /\ \A v \in active : LevelFits(FramesBelow(v), initial[v])
  /\ \A v \in active : \A p \in FramesBelow(v) :
       prio(v) > Ceiling(p[3]) \/ LoweredIn(FramesBelow(v))

LocksInv == BaseInv /\ MaskInv

LEMMA FramesMember ==
  /\ \A u \in Tasks : \A i \in DOMAIN held[u] : <<u, i, held[u][i].res>> \in Frames
  /\ \A p \in Frames : /\ p[1] \in Tasks /\ p[2] \in DOMAIN held[p[1]]
                       /\ p[3] = held[p[1]][p[2]].res
                       /\ p = <<p[1], p[2], p[3]>>
BY DEF Frames

LEMMA FramesType ==
  ASSUME BaseInv, NEW p \in Frames
  PROVE  /\ p[1] \in active /\ p[1] \in Tasks /\ p[2] \in DOMAIN held[p[1]]
         /\ p[3] \in Resources /\ Ceiling(p[3]) \in 0..Top
         /\ p[3] \in Uses(p[1])
<1>1. p[1] \in Tasks /\ p[2] \in DOMAIN held[p[1]] /\ p[3] = held[p[1]][p[2]].res
  BY FramesMember
<1>2. p[3] \in Resources
  BY <1>1, HeldType DEF BaseInv
<1>3. p[1] \in active
  BY <1>1, HoldersAreActive
<1>4. p[3] \in Uses(p[1])
  BY <1>1 DEF BaseInv, HeldInv
<1> QED BY <1>1, <1>2, <1>3, <1>4, CeilingType DEF BaseInv

\* What fits depends on the application and the backend only.
LEMMA SameFits ==
  ASSUME UNCHANGED <<app, ownerships, backend>>
  PROVE  /\ \A F, s : Fits(F, s)' <=> Fits(F, s)
         /\ \A F, level : LevelFits(F, level)' <=> LevelFits(F, level)
         /\ \A F : LoweredIn(F)' <=> LoweredIn(F)
BY DEF Fits, LevelFits, Wanted, LoweredIn, LevelMasked, Ceiling, prio

\* The invariant after a step, in terms of frames and of what fitted before.
LEMMA MaskStep ==
  ASSUME UNCHANGED <<app, ownerships, backend>>,
         Fits(Frames', regs'),
         \A v \in Tasks : \A j \in DOMAIN held'[v] :
           Fits(FramesBefore(v, j)', held'[v][j].saved),
         \A v \in Tasks :
           reading'[v] # NoFrame => Fits(FramesUnder(v)', reading'[v][1].saved),
         \A v \in active' : LevelFits(FramesBelow(v)', initial'[v]),
         \A v \in active' : \A p \in FramesBelow(v)' :
           prio(v) > Ceiling(p[3]) \/ LoweredIn(FramesBelow(v)')
  PROVE  MaskInv'
<1>1. /\ Fits(Frames, regs)'
      /\ \A v \in Tasks : \A j \in DOMAIN held'[v] :
           Fits(FramesBefore(v, j), held[v][j].saved)'
      /\ \A v \in Tasks :
           reading'[v] # NoFrame => Fits(FramesUnder(v), reading[v][1].saved)'
      /\ \A v \in active' : LevelFits(FramesBelow(v), initial[v])'
  BY DEF Fits, LevelFits, Wanted, LoweredIn, LevelMasked, Ceiling, prio
<1>2. \A v \in active' : \A p \in FramesBelow(v)' :
        (prio(v) > Ceiling(p[3]) \/ LoweredIn(FramesBelow(v)))'
  BY DEF LoweredIn, Ceiling, prio
<1> QED BY <1>1, <1>2 DEF MaskInv

\* The same frames, with the same registers.
LEMMA SameMask ==
  ASSUME MaskInv, UNCHANGED <<app, ownerships, backend, active, regs, initial,
                              reading, held>>
  PROVE  MaskInv'
<1>1. Frames' = Frames
  BY DEF Frames
<1>2. \A u, v : Below(u, v)' <=> Below(u, v)
  BY DEF Below, prio
<1>3. \A v : /\ FramesUnder(v)' = FramesUnder(v) /\ FramesBelow(v)' = FramesBelow(v)
             /\ \A j : FramesBefore(v, j)' = FramesBefore(v, j)
  BY <1>1, <1>2 DEF FramesUnder, FramesBelow, FramesBefore
<1> QED BY <1>1, <1>3, MaskStep DEF MaskInv

-----------------------------------------------------------------------------
\* What lock writes fits the frames with the new one on top of them: a
\* threshold is not lowered if the new ceiling is the largest.
LEMMA RaiseFits ==
  ASSUME BaseInv, NEW F, NEW q, q[3] \in Resources, Fits(F, regs),
         \A p \in F : Ceiling(p[3]) \in 0..Top,
         backend = "threshold" =>
           LoweredIn(F \cup {q}) \/
           \A p \in F : Ceiling(p[3]) # Top => Ceiling(p[3]) <= Ceiling(q[3])
  PROVE  Fits(F \cup {q}, Raise(q[3]))
<1> DEFINE c == Ceiling(q[3])
           G == F \cup {q}
<1>0. /\ regs \in Registers /\ backend \in {"basepri", "source_mask", "threshold"}
      /\ c \in 0..Top /\ Top \in Nat
      /\ \A t \in Interrupts : prio(t) \in 1..Top
      /\ regs.level \in 0..Top
  BY CeilingType, BackendsAssumption DEF BaseInv, LocksTypeOK, Registers
<1>1. \A t : Wanted(G, t) <=> Wanted(F, t) \/ (c # Top /\ prio(t) <= c)
  BY DEF Wanted
<1>2. (\E p \in G : Ceiling(p[3]) = Top) <=> (\E p \in F : Ceiling(p[3]) = Top) \/ c = Top
  OBVIOUS
<1>3. LoweredIn(F) => LoweredIn(G)
  BY DEF LoweredIn
<1>4. /\ regs.primask <=> \E p \in F : Ceiling(p[3]) = Top
      /\ \A t \in Interrupts :
           /\ LevelMasked(regs, t) => Wanted(F, t)
           /\ Wanted(F, t) => LevelMasked(regs, t) \/ LoweredIn(F)
  BY DEF Fits
<1> SUFFICES /\ Raise(q[3]).primask <=> regs.primask \/ c = Top
             /\ \A t \in Interrupts :
                  /\ LevelMasked(Raise(q[3]), t) => Wanted(G, t)
                  /\ Wanted(G, t) => LevelMasked(Raise(q[3]), t) \/ LoweredIn(G)
  BY <1>2, <1>4 DEF Fits
<1>5. CASE c = Top
  <2>1. Raise(q[3]) = [regs EXCEPT !.primask = TRUE]
    BY <1>5 DEF Raise
  <2>2. /\ Raise(q[3]).primask /\ Raise(q[3]).level = regs.level
        /\ Raise(q[3]).enabled = regs.enabled
    BY <2>1, <1>0 DEF Registers
  <2>3. \A t : LevelMasked(Raise(q[3]), t) <=> LevelMasked(regs, t)
    BY <2>2 DEF LevelMasked
  <2> QED BY <2>2, <2>3, <1>1, <1>3, <1>4, <1>5
<1>6. CASE c # Top /\ backend = "source_mask"
  <2>1. Raise(q[3]) = [regs EXCEPT !.enabled = @ \ Mask(q[3])]
    BY <1>6 DEF Raise
  <2>2. /\ Raise(q[3]).primask = regs.primask
        /\ Raise(q[3]).enabled = regs.enabled \ Mask(q[3])
    BY <2>1, <1>0 DEF Registers
  <2>3. \A t \in Interrupts :
          LevelMasked(Raise(q[3]), t) <=> LevelMasked(regs, t) \/ prio(t) <= c
    BY <2>2, <1>6 DEF LevelMasked, Mask
  <2> QED BY <2>2, <2>3, <1>1, <1>3, <1>4, <1>6
<1>7. CASE c # Top /\ backend = "basepri"
  <2>1. Raise(q[3]) = [regs EXCEPT !.level = IF c > @ THEN c ELSE @]
    BY <1>7 DEF Raise
  <2>2. /\ Raise(q[3]).primask = regs.primask
        /\ Raise(q[3]).level = IF c > regs.level THEN c ELSE regs.level
    BY <2>1, <1>0 DEF Registers
  <2>3. \A t \in Interrupts :
          prio(t) <= Raise(q[3]).level <=> prio(t) <= regs.level \/ prio(t) <= c
    BY <2>2, <1>0
  <2>4. \A t \in Interrupts :
          LevelMasked(Raise(q[3]), t) <=> LevelMasked(regs, t) \/ prio(t) <= c
    BY <2>3, <1>7 DEF LevelMasked
  <2> QED BY <2>2, <2>4, <1>1, <1>3, <1>4, <1>7
<1>8. CASE c # Top /\ backend = "threshold"
  <2>1. Raise(q[3]) = [regs EXCEPT !.level = c]
    BY <1>8 DEF Raise
  <2>2. Raise(q[3]).primask = regs.primask /\ Raise(q[3]).level = c
    BY <2>1, <1>0 DEF Registers
  <2>3. \A t \in Interrupts : LevelMasked(Raise(q[3]), t) <=> prio(t) <= c
    BY <2>2, <1>8 DEF LevelMasked
  <2>4. ASSUME ~LoweredIn(G), NEW t \in Interrupts, Wanted(F, t)
        PROVE  prio(t) <= c
    <3>1. PICK p \in F : Ceiling(p[3]) # Top /\ prio(t) <= Ceiling(p[3])
      BY <2>4 DEF Wanted
    <3>2. Ceiling(p[3]) <= c /\ Ceiling(p[3]) \in Int
      BY <2>4, <3>1, <1>8
    <3> QED BY <3>1, <3>2, <1>0
  <2> QED BY <2>2, <2>3, <2>4, <1>1, <1>8
<1> QED BY <1>0, <1>5, <1>6, <1>7, <1>8

\* What lock writes back fits the frames without the one it takes off.
LEMMA RestoreFits ==
  ASSUME BaseInv, NEW F, NEW q, NEW f \in Frame, q[3] = f.res,
         \A p \in F : Ceiling(p[3]) \in 0..Top,
         Fits(F \cup {q}, regs), Fits(F, f.saved)
  PROVE  Fits(F, Restore(f))
<1> DEFINE c == Ceiling(f.res)
           G == F \cup {q}
<1>0. /\ regs \in Registers /\ f.saved \in Registers
      /\ c \in 0..Top /\ Top \in Nat
  BY CeilingType DEF BaseInv, LocksTypeOK, Frame
<1>1. \A t : Wanted(G, t) <=> Wanted(F, t) \/ (c # Top /\ prio(t) <= c)
  BY DEF Wanted
<1>2. (\E p \in G : Ceiling(p[3]) = Top) <=> (\E p \in F : Ceiling(p[3]) = Top) \/ c = Top
  OBVIOUS
<1>3. /\ regs.primask <=> \E p \in G : Ceiling(p[3]) = Top
      /\ \A t \in Interrupts :
           /\ LevelMasked(regs, t) => Wanted(G, t)
           /\ Wanted(G, t) => LevelMasked(regs, t) \/ LoweredIn(G)
  BY DEF Fits
<1>4. /\ f.saved.primask <=> \E p \in F : Ceiling(p[3]) = Top
      /\ \A t \in Interrupts :
           /\ LevelMasked(f.saved, t) => Wanted(F, t)
           /\ Wanted(F, t) => LevelMasked(f.saved, t) \/ LoweredIn(F)
  BY DEF Fits
<1> SUFFICES /\ Restore(f).primask <=> \E p \in F : Ceiling(p[3]) = Top
             /\ \A t \in Interrupts :
                  /\ LevelMasked(Restore(f), t) => Wanted(F, t)
                  /\ Wanted(F, t) => LevelMasked(Restore(f), t) \/ LoweredIn(F)
  BY DEF Fits
<1>5. CASE c = Top
  <2>1. Restore(f) = [regs EXCEPT !.primask = f.saved.primask]
    BY <1>5 DEF Restore
  <2>2. /\ Restore(f).primask = f.saved.primask /\ Restore(f).level = regs.level
        /\ Restore(f).enabled = regs.enabled
    BY <2>1, <1>0 DEF Registers
  <2>3. \A t : LevelMasked(Restore(f), t) <=> LevelMasked(regs, t)
    BY <2>2 DEF LevelMasked
  <2>4. LoweredIn(G) => LoweredIn(F)
    <3>1. \A p \in G : Ceiling(p[3]) \in 0..Top
      BY <1>0
    <3>2. \A p, r \in G : Ceiling(p[3]) # Top /\ Ceiling(p[3]) > Ceiling(r[3]) =>
            p # q /\ r # q
      BY <3>1, <1>0, <1>5
    <3> QED BY <3>2 DEF LoweredIn
  <2> QED BY <2>2, <2>3, <2>4, <1>1, <1>3, <1>4, <1>5
<1>6. CASE c # Top /\ backend = "source_mask"
  <2>1. Restore(f) = [regs EXCEPT !.enabled = @ \cup
                        (IF Mask(f.res) = {} THEN {} ELSE f.saved.enabled)]
    BY <1>6 DEF Restore
  <2>2. /\ Restore(f).primask = regs.primask
        /\ Restore(f).enabled = regs.enabled \cup
             (IF Mask(f.res) = {} THEN {} ELSE f.saved.enabled)
    BY <2>1, <1>0 DEF Registers
  <2>3. ~LoweredIn(F) /\ ~LoweredIn(G)
    BY <1>6 DEF LoweredIn
  <2>4. CASE Mask(f.res) = {}
    <3>1. \A t \in Interrupts : ~(prio(t) <= c)
      BY <2>4 DEF Mask
    <3>2. \A t \in Interrupts : LevelMasked(Restore(f), t) <=> LevelMasked(regs, t)
      BY <2>2, <2>4, <1>6 DEF LevelMasked
    <3> QED BY <3>1, <3>2, <2>2, <2>3, <1>1, <1>2, <1>3, <1>6
  <2>5. CASE Mask(f.res) # {}
    <3>1. \A t \in Interrupts :
            LevelMasked(Restore(f), t) <=> LevelMasked(regs, t) /\ LevelMasked(f.saved, t)
      BY <2>2, <2>5, <1>6 DEF LevelMasked
    <3> QED BY <3>1, <2>2, <2>3, <1>1, <1>2, <1>3, <1>4, <1>6
  <2> QED BY <2>4, <2>5
<1>7. CASE c # Top /\ backend # "source_mask"
  <2>1. Restore(f) = [regs EXCEPT !.level = f.saved.level]
    BY <1>7 DEF Restore
  <2>2. Restore(f).primask = regs.primask /\ Restore(f).level = f.saved.level
    BY <2>1, <1>0 DEF Registers
  <2>3. \A t : LevelMasked(Restore(f), t) <=> LevelMasked(f.saved, t)
    BY <2>2, <1>7 DEF LevelMasked
  <2> QED BY <2>2, <2>3, <1>2, <1>3, <1>4, <1>7
<1> QED BY <1>5, <1>6, <1>7

-----------------------------------------------------------------------------
(***************************************************************************)
(* The steps of MaskInv                                                    *)
(***************************************************************************)

\* Once the program runs, nobody is above the ceiling of a resource it uses.
LEMMA UserBelowCeiling ==
  ASSUME OwnershipInv, phase = "run", NEW t \in Tasks, NEW r \in Uses(t)
  PROVE  r \in Resources /\ prio(t) <= Ceiling(r)
<1>1. r \in Resources
  BY AppsAssumption DEF OwnershipInv, AnalysisTypeOK, Uses
<1>2. Processed(t, r)
  BY DEF OwnershipInv, Processed
<1> QED BY <1>1, <1>2 DEF OwnershipInv, CeilingIsMaximum, Ceiling

\* Without locks nothing is masked.
LEMMA NothingHeld ==
  ASSUME BaseInv, active = {Idle}, regs.level = 0, regs.enabled = Interrupts,
         ~regs.primask, initial[Idle] = 0,
         \A t \in Tasks : DOMAIN held[t] = {} /\ reading[t] = NoFrame
  PROVE  MaskInv
<1>1. Frames = {}
  BY DEF Frames
<1>2. \A v : FramesBelow(v) = {}
  BY <1>1 DEF FramesBelow
<1>3. \A t \in Interrupts : ~(prio(t) <= 0)
  BY CeilingType DEF BaseInv
<1>4. \A t \in Interrupts : ~LevelMasked(regs, t)
  BY <1>3 DEF LevelMasked
<1>5. Fits(Frames, regs) /\ LevelFits({}, 0)
  BY <1>1, <1>3, <1>4 DEF Fits, LevelFits, Wanted
<1> QED BY <1>2, <1>5 DEF MaskInv

LEMMA MaskInit == Init => MaskInv
<1> SUFFICES ASSUME Init PROVE MaskInv
  OBVIOUS
<1>1. \A t \in Tasks : DOMAIN held[t] = {} /\ reading[t] = NoFrame
  BY EmptySeq, LenProperties DEF Init, NoFrame
<1>2. /\ active = {Idle} /\ regs.level = 0 /\ regs.enabled = Interrupts
      /\ ~regs.primask /\ initial[Idle] = 0
  BY DEF Init, Tasks
<1> QED BY <1>1, <1>2, BaseInit, NothingHeld

\* The ceilings change while the analysis runs, but nothing is locked yet.
LEMMA AnalyseMask ==
  ASSUME BaseInv, MaskInv, Analyse, UNCHANGED lockVars
  PROVE  MaskInv'
<1>1. /\ UNCHANGED <<app, backend, active, regs, initial, reading, held>>
      /\ \A t \in Tasks : DOMAIN held[t] = {} /\ reading[t] = NoFrame
      /\ active = {Idle}
  BY AnalyseBase
<1>2. Frames = {} /\ Frames' = {}
  BY <1>1 DEF Frames
<1>3. \A v : FramesBelow(v) = {} /\ FramesBelow(v)' = {}
  BY <1>2 DEF FramesBelow
<1>4. \A s : Fits({}, s)' <=> Fits({}, s)
  BY <1>1 DEF Fits, Wanted, LoweredIn, LevelMasked, prio
<1>5. \A level : LevelFits({}, level)' <=> LevelFits({}, level)
  BY <1>1 DEF LevelFits, Wanted, LoweredIn, prio
<1>6. Fits({}, regs)'
  BY <1>1, <1>2, <1>4 DEF MaskInv
<1>7. \A v \in active' : LevelFits({}, initial[v])'
  BY <1>1, <1>3, <1>5 DEF MaskInv
<1> QED BY <1>1, <1>2, <1>3, <1>6, <1>7 DEF MaskInv

\* Everything that is held is below a task that is above all others.
LEMMA AllBelow ==
  ASSUME BaseInv, NEW v \in Tasks, DOMAIN held[v] = {},
         \A u \in active : u = v \/ Below(u, v)
  PROVE  FramesBelow(v) = Frames
<1>1. \A p \in Frames : p[1] # v /\ p[1] \in active
  BY FramesType
<1> QED BY <1>1 DEF FramesBelow

\* A task begins: it is not masked, so it is above what is held.
LEMMA StartMask ==
  ASSUME BaseInv, MaskInv, NEW t \in Tasks, Start(t)
  PROVE  MaskInv'
<1>0. /\ t \notin active /\ DOMAIN held[t] = {} /\ reading[t] = NoFrame
      /\ \A u \in active : prio(u) < prio(t)
      /\ active' = active \cup {t}
      /\ initial' = [initial EXCEPT ![t] = regs.level]
      /\ UNCHANGED <<app, phase, ownerships, backend, regs, reading, held>>
  BY StartBase
<1>m. t \in Interrupts /\ ~regs.primask /\ ~LevelMasked(regs, t)
  BY DEF Start, Masked
<1>i. initial'[t] = regs.level /\ \A v \in active : initial'[v] = initial[v]
  BY <1>0 DEF BaseInv, LocksTypeOK
<1>1. Frames' = Frames
  BY <1>0 DEF Frames
<1>2. \A p \in Frames : p[1] \in active
  BY FramesType
<1>3. \A u, v : u # t /\ v # t => (Below(u, v)' <=> Below(u, v))
  BY <1>0 DEF Below, prio
<1>4. FramesBelow(t)' = Frames
  <2>1. \A u \in active : Below(u, t)'
    BY <1>0 DEF Below, prio
  <2> QED BY <2>1, <1>1, <1>2 DEF FramesBelow
<1>5. \A v : v # t => /\ FramesUnder(v)' = FramesUnder(v)
                      /\ FramesBelow(v)' = FramesBelow(v)
                      /\ \A j : FramesBefore(v, j)' = FramesBefore(v, j)
  BY <1>0, <1>1, <1>2, <1>3 DEF FramesUnder, FramesBelow, FramesBefore
<1>6. Fits(Frames, regs)
  BY DEF MaskInv
<1>7. LevelFits(Frames, regs.level)
  BY <1>6 DEF Fits, LevelFits, LevelMasked
<1>8. \A p \in Frames : prio(t) > Ceiling(p[3]) \/ LoweredIn(Frames)
  <2> SUFFICES ASSUME NEW p \in Frames, ~LoweredIn(Frames)
               PROVE  prio(t) > Ceiling(p[3])
    OBVIOUS
  <2>1. Ceiling(p[3]) # Top /\ ~Wanted(Frames, t)
    BY <1>6, <1>m DEF Fits
  <2>2. ~(prio(t) <= Ceiling(p[3]))
    BY <2>1 DEF Wanted
  <2>3. Ceiling(p[3]) \in 0..Top /\ prio(t) \in 0..Top /\ Top \in Nat
    BY FramesType, CeilingType DEF BaseInv
  <2> QED BY <2>2, <2>3
<1>9. \A v \in Tasks : \A j \in DOMAIN held'[v] :
        Fits(FramesBefore(v, j)', held'[v][j].saved)
  BY <1>0, <1>5 DEF MaskInv
<1>10. \A v \in Tasks : reading'[v] # NoFrame =>
         Fits(FramesUnder(v)', reading'[v][1].saved)
  BY <1>0, <1>5 DEF MaskInv
<1>11. \A v \in active' : LevelFits(FramesBelow(v)', initial'[v])
  BY <1>0, <1>4, <1>5, <1>7, <1>i DEF MaskInv
<1>12. \A v \in active' : \A p \in FramesBelow(v)' :
         prio(v) > Ceiling(p[3]) \/ LoweredIn(FramesBelow(v)')
  BY <1>0, <1>4, <1>5, <1>8 DEF MaskInv
<1> QED BY <1>0, <1>1, <1>6, <1>9, <1>10, <1>11, <1>12, MaskStep

\* A task is over, and run writes the level of its beginning.  For priority 1
\* that is 0, and what idle holds has ceiling 0 then.
LEMMA FinishMask ==
  ASSUME BaseInv, MaskInv, NEW t \in Tasks, Finish(t)
  PROVE  MaskInv'
<1> DEFINE level == IF prio(t) = 1 THEN 0 ELSE initial[t]
<1>0. /\ phase = "run" /\ t \in active
      /\ DOMAIN held[t] = {} /\ reading[t] = NoFrame
      /\ active' = active \ {t}
      /\ regs'.primask = regs.primask /\ regs'.enabled = regs.enabled
      /\ regs'.level = IF backend = "source_mask" THEN regs.level ELSE level
      /\ UNCHANGED <<app, phase, ownerships, backend, initial, reading, held>>
  BY FinishBase
<1>1. Frames' = Frames
  BY <1>0 DEF Frames
<1>2. \A p \in Frames : p[1] \in active /\ p[1] # t
  BY FramesType, <1>0
<1>3. \A u, v : u # t /\ v # t => (Below(u, v)' <=> Below(u, v))
  BY <1>0 DEF Below, prio
<1>4. \A v : v # t => /\ FramesUnder(v)' = FramesUnder(v)
                      /\ FramesBelow(v)' = FramesBelow(v)
                      /\ \A j : FramesBefore(v, j)' = FramesBefore(v, j)
  BY <1>1, <1>2, <1>3 DEF FramesUnder, FramesBelow, FramesBefore
<1>5. FramesBelow(t) = Frames
  <2>1. Running(t)
    BY DEF Finish
  <2> QED BY <2>1, <1>0, RunningIsHighest, AllBelow
<1>6. LevelFits(Frames, level)
  <2>1. CASE prio(t) # 1
    BY <2>1, <1>0, <1>5 DEF MaskInv
  <2>2. CASE prio(t) = 1
    <3>1. \A u \in Interrupts : prio(u) \in 1..Top /\ Top \in Nat
      BY CeilingType DEF BaseInv
    <3>2. \A u \in Interrupts : ~(prio(u) <= 0)
      BY <3>1
    <3>3. ASSUME NEW u \in Interrupts, Wanted(Frames, u), ~LoweredIn(Frames) PROVE FALSE
      <4>1. PICK p \in Frames : prio(u) <= Ceiling(p[3])
        BY <3>3 DEF Wanted
      <4>2. 1 > Ceiling(p[3])
        BY <2>2, <3>3, <1>0, <1>5 DEF MaskInv
      <4>3. Ceiling(p[3]) \in 0..Top
        BY FramesType
      <4> QED BY <4>1, <4>2, <4>3, <3>1
    <3> QED BY <2>2, <3>2, <3>3 DEF LevelFits
  <2> QED BY <2>1, <2>2
<1> HIDE DEF level
<1>7. Fits(Frames, regs')
  <2>1. Fits(Frames, regs)
    BY DEF MaskInv
  <2>2. CASE backend = "source_mask"
    BY <2>1, <2>2, <1>0 DEF Fits, LevelMasked
  <2>3. CASE backend # "source_mask"
    BY <2>1, <2>3, <1>0, <1>6 DEF Fits, LevelFits, LevelMasked
  <2> QED BY <2>2, <2>3
<1>8. \A v \in Tasks : \A j \in DOMAIN held'[v] :
        Fits(FramesBefore(v, j)', held'[v][j].saved)
  BY <1>0, <1>4 DEF MaskInv
<1>9. \A v \in Tasks : reading'[v] # NoFrame =>
        Fits(FramesUnder(v)', reading'[v][1].saved)
  BY <1>0, <1>4 DEF MaskInv
<1>10. \A v \in active' : LevelFits(FramesBelow(v)', initial'[v])
  BY <1>0, <1>4 DEF MaskInv
<1>11. \A v \in active' : \A p \in FramesBelow(v)' :
         prio(v) > Ceiling(p[3]) \/ LoweredIn(FramesBelow(v)')
  BY <1>0, <1>4 DEF MaskInv
<1> QED BY <1>0, <1>1, <1>7, <1>8, <1>9, <1>10, <1>11, MaskStep

\* A lock begins: what it saves fits all frames, since the registers do.
LEMMA ReadMask ==
  ASSUME BaseInv, MaskInv, NEW t \in Tasks, NEW r \in Resources, ReadRegisters(t, r)
  PROVE  MaskInv'
<1>0. /\ Running(t)
      /\ reading'[t] # NoFrame /\ reading'[t][1].saved = regs
      /\ \A u \in Tasks \ {t} : reading'[u] = reading[u]
      /\ UNCHANGED <<app, phase, ownerships, backend, active, regs, initial, held>>
  BY ReadBase
<1>1. Frames' = Frames
  BY <1>0 DEF Frames
<1>2. \A u, v : Below(u, v)' <=> Below(u, v)
  BY <1>0 DEF Below, prio
<1>3. \A v : /\ FramesUnder(v)' = FramesUnder(v) /\ FramesBelow(v)' = FramesBelow(v)
             /\ \A j : FramesBefore(v, j)' = FramesBefore(v, j)
  BY <1>1, <1>2 DEF FramesUnder, FramesBelow, FramesBefore
<1>4. FramesUnder(t) = Frames
  BY <1>0, RunningIsHighest, FramesType DEF FramesUnder
<1>5. \A v \in Tasks : reading'[v] # NoFrame =>
        Fits(FramesUnder(v)', reading'[v][1].saved)
  BY <1>0, <1>3, <1>4 DEF MaskInv
<1>6. /\ Fits(Frames, regs)
      /\ \A v \in Tasks : \A j \in DOMAIN held[v] :
           Fits(FramesBefore(v, j), held[v][j].saved)
      /\ \A v \in active : LevelFits(FramesBelow(v), initial[v])
      /\ \A v \in active : \A p \in FramesBelow(v) :
           prio(v) > Ceiling(p[3]) \/ LoweredIn(FramesBelow(v))
  BY DEF MaskInv
<1> QED BY <1>0, <1>1, <1>3, <1>5, <1>6, MaskStep

\* The registers are written: the new frame is on top of all others.
LEMMA EnterMask ==
  ASSUME BaseInv, MaskInv, NEW t \in Tasks, EnterLock(t)
  PROVE  MaskInv'
<1> DEFINE f == reading[t][1]
           n == Len(held[t]) + 1
           q == <<t, n, f.res>>
<1>0. /\ phase = "run" /\ Running(t) /\ reading[t] # NoFrame
      /\ f \in Frame /\ f.res \in Uses(t) /\ f.res \in Resources
      /\ regs' = Raise(f.res)
      /\ DOMAIN held'[t] = DOMAIN held[t] \cup {n}
      /\ n \in Nat /\ n \notin DOMAIN held[t] /\ held'[t][n] = f
      /\ \A i \in DOMAIN held[t] : i \in Nat /\ i < n /\ held'[t][i] = held[t][i]
      /\ \A u \in Tasks \ {t} : held'[u] = held[u] /\ reading'[u] = reading[u]
      /\ reading'[t] = NoFrame
      /\ UNCHANGED <<app, phase, ownerships, backend, active, initial>>
  BY EnterBase
<1>s. Fits(FramesUnder(t), f.saved)
  BY <1>0 DEF MaskInv
<1>q. q[1] = t /\ q[2] = n /\ q[3] = f.res
  OBVIOUS
<1> HIDE DEF f, n
<1>1. Frames' = Frames \cup {q}
  <2>1. \A u \in Tasks \ {t} :
          {<<u, i, held'[u][i].res>> : i \in DOMAIN held'[u]} =
          {<<u, i, held[u][i].res>> : i \in DOMAIN held[u]}
    BY <1>0
  <2>2. {<<t, i, held'[t][i].res>> : i \in DOMAIN held'[t]} =
        {<<t, i, held[t][i].res>> : i \in DOMAIN held[t]} \cup {q}
    BY <1>0
  <2> QED BY <2>1, <2>2 DEF Frames
<1> HIDE DEF q
<1>2. \A u, v : Below(u, v)' <=> Below(u, v)
  BY <1>0 DEF Below, prio
<1>3. /\ t \in active
      /\ \A u \in active : u = t \/ Below(u, t)
      /\ \A v : ~Below(t, v)
  BY <1>0, RunningIsHighest
<1>4. \A v : FramesBelow(v)' = FramesBelow(v)
  BY <1>1, <1>2, <1>3, <1>q DEF FramesBelow
<1>5. \A v : v # t => FramesUnder(v)' = FramesUnder(v)
  BY <1>1, <1>2, <1>3, <1>q DEF FramesUnder
<1>6. \A v \in Tasks : \A j \in DOMAIN held[v] :
        FramesBefore(v, j)' = FramesBefore(v, j)
  <2> SUFFICES ASSUME NEW v \in Tasks, NEW j \in DOMAIN held[v]
               PROVE  FramesBefore(v, j)' = FramesBefore(v, j)
    OBVIOUS
  <2>1. v = t => ~(n < j)
    BY <1>0
  <2> QED BY <2>1, <1>1, <1>2, <1>3, <1>q DEF FramesBefore
<1>7. FramesUnder(t) = Frames
  BY <1>3, FramesType DEF FramesUnder
<1>8. \A j : j = n => FramesBefore(t, j)' = Frames
  <2>1. \A p \in Frames : p[1] = t => p[2] < n
    BY <1>0, FramesType
  <2>2. ~(n < n)
    BY <1>0
  <2>3. \A p \in Frames : (p[1] = t /\ p[2] < n) \/ Below(p[1], t)
    BY <2>1, <1>3, FramesType
  <2>4. FramesBefore(t, n) = Frames
    BY <2>3 DEF FramesBefore
  <2>5. ASSUME NEW j, j = n PROVE FramesBefore(t, j)' = FramesBefore(t, j)
    BY <2>2, <2>5, <1>1, <1>2, <1>3, <1>q DEF FramesBefore
  <2> QED BY <2>4, <2>5
\* A ceiling of a lower task is below the priority of t, or lowered before.
<1>9. ASSUME backend = "threshold", ~LoweredIn(Frames \cup {q}), NEW p \in Frames,
             Ceiling(p[3]) # Top
      PROVE  Ceiling(p[3]) <= Ceiling(q[3])
  <2>1. /\ p[1] \in active /\ p[2] \in DOMAIN held[p[1]]
        /\ Ceiling(p[3]) \in 0..Top /\ Ceiling(q[3]) \in 0..Top
        /\ prio(t) \in 0..Top /\ Top \in Nat
    BY FramesType, CeilingType, <1>0, <1>q DEF BaseInv
  <2>2. CASE p[1] = t
    <3>1. p[2] < q[2]
      BY <2>1, <2>2, <1>0, <1>q
    <3>2. ~(Ceiling(p[3]) > Ceiling(q[3]))
      BY <3>1, <2>2, <1>9, <1>q DEF LoweredIn
    <3> QED BY <3>2, <2>1
  <2>3. CASE p[1] # t
    <3>1. p \in FramesBelow(t)
      BY <2>1, <2>3, <1>3 DEF FramesBelow
    <3>2. ~LoweredIn(FramesBelow(t))
      BY <1>9 DEF LoweredIn, FramesBelow
    <3>3. prio(t) > Ceiling(p[3])
      BY <3>1, <3>2, <1>3 DEF MaskInv
    <3>4. prio(t) <= Ceiling(q[3])
      BY <1>0, <1>q, UserBelowCeiling DEF BaseInv
    <3> QED BY <3>3, <3>4, <2>1
  <2> QED BY <2>2, <2>3
<1>10. Fits(Frames', regs')
  <2>1. \A p \in Frames : Ceiling(p[3]) \in 0..Top
    BY FramesType
  <2>2. Fits(Frames, regs)
    BY DEF MaskInv
  <2>3. Fits(Frames \cup {q}, Raise(q[3]))
    BY <2>1, <2>2, <1>0, <1>9, <1>q, RaiseFits
  <2> QED BY <2>3, <1>0, <1>1, <1>q
<1>11. \A v \in Tasks : \A j \in DOMAIN held'[v] :
         Fits(FramesBefore(v, j)', held'[v][j].saved)
  <2> SUFFICES ASSUME NEW v \in Tasks, NEW j \in DOMAIN held'[v]
               PROVE  Fits(FramesBefore(v, j)', held'[v][j].saved)
    OBVIOUS
  <2>1. CASE v = t /\ j = n
    BY <2>1, <1>0, <1>7, <1>8, <1>s
  <2>2. CASE j \in DOMAIN held[v] /\ held'[v][j] = held[v][j]
    BY <2>2, <1>6 DEF MaskInv
  <2> QED BY <2>1, <2>2, <1>0
<1>12. \A v \in Tasks : reading'[v] # NoFrame =>
         Fits(FramesUnder(v)', reading'[v][1].saved)
  BY <1>0, <1>5 DEF MaskInv
<1>13. \A v \in active' : LevelFits(FramesBelow(v)', initial'[v])
  BY <1>0, <1>4 DEF MaskInv
<1>14. \A v \in active' : \A p \in FramesBelow(v)' :
         prio(v) > Ceiling(p[3]) \/ LoweredIn(FramesBelow(v)')
  BY <1>0, <1>4 DEF MaskInv
<1> QED BY <1>0, <1>10, <1>11, <1>12, <1>13, <1>14, MaskStep

\* The registers are written back: what was saved fits the frames that are left.
LEMMA ExitMask ==
  ASSUME BaseInv, MaskInv, NEW t \in Tasks, ExitLock(t)
  PROVE  MaskInv'
<1> DEFINE n == Len(held[t])
           f == held[t][n]
           q == <<t, n, f.res>>
<1>0. /\ phase = "run" /\ Running(t) /\ reading[t] = NoFrame
      /\ n \in DOMAIN held[t] /\ f \in Frame
      /\ regs' = Restore(f)
      /\ DOMAIN held'[t] = DOMAIN held[t] \ {n}
      /\ \A i \in DOMAIN held'[t] : i < n /\ held'[t][i] = held[t][i]
      /\ \A i \in DOMAIN held[t] : ~(n < i)
      /\ \A u \in Tasks \ {t} : held'[u] = held[u]
      /\ UNCHANGED <<app, phase, ownerships, backend, active, initial, reading>>
  BY ExitBase
<1>q. q[1] = t /\ q[2] = n /\ q[3] = f.res
  OBVIOUS
<1>s. Fits(FramesBefore(t, n), f.saved)
  BY <1>0 DEF MaskInv
<1>m. q \in Frames
  BY <1>0, FramesMember
<1> HIDE DEF n, f
<1>1. Frames' = Frames \ {q}
  <2>1. \A u \in Tasks \ {t} :
          {<<u, i, held'[u][i].res>> : i \in DOMAIN held'[u]} =
          {<<u, i, held[u][i].res>> : i \in DOMAIN held[u]}
    BY <1>0
  <2>2. {<<t, i, held'[t][i].res>> : i \in DOMAIN held'[t]} =
        {<<t, i, held[t][i].res>> : i \in DOMAIN held[t]} \ {q}
    BY <1>0 DEF f
  <2>3. \A u \in Tasks \ {t} : q \notin {<<u, i, held[u][i].res>> : i \in DOMAIN held[u]}
    OBVIOUS
  <2> QED BY <2>1, <2>2, <2>3 DEF Frames
<1> HIDE DEF q
<1>2. \A u, v : Below(u, v)' <=> Below(u, v)
  BY <1>0 DEF Below, prio
<1>3. /\ t \in active
      /\ \A u \in active : u = t \/ Below(u, t)
      /\ \A v : ~Below(t, v)
  BY <1>0, RunningIsHighest
<1>4. \A v : FramesBelow(v)' = FramesBelow(v)
  BY <1>1, <1>2, <1>3, <1>q DEF FramesBelow
<1>5. \A v : v # t => FramesUnder(v)' = FramesUnder(v)
  BY <1>1, <1>2, <1>3, <1>q DEF FramesUnder
<1>6. \A v \in Tasks : \A j \in DOMAIN held'[v] :
        /\ j \in DOMAIN held[v] /\ held'[v][j] = held[v][j]
        /\ FramesBefore(v, j)' = FramesBefore(v, j)
  <2> SUFFICES ASSUME NEW v \in Tasks, NEW j \in DOMAIN held'[v]
               PROVE  /\ j \in DOMAIN held[v] /\ held'[v][j] = held[v][j]
                      /\ FramesBefore(v, j)' = FramesBefore(v, j)
    OBVIOUS
  <2>1. j \in DOMAIN held[v] /\ held'[v][j] = held[v][j] /\ (v = t => ~(n < j))
    BY <1>0
  <2> QED BY <2>1, <1>1, <1>2, <1>3, <1>q DEF FramesBefore
<1>7. FramesBefore(t, n) = Frames'
  <2>1. \A p \in Frames' : (p[1] = t /\ p[2] < n) \/ Below(p[1], t)
    <3> SUFFICES ASSUME NEW p \in Frames'
                 PROVE  (p[1] = t /\ p[2] < n) \/ Below(p[1], t)
      OBVIOUS
    <3>1. p \in Frames /\ p[1] \in active
      BY <1>1, FramesType
    <3>2. p[2] \in DOMAIN held'[p[1]]
      BY <1>1 DEF Frames
    <3> QED BY <3>1, <3>2, <1>0, <1>3
  <2>2. q \notin FramesBefore(t, n)
    <3>1. ~(n < n)
      BY <1>0
    <3> QED BY <3>1, <1>3, <1>q DEF FramesBefore
  <2>3. \A p \in Frames : p \in FramesBefore(t, n) => p \in Frames'
    BY <2>2, <1>1
  <2>4. \A p \in Frames' : p \in FramesBefore(t, n)
    BY <2>1, <1>1 DEF FramesBefore
  <2> QED BY <2>3, <2>4 DEF FramesBefore
<1>8. Fits(Frames', regs')
  <2>1. Frames' \cup {q} = Frames
    BY <1>1, <1>m
  <2>2. \A p \in Frames' : Ceiling(p[3]) \in 0..Top
    BY <1>1, FramesType
  <2>3. Fits(Frames' \cup {q}, regs)
    BY <2>1 DEF MaskInv
  <2>4. Fits(Frames', Restore(f))
    BY <2>2, <2>3, <1>0, <1>7, <1>q, <1>s, RestoreFits
  <2> QED BY <2>4, <1>0
<1>9. \A v \in Tasks : \A j \in DOMAIN held'[v] :
        Fits(FramesBefore(v, j)', held'[v][j].saved)
  BY <1>6 DEF MaskInv
<1>10. \A v \in Tasks : reading'[v] # NoFrame =>
         Fits(FramesUnder(v)', reading'[v][1].saved)
  BY <1>0, <1>5 DEF MaskInv
<1>11. \A v \in active' : LevelFits(FramesBelow(v)', initial'[v])
  BY <1>0, <1>4 DEF MaskInv
<1>12. \A v \in active' : \A p \in FramesBelow(v)' :
         prio(v) > Ceiling(p[3]) \/ LoweredIn(FramesBelow(v)')
  BY <1>0, <1>4 DEF MaskInv
<1> QED BY <1>0, <1>8, <1>9, <1>10, <1>11, <1>12, MaskStep

-----------------------------------------------------------------------------
\* The registers fit the locks, with every backend.
THEOREM LocksInvariant == Spec => []LocksInv
<1>1. Init => LocksInv
  BY BaseInit, MaskInit DEF LocksInv
<1>2. LocksInv /\ [Next]_vars => LocksInv'
  <2> SUFFICES ASSUME LocksInv, [Next]_vars PROVE LocksInv'
    OBVIOUS
  <2> USE DEF LocksInv
  <2>1. CASE Analyse /\ UNCHANGED lockVars
    BY <2>1, AnalyseBase, AnalyseMask
  <2>2. ASSUME NEW t \in Tasks, TaskNext(t) PROVE LocksInv'
    <3>1. CASE Start(t)
      BY <3>1, StartBase, StartMask
    <3>2. CASE Finish(t)
      BY <3>2, FinishBase, FinishMask
    <3>3. ASSUME NEW r \in Resources, ReadRegisters(t, r) PROVE LocksInv'
      BY <3>3, ReadBase, ReadMask
    <3>4. CASE EnterLock(t)
      BY <3>4, EnterBase, EnterMask
    <3>5. CASE ExitLock(t)
      BY <3>5, ExitBase, ExitMask
    <3> QED BY <2>2, <3>1, <3>2, <3>3, <3>4, <3>5 DEF TaskNext
  <2>3. CASE UNCHANGED vars
    BY <2>3, StutterBase, SameMask
  <2> QED BY <2>1, <2>2, <2>3 DEF Next
<1> QED BY <1>1, <1>2, PTL DEF Spec

\* An interrupt is masked for the time of a lock only, with every backend:
\* what lock and run write back fits the locks that are left
\* (cortex_basepri.rs:43-68, cortex_source_mask.rs:66-110).
THEOREM MaskTheorem == Spec => []MaskIsHeld
<1>1. LocksInv => MaskIsHeld
  <2> SUFFICES ASSUME LocksInv, NEW t \in Interrupts, Masked(t)
               PROVE  \E u \in active : \E r \in HeldBy(u) : prio(t) <= Ceiling(r)
    BY DEF MaskIsHeld
  <2>1. PICK p \in Frames : prio(t) <= Ceiling(p[3])
    <3>1. CASE regs.primask
      <4>1. PICK p \in Frames : Ceiling(p[3]) = Top
        BY <3>1 DEF LocksInv, MaskInv, Fits
      <4>2. prio(t) <= Top
        BY CeilingType DEF LocksInv, BaseInv
      <4> QED BY <4>1, <4>2
    <3>2. CASE LevelMasked(regs, t)
      BY <3>2 DEF LocksInv, MaskInv, Fits, Wanted
    <3> QED BY <3>1, <3>2 DEF Masked
  <2>2. p[1] \in active /\ p[3] \in HeldBy(p[1])
    BY FramesType, FramesMember DEF LocksInv, HeldBy
  <2> QED BY <2>1, <2>2
<1> QED BY <1>1, LocksInvariant, PTL

\* A frame of u that t has found: t is above its ceiling, or a threshold is
\* lowered.
LEMMA AboveCeiling ==
  ASSUME LocksInv, ~Lowered, NEW u \in active, NEW t \in active, prio(u) < prio(t),
         NEW r \in HeldBy(u)
  PROVE  /\ prio(t) > Ceiling(r)
         /\ phase = "run" /\ r \in Resources
<1>1. PICK i \in DOMAIN held[u] : r = held[u][i].res
  BY DEF HeldBy
<1>2. u \in Tasks /\ <<u, i, r>> \in Frames
  BY <1>1, FramesMember DEF LocksInv, BaseInv, LocksTypeOK
<1>3. <<u, i, r>> \in FramesBelow(t)
  BY <1>2 DEF FramesBelow, Below
<1>4. ~LoweredIn(FramesBelow(t))
  <2> SUFFICES ASSUME backend = "threshold",
                      NEW p \in Frames, NEW q \in Frames, p[1] = q[1], p[2] < q[2],
                      Ceiling(p[3]) > Ceiling(q[3])
               PROVE  FALSE
    BY DEF LoweredIn, FramesBelow
  <2>1. /\ p[1] \in active /\ p[2] \in DOMAIN held[p[1]] /\ q[2] \in DOMAIN held[p[1]]
        /\ p[3] = held[p[1]][p[2]].res /\ q[3] = held[p[1]][q[2]].res
    BY FramesType, FramesMember DEF LocksInv
  <2> QED BY <2>1 DEF Lowered
<1>5. prio(t) > Ceiling(r)
  BY <1>3, <1>4 DEF LocksInv, MaskInv
<1> QED BY <1>1, <1>2, <1>5, FramesType, HoldersAreActive DEF LocksInv

\* A task that has begun finds none of its resources locked: the ceilings of
\* analyze.rs and the registers that lock writes fit together, as long as no
\* threshold is lowered by a nested lock.
THEOREM NoConflictTheorem == Spec => []NoConflict
<1>1. LocksInv => NoConflict
  <2> SUFFICES ASSUME LocksInv, ~Lowered, NEW u \in Tasks, NEW t \in Tasks, Below(u, t),
                      NEW r \in HeldBy(u), r \in Uses(t)
               PROVE  FALSE
    BY DEF NoConflict
  <2>1. prio(t) > Ceiling(r) /\ phase = "run" /\ r \in Resources
    BY AboveCeiling DEF Below
  <2>2. prio(t) <= Ceiling(r)
    BY <2>1, UserBelowCeiling DEF LocksInv, BaseInv
  <2>3. prio(t) \in Int /\ Ceiling(r) \in Int
    BY <2>1, CeilingType DEF LocksInv, BaseInv
  <2> QED BY <2>1, <2>2, <2>3
<1> QED BY <1>1, LocksInvariant, PTL

\* A task is held up by at most one lock-holder of a lower priority: of two,
\* the upper one would have begun below the ceiling of the lower one.
THEOREM SingleBlockingTheorem == Spec => []SingleBlocking
<1>1. LocksInv => SingleBlocking
  <2> SUFFICES ASSUME LocksInv, ~Lowered,
                      NEW t \in Interrupts, NEW u \in active, NEW v \in active,
                      NEW r \in HeldBy(u), NEW s \in HeldBy(v),
                      prio(u) < prio(t), prio(t) <= Ceiling(r),
                      prio(v) < prio(t), prio(t) <= Ceiling(s)
               PROVE  u = v
    BY DEF SingleBlocking
  <2>1. u \in Tasks /\ v \in Tasks /\ t \in Tasks
    BY DEF LocksInv, BaseInv, LocksTypeOK, Interrupts
  <2>2. prio(u) \in Int /\ prio(v) \in Int /\ prio(t) \in Int
    BY <2>1, CeilingType DEF LocksInv, BaseInv
  <2>3. ASSUME prio(u) < prio(v) PROVE FALSE
    <3>1. prio(v) > Ceiling(r) /\ r \in Resources
      BY <2>3, AboveCeiling
    <3>2. Ceiling(r) \in Int
      BY <3>1, CeilingType DEF LocksInv, BaseInv
    <3> QED BY <3>1, <3>2, <2>2
  <2>4. ASSUME prio(v) < prio(u) PROVE FALSE
    <3>1. prio(u) > Ceiling(s) /\ s \in Resources
      BY <2>4, AboveCeiling
    <3>2. Ceiling(s) \in Int
      BY <3>1, CeilingType DEF LocksInv, BaseInv
    <3> QED BY <3>1, <3>2, <2>2
  <2>5. prio(u) = prio(v)
    BY <2>2, <2>3, <2>4
  <2> QED BY <2>5 DEF LocksInv, BaseInv, QuietInv
<1> QED BY <1>1, LocksInvariant, PTL
=============================================================================
