------------------------------ MODULE Analysis ------------------------------
(***************************************************************************)
(* The analysis of an application by the macros                            *)
(* (src/rtic-macros/src/syntax/analyze.rs): which applications are         *)
(* accepted, who owns a resource, what the ceiling of a resource is, and   *)
(* which resource types have to be Sync.                                   *)
(*                                                                         *)
(* The application is any of Apps: the priority of each task and the       *)
(* resources it uses.  The pass over the accesses is the loop of the code, *)
(* one step for each access.                                               *)
(***************************************************************************)
EXTENDS Integers

CONSTANTS
  Idle,       \* the task idle, which has priority 0
  Hardware,   \* hardware tasks
  Software,   \* software tasks
  Position,   \* where a hardware or software task stands among its kind
  Resources,  \* the shared resources
  ReadOnly,   \* the resources whose accesses are all of the form &r
  LockFree,   \* the resources with the property lock_free
  Top,        \* the highest priority, 1 << NVIC_PRIO_BITS
  Apps        \* the applications: [prio, uses]

Tasks == {Idle} \cup Hardware \cup Software
Interrupts == Tasks \ {Idle}

ASSUME TasksAssumption ==
  /\ Idle \notin Hardware \cup Software
  /\ Hardware \cap Software = {}
  /\ Position \in [Interrupts -> Nat]
  /\ \A t, u \in Hardware : Position[t] = Position[u] => t = u
  /\ \A t, u \in Software : Position[t] = Position[u] => t = u
ASSUME ResourcesAssumption == ReadOnly \subseteq Resources /\ LockFree \subseteq Resources
ASSUME AppsAssumption ==
  /\ Top \in Nat
  /\ \A a \in Apps :
       /\ a.prio \in [Tasks -> 0..Top]
       /\ a.prio[Idle] = 0
       /\ \A t \in Interrupts : a.prio[t] > 0
       /\ a.uses \in [Tasks -> SUBSET Resources]

VARIABLES
  app,         \* the application
  phase,       \* "check", "ownership", "run", or "rejected"
  todo,        \* the accesses that the loop has not come to
  ownerships,  \* Analysis::ownerships
  sync_types   \* Analysis::sync_types, by resource

analysisVars == <<app, phase, todo, ownerships, sync_types>>

prio(t) == app.prio[t]
Uses(t) == app.uses[t]
Users(r) == {t \in Tasks : r \in Uses(t)}

\* An entry of ownerships: the variant and its priority or ceiling.
Ownership == [kind : {"none", "Owned", "CoOwned", "Contended"}, ceiling : 0..Top]
NoOwner == [kind |-> "none", ceiling |-> 0]
Owned(p) == [kind |-> "Owned", ceiling |-> p]
CoOwned(p) == [kind |-> "CoOwned", ceiling |-> p]
Contended(p) == [kind |-> "Contended", ceiling |-> p]

InitAnalysis ==
  /\ app \in Apps
  /\ phase = "check"
  /\ todo = {access \in Tasks \X Resources : access[2] \in app.uses[access[1]]}
  /\ ownerships = [r \in Resources |-> NoOwner]
  /\ sync_types = {}

-----------------------------------------------------------------------------
\* The order of task_resources_list: idle, software, hardware.
ListedBefore(t, u) ==
  \/ t = Idle /\ u # Idle
  \/ t \in Software /\ u \in Hardware
  \/ t # Idle /\ u # Idle /\ Position[t] < Position[u]
     /\ (t \in Software <=> u \in Software)

\* lf_hash has the user of r before u when the check comes to u.
Previous(t, u, r) ==
  /\ ListedBefore(t, u)
  /\ ~\E v \in Users(r) : ListedBefore(t, v) /\ ListedBefore(v, u)

LockFreeError ==
  \E r \in LockFree :
    \/ Users(r) \cap Software # {}
    \/ \E t, u \in Users(r) : Previous(t, u, r) /\ prio(t) # prio(u)

\* A bug: software tasks may use lock-free resources, and the priority is
\* compared with that of idle only.
CheckIdleOnly ==
  /\ phase = "check"
  /\ phase' = IF \E r \in LockFree : Idle \in Users(r) /\ Users(r) # {Idle}
              THEN "rejected" ELSE "ownership"
  /\ UNCHANGED <<app, todo, ownerships, sync_types>>

\* The check of lock-free resources, which rejects the application or not.
CheckLockFree ==
  /\ phase = "check"
  /\ phase' = IF LockFreeError THEN "rejected" ELSE "ownership"
  /\ UNCHANGED <<app, todo, ownerships, sync_types>>

\* The order of shared_resource_accesses: idle, hardware, software.
AccessedBefore(t, u) ==
  \/ t = Idle /\ u # Idle
  \/ t \in Hardware /\ u \in Software
  \/ t # Idle /\ u # Idle /\ Position[t] < Position[u]
     /\ (t \in Software <=> u \in Software)

\* A bug: the ceiling follows the last access instead of the largest.
OwnLast(r, p) ==
  LET own == ownerships[r] IN
  CASE own.kind = "none" -> Owned(p)
    [] own.kind # "none" /\ own.ceiling # p -> Contended(p)
    [] own.kind = "Owned" /\ own.ceiling = p -> CoOwned(p)
    [] OTHER -> own

\* The match on the ownership of r, for an access of priority p.
Own(r, p) ==
  LET own == ownerships[r] IN
  CASE own.kind = "none" -> Owned(p)
    [] own.kind # "none" /\ own.ceiling # p ->
         Contended(IF own.ceiling > p THEN own.ceiling ELSE p)
    [] own.kind = "Owned" /\ own.ceiling = p -> CoOwned(p)
    [] OTHER -> own

\* One round of the loop over shared_resource_accesses.
ProcessAccess(t, r) ==
  /\ phase = "ownership"
  /\ <<t, r>> \in todo
  /\ \A access \in todo : ~AccessedBefore(access[1], t)
  /\ todo' = todo \ {<<t, r>>}
  /\ ownerships' = [ownerships EXCEPT ![r] = Own(r, prio(t))]
  /\ sync_types' =
       IF /\ r \in ReadOnly
          /\ ownerships[r].kind # "none"
          /\ ownerships[r].ceiling # prio(t)
       THEN sync_types \cup {r} ELSE sync_types
  /\ UNCHANGED <<app, phase>>

\* The analysis is over; the program is generated and runs.
Accept ==
  /\ phase = "ownership"
  /\ todo = {}
  /\ phase' = "run"
  /\ UNCHANGED <<app, todo, ownerships, sync_types>>

Analyse ==
  \/ CheckLockFree
  \/ \E t \in Tasks, r \in Resources : ProcessAccess(t, r)
  \/ Accept

-----------------------------------------------------------------------------
\* Every variable has its type.
AnalysisTypeOK ==
  /\ app \in Apps
  /\ phase \in {"check", "ownership", "run", "rejected"}
  /\ todo \subseteq {access \in Tasks \X Resources : access[2] \in Uses(access[1])}
  /\ ownerships \in [Resources -> Ownership]
  /\ sync_types \subseteq Resources

\* t uses r and the loop has come to that access.
Processed(t, r) == r \in Uses(t) /\ <<t, r>> \notin todo

\* The ceiling of a resource is the largest priority of its users: none of
\* those the loop has come to is above it, and one of them has it.
CeilingIsMaximum ==
  \A r \in Resources :
    /\ \A t \in Tasks : Processed(t, r) =>
         ownerships[r].kind # "none" /\ prio(t) <= ownerships[r].ceiling
    /\ ownerships[r].kind # "none" =>
         \E t \in Tasks : Processed(t, r) /\ prio(t) = ownerships[r].ceiling

\* A resource that tasks of different priorities read without a lock has a
\* type that must be Sync, in whatever order the accesses come.
SharedIsSync ==
  \A r \in ReadOnly : \A t, u \in Tasks :
    Processed(t, r) /\ Processed(u, r) /\ prio(t) # prio(u) => r \in sync_types

\* What the analysis has found out of the accesses it has come to.
OwnershipInv ==
  /\ AnalysisTypeOK
  /\ phase \in {"ownership", "run"} => ~LockFreeError
  /\ phase = "run" => todo = {}
  /\ CeilingIsMaximum
  /\ SharedIsSync
=============================================================================
