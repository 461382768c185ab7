------------------------------ MODULE MCLocks -------------------------------
(* Two hardware tasks, a software task and idle; two resources with locks,  *)
(* one that is read without, and one that is lock-free.                     *)
EXTENDS Locks

CONSTANTS h1, h2, s1, idle, a, b, ro, lf

MCPosition == [t \in {h1, h2, s1} |-> IF t = h2 THEN 2 ELSE 1]

\* Priorities in rising, falling and mixed order, with equals, and with the
\* highest one, whose resources are locked by a critical section.
MCPriorities ==
  {[t \in {idle, h1, h2, s1} |->
      CASE t = idle -> 0 [] t = h1 -> p[1] [] t = h2 -> p[2] [] t = s1 -> p[3]] :
   p \in {<<1, 2, 3>>, <<3, 1, 2>>, <<2, 2, 4>>, <<4, 3, 1>>, <<1, 3, 3>>}}

\* Every use of the locked resources, and every use of the others.
MCUses ==
  [{idle, h1, h2, s1} -> SUBSET {a, b}] \cup [{idle, h1, h2, s1} -> SUBSET {ro, lf}]

MCApps == [prio : MCPriorities, uses : MCUses]
=============================================================================
