--------------------------- MODULE WaitUntilProofs ---------------------------
(***************************************************************************)
(* Proofs about the intrusive list of wakers and about wait_until, for any *)
(* number of waiters: the pointers represent the queue of the waiters in   *)
(* both directions and lead to pending futures only, the list is a FIFO,   *)
(* and no waiter falls out of it without a wake that was or will be.       *)
(*                                                                         *)
(* The positions of the queue tell what every pointer is: an operation     *)
(* moves the positions as its lemma in QueueLemmas says, and writes the    *)
(* pointers next to the place it changes.                                  *)
(***************************************************************************)
EXTENDS WaitUntil, QueueLemmas, FiniteSetTheorems

\* The links of the queue, by their positions.
LEMMA Places ==
  ASSUME QueueInv
  PROVE  /\ list \in Seq(Links) /\ DOMAIN list = 1..Len(list) /\ Len(list) \in Nat
         /\ \A i \in 1..Len(list) :
              /\ list[i] \in Links /\ list[i] # Null
              /\ next[list[i]] = IF i = Len(list) THEN Null ELSE list[i + 1]
              /\ prev[list[i]] = IF i = 1 THEN Null ELSE list[i - 1]
         /\ \A i, j \in 1..Len(list) : list[i] = list[j] => i = j
         /\ list = << >> <=> Len(list) = 0
<1>1. list \in Seq(Links)
  BY DEF QueueInv, TypeOK
<1>2. DOMAIN list = 1..Len(list) /\ Len(list) \in Nat /\ (list = << >> <=> Len(list) = 0)
  BY <1>1, LenProperties, EmptySeq
<1>3. \A i \in 1..Len(list) : list[i] \in Links /\ list[i] # Null
  BY <1>1, ElementOfSeq, NullAssumption
<1>4. \A i, j \in 1..Len(list) : list[i] = list[j] => i = j
  BY <1>2 DEF QueueInv, ListInv, IsInjective
<1> QED BY <1>1, <1>2, <1>3, <1>4, Zenon DEF QueueInv, ListInv

\* A link is in the queue exactly while it exists and is not popped.
LEMMA Membership ==
  ASSUME QueueInv, NEW l \in Links
  PROVE  live[l] /\ ~is_popped[l] <=> \E i \in 1..Len(list) : list[i] = l
<1>1. l \in Range(list) <=> live[l] /\ ~is_popped[l]
  BY DEF QueueInv, ListInv
<1> QED BY <1>1, Places, Zenon DEF Range

\* The list begins empty.
LEMMA InitQueueInv == InitQueue => QueueInv
<1> SUFFICES ASSUME InitQueue PROVE QueueInv
  OBVIOUS
<1>1. list = << >> /\ list \in Seq(Links)
  BY EmptySeq DEF InitQueue
<1>2. Range(<< >>) = {} /\ IsInjective(<< >>) /\ DOMAIN << >> = {}
  BY DEF Range, IsInjective
<1>3. TypeOK
  BY <1>1 DEF InitQueue, TypeOK
<1>4. ListInv
  BY <1>1, <1>2 DEF InitQueue, ListInv
<1> QED BY <1>3, <1>4 DEF QueueInv

-----------------------------------------------------------------------------
\* The pointers represent the new queue, by its positions.
LEMMA Represent ==
  ASSUME TypeOK', IsInjective(list'),
         \A l \in Links : l \in Range(list') <=> live'[l] /\ ~is_popped'[l],
         head' = IF Len(list') = 0 THEN Null ELSE list'[1],
         tail' = IF Len(list') = 0 THEN Null ELSE list'[Len(list')],
         \A i \in 1..Len(list') :
           /\ next'[list'[i]] = IF i = Len(list') THEN Null ELSE list'[i + 1]
           /\ prev'[list'[i]] = IF i = 1 THEN Null ELSE list'[i - 1]
  PROVE  QueueInv'
<1>1. list' \in Seq(Links)
  BY DEF TypeOK
<1>2. DOMAIN list' = 1..Len(list') /\ (list' = << >> <=> Len(list') = 0)
  BY <1>1, LenProperties, EmptySeq
<1> QED BY <1>2, Zenon DEF QueueInv, ListInv

\* A new link goes to the end of the queue, behind the one that tail points to.
LEMMA PushKeeps == ASSUME QueueInv, NEW l \in Links, Push(l) PROVE QueueInv'
<1> DEFINE n == Len(list)
<1>1. /\ list \in Seq(Links) /\ n \in Nat
      /\ \A i \in 1..n : /\ list[i] \in Links /\ list[i] # Null
                         /\ next[list[i]] = IF i = n THEN Null ELSE list[i + 1]
                         /\ prev[list[i]] = IF i = 1 THEN Null ELSE list[i - 1]
      /\ \A i, j \in 1..n : list[i] = list[j] => i = j
      /\ list = << >> <=> n = 0
  BY Places, Zenon
<1>2. TypeOK /\ IsInjective(list) /\ \A k \in Links : k \in Range(list) <=> live[k] /\ ~is_popped[k]
  BY DEF QueueInv, ListInv
<1>3. l \notin Range(list) /\ \A i \in 1..n : list[i] # l
  BY <1>2, Membership DEF Push
<1>4. list' = Append(list, l)
  BY DEF Push
<1>5. list' \in Seq(Links) /\ IsInjective(list') /\ Range(list') = Range(list) \cup {l}
  BY <1>1, <1>2, <1>3, <1>4, AppendElement
<1>6. /\ Len(list') = n + 1 /\ list'[n + 1] = l
      /\ \A i \in 1..n : list'[i] = list[i]
  BY <1>1, <1>4, AppendProperties
<1>7. /\ live' = [live EXCEPT ![l] = TRUE]
      /\ is_popped' = [is_popped EXCEPT ![l] = FALSE]
      /\ tail' = l
  BY DEF Push
<1>8. \A k \in Links : k \in Range(list') <=> live'[k] /\ ~is_popped'[k]
  BY <1>2, <1>5, <1>7 DEF TypeOK
<1>9. CASE n = 0
  <2>1. head' = l /\ next' = [next EXCEPT ![l] = Null] /\ prev' = [prev EXCEPT ![l] = Null]
    BY <1>9, <1>1 DEF Push, QueueInv, ListInv
  <2>2. TypeOK'
    BY <1>2, <1>5, <1>7, <2>1 DEF TypeOK
  <2>3. \A i \in 1..Len(list') : i = 1 /\ list'[i] = l
    BY <1>6, <1>9
  <2>4. next'[l] = Null /\ prev'[l] = Null
    BY <1>2, <2>1 DEF TypeOK
  <2> QED BY <1>5, <1>6, <1>7, <1>8, <1>9, <2>1, <2>2, <2>3, <2>4, Represent
<1>10. CASE n # 0
  <2>1. tail = list[n] /\ tail # Null /\ tail \in Links /\ tail # l /\ head = list[1]
    BY <1>1, <1>3, <1>10 DEF QueueInv, ListInv
  <2>2. /\ head' = head
        /\ prev' = [prev EXCEPT ![l] = tail]
        /\ next' = [next EXCEPT ![l] = Null, ![tail] = l]
    BY <2>1 DEF Push
  <2>3. TypeOK'
    BY <1>2, <1>5, <1>7, <2>1, <2>2 DEF TypeOK
  <2>4. /\ next'[l] = Null /\ prev'[l] = tail /\ next'[tail] = l
        /\ \A k \in Links : k # l => prev'[k] = prev[k]
        /\ \A k \in Links : k # l /\ k # tail => next'[k] = next[k]
    BY <1>2, <2>1, <2>2 DEF TypeOK
  <2>5. ASSUME NEW i \in 1..Len(list')
        PROVE  /\ next'[list'[i]] = IF i = Len(list') THEN Null ELSE list'[i + 1]
               /\ prev'[list'[i]] = IF i = 1 THEN Null ELSE list'[i - 1]
    <3>1. CASE i = n + 1
      BY <1>1, <1>6, <1>10, <2>1, <2>4, <3>1
    <3>2. CASE i \in 1..n
      <4>1. list'[i] = list[i] /\ list[i] \in Links /\ list[i] # l /\ (list[i] = tail <=> i = n)
        BY <1>1, <1>3, <1>6, <2>1, <3>2
      <4>2. next'[list[i]] = IF i = n THEN l ELSE next[list[i]]
        BY <2>4, <4>1
      <4>3. next'[list[i]] = list'[i + 1]
        BY <1>1, <1>6, <3>2, <4>2
      <4>4. prev'[list[i]] = IF i = 1 THEN Null ELSE list'[i - 1]
        BY <1>1, <1>6, <2>4, <3>2, <4>1
      <4> QED BY <1>1, <1>6, <3>2, <4>1, <4>3, <4>4
    <3> QED BY <1>1, <1>6, <3>1, <3>2
  <2>6. head' = list'[1] /\ tail' = list'[Len(list')] /\ Len(list') # 0
    BY <1>1, <1>6, <1>7, <1>10, <2>1, <2>2
  <2> QED BY <1>5, <1>8, <2>3, <2>5, <2>6, Represent
<1> QED BY <1>9, <1>10

\* The first link leaves the queue, the second one becomes the first.
LEMMA PopKeeps ==
  ASSUME QueueInv, Pop
  PROVE  /\ QueueInv' /\ list # << >> /\ head = Head(list) /\ head \in Links
         /\ next'[head] = Null /\ prev'[head] = Null
<1> DEFINE n == Len(list)
<1>1. /\ list \in Seq(Links) /\ n \in Nat
      /\ \A i \in 1..n : /\ list[i] \in Links /\ list[i] # Null
                         /\ next[list[i]] = IF i = n THEN Null ELSE list[i + 1]
                         /\ prev[list[i]] = IF i = 1 THEN Null ELSE list[i - 1]
      /\ \A i, j \in 1..n : list[i] = list[j] => i = j
      /\ list = << >> <=> n = 0
  BY Places, Zenon
<1>2. TypeOK /\ IsInjective(list) /\ \A k \in Links : k \in Range(list) <=> live[k] /\ ~is_popped[k]
  BY DEF QueueInv, ListInv
<1>3. n # 0 /\ head = list[1] /\ tail = list[n] /\ list # << >>
  BY <1>1 DEF Pop, QueueInv, ListInv
<1>4. head = Head(list) /\ head \in Links /\ (head = tail <=> n = 1)
  <2>1. 1 \in 1..n /\ n \in 1..n
    BY <1>1, <1>3
  <2>2. list[1] \in Links /\ (list[1] = list[n] <=> n = 1)
    BY <1>1, <2>1
  <2>3. Head(list) = list[1]
    BY <1>1, <1>3, HeadTailProperties
  <2> QED BY <1>3, <2>2, <2>3
<1>5. /\ list' = Tail(list) /\ live' = live
      /\ head' = next[head]
      /\ tail' = IF head = tail THEN Null ELSE tail
      /\ next' = [next EXCEPT ![head] = Null]
      /\ prev' = [l \in Links |-> IF l \in {head, next[head]} THEN Null ELSE prev[l]]
      /\ is_popped' = [is_popped EXCEPT ![head] = TRUE]
  BY DEF Pop
<1>6. list' \in Seq(Links) /\ IsInjective(list') /\ Range(list') = Range(list) \ {head}
  BY <1>1, <1>2, <1>3, <1>4, <1>5, TailElements
<1>7. /\ Len(list') = n - 1
      /\ \A i \in 1..(n - 1) : list'[i] = list[i + 1]
  BY <1>1, <1>3, <1>5, HeadTailProperties
<1>8. next[head] = IF n = 1 THEN Null ELSE list[2]
  <2>1. 1 \in 1..n
    BY <1>1, <1>3
  <2>2. next[list[1]] = IF 1 = n THEN Null ELSE list[1 + 1]
    BY <1>1, <2>1
  <2> QED BY <1>3, <2>2
<1>9. TypeOK'
  BY <1>2, <1>4, <1>5, <1>6 DEF TypeOK
<1>10. \A k \in Links : k \in Range(list') <=> live'[k] /\ ~is_popped'[k]
  BY <1>2, <1>4, <1>5, <1>6 DEF TypeOK
<1>11. /\ head' = IF Len(list') = 0 THEN Null ELSE list'[1]
       /\ tail' = IF Len(list') = 0 THEN Null ELSE list'[Len(list')]
  <2>1. CASE n = 1
    BY <1>4, <1>5, <1>7, <1>8, <2>1
  <2>2. CASE n # 1
    <3>1. /\ Len(list') # 0 /\ 1 \in 1..(n - 1) /\ n - 1 \in 1..(n - 1)
          /\ Len(list') = n - 1
      BY <1>1, <1>3, <1>7, <2>2
    <3>2. list'[1] = list[2] /\ list'[n - 1] = list[n]
      BY <1>1, <1>7, <3>1
    <3> QED BY <1>3, <1>4, <1>5, <1>8, <2>2, <3>1, <3>2
  <2> QED BY <2>1, <2>2
<1>12. ASSUME NEW i \in 1..Len(list')
       PROVE  /\ next'[list'[i]] = IF i = Len(list') THEN Null ELSE list'[i + 1]
              /\ prev'[list'[i]] = IF i = 1 THEN Null ELSE list'[i - 1]
  <2>1. i \in 1..(n - 1) /\ i + 1 \in 1..n /\ i \in 1..n /\ list'[i] = list[i + 1]
    BY <1>1, <1>7
  <2>2. list[i + 1] \in Links /\ list[i + 1] # head /\ (list[i + 1] = next[head] <=> i = 1)
    BY <1>1, <1>3, <1>8, <2>1
  <2>3. /\ next'[list[i + 1]] = next[list[i + 1]]
        /\ prev'[list[i + 1]] = IF i = 1 THEN Null ELSE prev[list[i + 1]]
    BY <1>2, <1>4, <1>5, <2>2 DEF TypeOK
  <2>4. next[list[i + 1]] = IF i = n - 1 THEN Null ELSE list'[i + 1]
    BY <1>1, <1>7, <2>1
  <2>5. i # 1 => prev[list[i + 1]] = list'[i - 1]
    BY <1>1, <1>7, <2>1
  <2> QED BY <1>7, <2>1, <2>3, <2>4, <2>5
<1>13. next'[head] = Null /\ prev'[head] = Null
  BY <1>2, <1>4, <1>5 DEF TypeOK
<1> QED BY <1>3, <1>4, <1>6, <1>9, <1>10, <1>11, <1>12, <1>13, Represent

\* A link that leaves from anywhere connects its neighbours; at an end of the
\* queue head or tail takes the part of the missing one.
LEMMA UnlinkPointers ==
  ASSUME QueueInv, NEW l \in Links, live[l], ~is_popped[l],
         UnlinkAlone(l) \/ UnlinkFirst(l) \/ UnlinkLast(l) \/ UnlinkInside(l)
  PROVE  /\ next' = IF prev[l] = Null THEN next ELSE [next EXCEPT ![prev[l]] = next[l]]
         /\ prev' = IF next[l] = Null THEN prev ELSE [prev EXCEPT ![next[l]] = prev[l]]
         /\ head' = IF prev[l] = Null THEN next[l] ELSE head
         /\ tail' = IF next[l] = Null THEN prev[l] ELSE tail
<1>1. PICK k \in 1..Len(list) : list[k] = l
  BY Membership
<1>2. /\ Len(list) \in Nat
      /\ \A i \in 1..Len(list) :
           /\ list[i] # Null
           /\ next[list[i]] = IF i = Len(list) THEN Null ELSE list[i + 1]
           /\ prev[list[i]] = IF i = 1 THEN Null ELSE list[i - 1]
  BY Places, Zenon
<1>3. next[l] = IF k = Len(list) THEN Null ELSE list[k + 1]
  BY <1>1, <1>2
<1>4. prev[l] = IF k = 1 THEN Null ELSE list[k - 1]
  BY <1>1, <1>2
<1>5. prev[l] = Null => k = 1
  BY <1>1, <1>2, <1>4
<1>6. list # << >> /\ head = list[1]
  <2>1. list # << >>
    <3>1. Len(list) # 0
      BY <1>1, <1>2
    <3> QED BY <3>1, Places, Zenon
  <2> QED BY <2>1 DEF QueueInv, ListInv
<1>7. prev[l] = Null => l = head
  BY <1>1, <1>5, <1>6
<1>8. CASE UnlinkAlone(l)
  BY <1>7, <1>8 DEF UnlinkAlone
<1>9. CASE UnlinkFirst(l)
  BY <1>9 DEF UnlinkFirst
<1>10. CASE UnlinkLast(l)
  BY <1>10 DEF UnlinkLast
<1>11. CASE UnlinkInside(l)
  BY <1>11 DEF UnlinkInside
<1> QED BY <1>8, <1>9, <1>10, <1>11

LEMMA UnlinkKeeps ==
  ASSUME QueueInv, NEW l \in Links, RemoveFromList(l), ~is_popped[l]
  PROVE  /\ QueueInv'
         /\ \A m \in Links : is_popped[m] => next'[m] = next[m] /\ prev'[m] = prev[m]
         /\ \E i \in DOMAIN list : list[i] = l /\ list' = RemoveAt(list, i)
<1> DEFINE n == Len(list)
<1>1. /\ list \in Seq(Links) /\ n \in Nat /\ DOMAIN list = 1..n
      /\ \A i \in 1..n : /\ list[i] \in Links /\ list[i] # Null
                         /\ next[list[i]] = IF i = n THEN Null ELSE list[i + 1]
                         /\ prev[list[i]] = IF i = 1 THEN Null ELSE list[i - 1]
      /\ \A i, j \in 1..n : list[i] = list[j] => i = j
      /\ list = << >> <=> n = 0
  BY Places, Zenon
<1>2. TypeOK /\ IsInjective(list) /\ \A m \in Links : m \in Range(list) <=> live[m] /\ ~is_popped[m]
  BY DEF QueueInv, ListInv
<1>3. PICK k \in 1..n : list[k] = l /\ list' = RemoveAt(list, k)
  BY <1>1, Zenon DEF RemoveFromList
<1>k. /\ n \in Nat /\ k \in 1..n /\ list[k] = l
      /\ k # 1 => k - 1 \in 1..n
      /\ k # n => k + 1 \in 1..n
  <2>1. n \in Nat /\ k \in 1..n
    BY <1>1, <1>3, Zenon
  <2> HIDE DEF n
  <2> QED BY <2>1, <1>3
<1> HIDE DEF n
<1>4. /\ live' = [live EXCEPT ![l] = FALSE]
      /\ is_popped' = [is_popped EXCEPT ![l] = TRUE]
      /\ live[l]
      /\ UnlinkAlone(l) \/ UnlinkFirst(l) \/ UnlinkLast(l) \/ UnlinkInside(l)
  BY DEF RemoveFromList
<1> DEFINE p == prev[l]
           s == next[l]
<1>5. /\ p = IF k = 1 THEN Null ELSE list[k - 1]
      /\ s = IF k = n THEN Null ELSE list[k + 1]
      /\ p = Null <=> k = 1
      /\ s = Null <=> k = n
      /\ p # Null => p \in Links
      /\ s # Null => s \in Links
  <2>1. /\ p = IF k = 1 THEN Null ELSE list[k - 1]
        /\ s = IF k = n THEN Null ELSE list[k + 1]
    BY <1>1, <1>3
  <2>2. k # 1 => list[k - 1] \in Links /\ list[k - 1] # Null
    BY <1>1, <1>k
  <2>3. k # n => list[k + 1] \in Links /\ list[k + 1] # Null
    BY <1>1, <1>k
  <2> QED BY <2>1, <2>2, <2>3
<1>6. /\ next' = IF p = Null THEN next ELSE [next EXCEPT ![p] = s]
      /\ prev' = IF s = Null THEN prev ELSE [prev EXCEPT ![s] = p]
      /\ head' = IF p = Null THEN s ELSE head
      /\ tail' = IF s = Null THEN p ELSE tail
  BY <1>4, UnlinkPointers
<1> HIDE DEF p, s
<1>7. list' \in Seq(Links) /\ IsInjective(list') /\ Range(list') = Range(list) \ {l}
  <2>1. k \in DOMAIN list /\ list \in Seq(Links) /\ IsInjective(list)
    BY <1>1, <1>2, <1>k
  <2> QED BY <2>1, <1>3, <1>k, RemoveAtElements
<1>8. /\ Len(list') = n - 1
      /\ \A j \in 1..(n - 1) : list'[j] = IF j < k THEN list[j] ELSE list[j + 1]
  <2>1. k \in DOMAIN list /\ list \in Seq(Links) /\ IsInjective(list)
    BY <1>1, <1>2, <1>k
  <2> QED BY <2>1, <1>3, RemoveAtPlaces DEF n
<1>9. TypeOK'
  <2>1. head' \in Links \cup {Null} /\ tail' \in Links \cup {Null}
    BY <1>2, <1>5, <1>6 DEF TypeOK
  <2>2. next' \in [Links -> Links \cup {Null}] /\ prev' \in [Links -> Links \cup {Null}]
    BY <1>2, <1>5, <1>6 DEF TypeOK
  <2> QED BY <1>2, <1>4, <1>7, <2>1, <2>2 DEF TypeOK
<1>10. \A m \in Links : m \in Range(list') <=> live'[m] /\ ~is_popped'[m]
  BY <1>2, <1>4, <1>7 DEF TypeOK
<1>11. /\ head' = IF Len(list') = 0 THEN Null ELSE list'[1]
       /\ tail' = IF Len(list') = 0 THEN Null ELSE list'[Len(list')]
  <2>1. n # 0 /\ head = list[1] /\ tail = list[n]
    <3>1. list # << >>
      BY <1>1, <1>k
    <3> QED BY <1>k, <3>1 DEF QueueInv, ListInv, n
  <2>2. CASE n = 1
    BY <1>5, <1>6, <1>8, <2>2
  <2>3. CASE n # 1
    <3>1. 1 \in 1..(n - 1) /\ n - 1 \in 1..(n - 1) /\ Len(list') # 0
      BY <1>8, <1>k, <2>1, <2>3
    <3>2. list'[1] = IF k = 1 THEN list[2] ELSE list[1]
      BY <1>8, <1>k, <3>1
    <3>3. list'[n - 1] = IF k = n THEN list[n - 1] ELSE list[n]
      BY <1>8, <1>k, <3>1
    <3> QED BY <1>5, <1>6, <1>8, <1>k, <2>1, <2>3, <3>1, <3>2, <3>3
  <2> QED BY <2>2, <2>3
<1>12. \A m \in Links : /\ next'[m] = IF m = p THEN s ELSE next[m]
                        /\ prev'[m] = IF m = s THEN p ELSE prev[m]
  BY <1>2, <1>5, <1>6, NullAssumption DEF TypeOK
<1>13. ASSUME NEW j \in 1..Len(list')
       PROVE  /\ next'[list'[j]] = IF j = Len(list') THEN Null ELSE list'[j + 1]
              /\ prev'[list'[j]] = IF j = 1 THEN Null ELSE list'[j - 1]
  <2>1. j \in 1..(n - 1) /\ j \in 1..n /\ j + 1 \in 1..n
    BY <1>8, <1>k
  <2>2. CASE j < k
    <3>1. list'[j] = list[j] /\ list[j] \in Links
      BY <1>1, <1>8, <1>k, <2>1, <2>2
    <3>2. list[j] = p <=> j = k - 1
      BY <1>1, <1>5, <1>k, <2>1, <2>2
    <3>3. list[j] # s
      BY <1>1, <1>5, <1>k, <2>1, <2>2
    <3>4. next'[list[j]] = (IF j = k - 1 THEN s ELSE next[list[j]]) /\ prev'[list[j]] = prev[list[j]]
      BY <1>12, <3>1, <3>2, <3>3
    <3>5. next'[list[j]] = IF j = n - 1 THEN Null ELSE list'[j + 1]
      <4>1. CASE j = k - 1
        BY <1>5, <1>8, <1>k, <2>1, <3>4, <4>1
      <4>2. CASE j # k - 1
        <5>1. next[list[j]] = list[j + 1] /\ j + 1 \in 1..(n - 1) /\ j + 1 < k
          BY <1>1, <1>k, <2>1, <2>2, <4>2
        <5> QED BY <1>8, <3>4, <4>2, <5>1
      <4> QED BY <4>1, <4>2
    <3>6. prev'[list[j]] = IF j = 1 THEN Null ELSE list'[j - 1]
      <4>1. prev[list[j]] = IF j = 1 THEN Null ELSE list[j - 1]
        BY <1>1, <2>1
      <4>2. j # 1 => list'[j - 1] = list[j - 1]
        BY <1>8, <1>k, <2>1, <2>2
      <4> QED BY <3>4, <4>1, <4>2
    <3> QED BY <1>8, <3>1, <3>5, <3>6
  <2>3. CASE j >= k
    <3>1. list'[j] = list[j + 1] /\ list[j + 1] \in Links
      <4>1. list'[j] = list[j + 1]
        BY <1>8, <1>k, <2>1, <2>3
      <4>2. list[j + 1] \in Links
        BY <1>1, <2>1
      <4> QED BY <4>1, <4>2
    <3>2. list[j + 1] # p
      BY <1>1, <1>5, <1>k, <2>1, <2>3
    <3>3. list[j + 1] = s <=> j = k
      BY <1>1, <1>5, <1>k, <2>1, <2>3
    <3>4. /\ next'[list[j + 1]] = next[list[j + 1]]
          /\ prev'[list[j + 1]] = IF j = k THEN p ELSE prev[list[j + 1]]
      BY <1>12, <3>1, <3>2, <3>3
    <3>5. next'[list[j + 1]] = IF j = n - 1 THEN Null ELSE list'[j + 1]
      <4>1. next[list[j + 1]] = IF j + 1 = n THEN Null ELSE list[(j + 1) + 1]
        BY <1>1, <2>1
      <4>2. j # n - 1 => list'[j + 1] = list[(j + 1) + 1]
        BY <1>8, <1>k, <2>1, <2>3
      <4> QED BY <1>k, <2>1, <3>4, <4>1, <4>2
    <3>6. prev'[list[j + 1]] = IF j = 1 THEN Null ELSE list'[j - 1]
      <4>1. CASE j = k
        BY <1>5, <1>8, <1>k, <2>1, <3>4, <4>1
      <4>2. CASE j # k
        <5>1. prev[list[j + 1]] = list[j] /\ j # 1 /\ j - 1 \in 1..(n - 1) /\ j - 1 >= k
          BY <1>1, <1>k, <2>1, <2>3, <4>2
        <5>2. list'[j - 1] = list[j]
          BY <1>8, <1>k, <2>1, <5>1
        <5> QED BY <3>4, <4>2, <5>1, <5>2
      <4> QED BY <4>1, <4>2
    <3> QED BY <1>8, <3>1, <3>5, <3>6
  <2> QED BY <1>k, <2>1, <2>2, <2>3
<1>14. QueueInv'
  BY <1>7, <1>9, <1>10, <1>11, <1>13, Represent
<1>15. ASSUME NEW m \in Links, is_popped[m] PROVE next'[m] = next[m] /\ prev'[m] = prev[m]
  <2>1. \A i \in 1..n : list[i] # m
    BY <1>15, Membership DEF n
  <2>2. m # p /\ m # s
    BY <1>5, <1>k, <2>1, NullAssumption
  <2> QED BY <1>12, <2>2
<1> QED BY <1>1, <1>3, <1>14, <1>15

\* The positions of the first and of the last link.
LEMMA Ends ==
  ASSUME QueueInv
  PROVE  /\ head = Null <=> list = << >>
         /\ head # Null => head \in Links /\ live[head] /\ ~is_popped[head]
         /\ tail # Null => tail \in Links /\ live[tail] /\ ~is_popped[tail]
<1>1. /\ list \in Seq(Links) /\ Len(list) \in Nat
      /\ \A i \in 1..Len(list) : list[i] \in Links /\ list[i] # Null
      /\ list = << >> <=> Len(list) = 0
  BY Places, Zenon
<1>2. CASE list = << >>
  BY <1>2 DEF QueueInv, ListInv
<1>3. CASE list # << >>
  <2>1. 1 \in 1..Len(list) /\ Len(list) \in 1..Len(list)
    BY <1>1, <1>3
  <2>2. head = list[1] /\ tail = list[Len(list)]
    BY <1>3 DEF QueueInv, ListInv
  <2>3. head \in Links /\ tail \in Links /\ head # Null
    BY <1>1, <2>1, <2>2
  <2> QED BY <1>3, <2>1, <2>2, <2>3, Membership
<1> QED BY <1>2, <1>3

\* A link that points nowhere.
Loose(l) == next[l] = Null /\ prev[l] = Null

\* What an operation does to the links that it is not about: they stay in or
\* out of the queue, and those outside stay loose.
Apart(l) ==
  /\ live'[l] = live[l] /\ is_popped'[l] = is_popped[l]
  /\ is_popped[l] /\ Loose(l) => Loose(l)'

LEMMA PushApart ==
  ASSUME QueueInv, NEW l \in Links, Push(l)
  PROVE  live'[l] /\ ~is_popped'[l] /\ \A m \in Links \ {l} : Apart(m)
<1>1. TypeOK
  BY DEF QueueInv
<1>2. live'[l] /\ ~is_popped'[l]
  BY <1>1 DEF Push, TypeOK
<1>3. ASSUME NEW m \in Links \ {l} PROVE Apart(m)
  <2>1. live'[m] = live[m] /\ is_popped'[m] = is_popped[m] /\ m # l /\ m \in Links
    BY <1>1, <1>3 DEF Push, TypeOK
  <2>2. prev'[m] = prev[m]
    BY <1>1, <2>1 DEF Push, TypeOK
  <2>3. is_popped[m] => m # tail
    BY <2>1, Ends, NullAssumption
  <2>4. is_popped[m] => next'[m] = next[m]
    BY <1>1, <2>1, <2>3 DEF Push, TypeOK
  <2> QED BY <2>1, <2>2, <2>4 DEF Apart, Loose
<1> QED BY <1>2, <1>3

LEMMA PopApart ==
  ASSUME QueueInv, Pop
  PROVE  \E h \in Links :
           /\ h = head /\ live[h] /\ ~is_popped[h]
           /\ live'[h] /\ is_popped'[h] /\ Loose(h)'
           /\ \A m \in Links \ {h} : Apart(m)
<1>1. TypeOK
  BY DEF QueueInv
<1>2. PICK h \in Links : h = head /\ live[h] /\ ~is_popped[h]
  BY Ends DEF Pop
<1>3. live'[h] /\ is_popped'[h] /\ Loose(h)'
  BY <1>1, <1>2 DEF Pop, TypeOK, Loose
<1>4. ASSUME NEW m \in Links \ {h} PROVE Apart(m)
  BY <1>1, <1>2, <1>4 DEF Pop, TypeOK, Apart, Loose
<1> QED BY <1>2, <1>3, <1>4

LEMMA RemoveKeeps ==
  ASSUME QueueInv, NEW l \in Links, RemoveFromList(l)
  PROVE  QueueInv' /\ ~live'[l] /\ \A m \in Links \ {l} : Apart(m)
<1>1. /\ TypeOK /\ ListInv
      /\ live' = [live EXCEPT ![l] = FALSE]
  BY DEF QueueInv, RemoveFromList
<1>2. CASE is_popped[l]
  <2>1. UNCHANGED <<head, tail, next, prev, is_popped, list>>
    BY <1>2 DEF RemoveFromList
  <2>2. TypeOK' /\ ~live'[l]
    BY <1>1, <2>1 DEF TypeOK
  <2>3. \A m \in Links : m \in Range(list) <=> live'[m] /\ ~is_popped[m]
    BY <1>1, <1>2 DEF TypeOK, ListInv
  <2>4. ListInv'
    BY <1>1, <2>1, <2>3 DEF ListInv
  <2>5. \A m \in Links \ {l} : Apart(m)
    BY <1>1, <2>1 DEF Apart, Loose, TypeOK
  <2> QED BY <2>2, <2>4, <2>5 DEF QueueInv
<1>3. CASE ~is_popped[l]
  <2>1. QueueInv' /\ \A m \in Links : is_popped[m] => next'[m] = next[m] /\ prev'[m] = prev[m]
    BY <1>3, UnlinkKeeps
  <2>2. is_popped' = [is_popped EXCEPT ![l] = TRUE]
    BY <1>3 DEF RemoveFromList
  <2>3. \A m \in Links \ {l} : Apart(m)
    BY <1>1, <2>1, <2>2 DEF Apart, Loose, TypeOK
  <2> QED BY <1>1, <2>1, <2>3 DEF TypeOK
<1> QED BY <1>2, <1>3

\* The invariant of the list alone, whoever uses it.
THEOREM QueueInvariance == Spec => []QueueInv
<1>1. QueueInv /\ [Next]_queueVars => QueueInv'
  <2> SUFFICES ASSUME QueueInv, [Next]_queueVars PROVE QueueInv'
    OBVIOUS
  <2>1. CASE UNCHANGED queueVars
    BY <2>1 DEF queueVars, QueueInv, TypeOK, ListInv
  <2> QED BY <2>1, PushKeeps, PopKeeps, RemoveKeeps DEF Next
<1> QED BY <1>1, InitQueueInv, PTL DEF Spec

-----------------------------------------------------------------------------
(***************************************************************************)
(* The futures of wait_until.                                              *)
(***************************************************************************)

\* What GuardInv says of one link.
Guarded(l) ==
  /\ live[l] => pc[l] = "waiting"
  /\ live[l] /\ is_popped[l] => Loose(l)
  /\ pc[l] = "waiting" /\ ~(live[l] /\ ~is_popped[l]) => woken[l] \/ waking = l

\* The notifier has a waker in its hands between a pop and the wake.
HandInv == notifier = "waking" <=> waking # Null

LEMMA GuardedApart ==
  ASSUME NEW l \in Links, Guarded(l), Apart(l), pc'[l] = pc[l], woken[l] => woken'[l],
         waking = l => waking' = l \/ woken'[l]
  PROVE  Guarded(l)'
BY DEF Guarded, Apart

\* Link_guard removes the link, wherever it is, before the future goes on.
LEMMA GuardExecutes ==
  ASSUME QueueInv, NEW l \in Links, ExecuteGuard(l)
  PROVE  QueueInv' /\ ~live'[l] /\ \A m \in Links \ {l} : Apart(m)
<1>1. CASE RemoveFromList(l)
  BY <1>1, RemoveKeeps
<1>2. CASE ~live[l] /\ UNCHANGED queueVars
  BY <1>2 DEF queueVars, QueueInv, TypeOK, ListInv, Apart, Loose
<1> QED BY <1>1, <1>2 DEF ExecuteGuard

LEMMA WaitStep == ASSUME WaitInv, [NextWaitUntil]_vars PROVE WaitInv'
<1>1. QueueInv /\ WaitTypeOK /\ HandInv /\ \A l \in Links : Guarded(l)
  BY DEF WaitInv, GuardInv, Guarded, HandInv, Loose
<1>2. ASSUME QueueInv', WaitTypeOK', HandInv', \A l \in Links : Guarded(l)' PROVE WaitInv'
  BY <1>2 DEF WaitInv, GuardInv, Guarded, HandInv, Loose
<1>h. ASSUME UNCHANGED <<notifier, waking>> PROVE HandInv'
  BY <1>1, <1>h DEF HandInv
<1>3. ASSUME UNCHANGED queueVars
      PROVE  QueueInv' /\ \A l \in Links : Apart(l)
  BY <1>1, <1>3 DEF queueVars, QueueInv, TypeOK, ListInv, Apart, Loose
<1> USE DEF Goto
<1>4. CASE UNCHANGED vars
  <2>1. UNCHANGED queueVars /\ UNCHANGED <<pc, woken, count, notifier, waking>>
    BY <1>4 DEF vars
  <2>2. WaitTypeOK'
    BY <1>1, <2>1 DEF WaitTypeOK
  <2> QED BY <1>1, <1>2, <1>3, <1>h, <2>1, <2>2, GuardedApart
<1>5. CASE Update
  <2>1. UNCHANGED queueVars /\ UNCHANGED <<pc, woken, waking>>
    BY <1>5 DEF Update
  <2>2. WaitTypeOK'
    BY <1>1, <1>5, ThresholdAssumption DEF Update, WaitTypeOK
  <2>3. HandInv'
    BY <1>1, <1>5, <2>1 DEF Update, HandInv
  <2> QED BY <1>1, <1>2, <1>3, <2>1, <2>2, <2>3, GuardedApart
<1>6. CASE PopWaker /\ Pop
  <2>1. QueueInv'
    BY <1>1, <1>6, PopKeeps
  <2>2. PICK h \in Links : /\ h = head /\ live[h] /\ ~is_popped[h]
                           /\ live'[h] /\ is_popped'[h] /\ Loose(h)'
                           /\ \A m \in Links \ {h} : Apart(m)
    BY <1>1, <1>6, PopApart
  <2>3. /\ pc' = pc /\ woken' = woken /\ count' = count
        /\ waking = Null /\ waking' = h /\ h # Null /\ notifier' = "waking"
    <3>1. head # Null
      BY <1>6 DEF Pop
    <3>2. notifier = "popping"
      BY <1>6 DEF PopWaker
    <3>3. waking = Null
      BY <1>1, <3>2 DEF HandInv
    <3> QED BY <1>6, <2>2, <3>1, <3>3 DEF PopWaker
  <2>4. WaitTypeOK' /\ HandInv'
    BY <1>1, <2>3 DEF WaitTypeOK, HandInv
  <2>5. Guarded(h)'
    BY <1>1, <2>2, <2>3 DEF Guarded, WaitTypeOK
  <2>6. \A m \in Links \ {h} : Guarded(m)'
    <3> TAKE m \in Links \ {h}
    <3>1. waking # m
      BY <2>3, NullAssumption
    <3> QED BY <1>1, <2>2, <2>3, <3>1, GuardedApart
  <2> QED BY <1>2, <2>1, <2>4, <2>5, <2>6
<1>7. CASE PopWaker /\ ~Pop
  <2>1. /\ UNCHANGED queueVars /\ UNCHANGED <<pc, woken, count, waking>>
        /\ notifier = "popping" /\ notifier' = "idle"
    BY <1>7 DEF PopWaker
  <2>2. WaitTypeOK' /\ HandInv'
    BY <1>1, <2>1 DEF WaitTypeOK, HandInv
  <2> QED BY <1>1, <1>2, <1>3, <2>1, <2>2, GuardedApart
<1>w. CASE Wake
  <2>1. /\ UNCHANGED queueVars /\ UNCHANGED <<pc, count>>
        /\ notifier = "waking" /\ notifier' = "popping" /\ waking' = Null
        /\ woken' = [woken EXCEPT ![waking] = TRUE]
    BY <1>w DEF Wake
  <2>2. PICK h \in Links : waking = h
    BY <1>1, <2>1 DEF WaitTypeOK, HandInv
  <2>3. WaitTypeOK' /\ HandInv'
    BY <1>1, <2>1, <2>2 DEF WaitTypeOK, HandInv
  <2>4. woken'[h] /\ \A m \in Links : woken[m] => woken'[m]
    BY <1>1, <2>1, <2>2 DEF WaitTypeOK
  <2>5. \A m \in Links : waking = m => woken'[m]
    BY <2>2, <2>4
  <2>6. \A m \in Links : Guarded(m)'
    BY <1>1, <1>3, <2>1, <2>4, <2>5, GuardedApart
  <2> QED BY <1>2, <1>3, <2>1, <2>3, <2>6
<1>8. ASSUME NEW l \in Links, Call(l) PROVE WaitInv'
  <2>1. /\ UNCHANGED queueVars
        /\ pc[l] = "idle" /\ pc' = [pc EXCEPT ![l] = "waiting"]
        /\ woken' = [woken EXCEPT ![l] = TRUE] /\ UNCHANGED <<count, notifier, waking>>
    BY <1>8 DEF Call
  <2>2. WaitTypeOK'
    BY <1>1, <2>1 DEF WaitTypeOK
  <2>3. Guarded(l)'
    BY <1>1, <1>3, <2>1 DEF Guarded, WaitTypeOK, Apart
  <2>4. \A m \in Links \ {l} : Guarded(m)'
    BY <1>1, <1>3, <2>1, GuardedApart DEF WaitTypeOK
  <2> QED BY <1>2, <1>3, <1>h, <2>1, <2>2, <2>3, <2>4
<1>9. ASSUME NEW l \in Links, StartPoll(l) \/ Drop(l) PROVE WaitInv'
  <2>1. QueueInv' /\ ~live'[l] /\ \A m \in Links \ {l} : Apart(m)
    BY <1>1, <1>9, GuardExecutes DEF StartPoll, Drop
  <2>2. /\ \E c \in {"check", "idle"} : pc' = [pc EXCEPT ![l] = c]
        /\ woken' = woken \/ woken' = [woken EXCEPT ![l] = FALSE]
        /\ UNCHANGED <<count, notifier, waking>>
    BY <1>9 DEF StartPoll, Drop
  <2>3. WaitTypeOK'
    BY <1>1, <2>2 DEF WaitTypeOK
  <2>4. Guarded(l)'
    BY <1>1, <2>1, <2>2 DEF Guarded, WaitTypeOK
  <2>5. \A m \in Links \ {l} : Guarded(m)'
    BY <1>1, <2>1, <2>2, GuardedApart DEF WaitTypeOK
  <2> QED BY <1>2, <1>h, <2>1, <2>2, <2>3, <2>4, <2>5
<1>10. ASSUME NEW l \in Links, Check(l) PROVE WaitInv'
  <2>1. /\ UNCHANGED queueVars /\ pc[l] = "check"
        /\ \E c \in {"drop", "push"} : pc' = [pc EXCEPT ![l] = c]
        /\ UNCHANGED <<woken, count, notifier, waking>>
    BY <1>10 DEF Check
  <2>2. WaitTypeOK'
    BY <1>1, <2>1 DEF WaitTypeOK
  <2>3. Guarded(l)'
    BY <1>1, <1>3, <2>1 DEF Guarded, WaitTypeOK, Apart
  <2>4. \A m \in Links \ {l} : Guarded(m)'
    BY <1>1, <1>3, <2>1, GuardedApart DEF WaitTypeOK
  <2> QED BY <1>2, <1>3, <1>h, <2>1, <2>2, <2>3, <2>4
<1>11. ASSUME NEW l \in Links, PushLink(l) PROVE WaitInv'
  <2>1. QueueInv' /\ live'[l] /\ ~is_popped'[l] /\ \A m \in Links \ {l} : Apart(m)
    BY <1>1, <1>11, PushKeeps, PushApart DEF PushLink
  <2>2. pc' = [pc EXCEPT ![l] = "waiting"] /\ UNCHANGED <<woken, count, notifier, waking>>
    BY <1>11 DEF PushLink
  <2>3. WaitTypeOK'
    BY <1>1, <2>2 DEF WaitTypeOK
  <2>4. Guarded(l)'
    BY <1>1, <2>1, <2>2 DEF Guarded, WaitTypeOK
  <2>5. \A m \in Links \ {l} : Guarded(m)'
    BY <1>1, <2>1, <2>2, GuardedApart DEF WaitTypeOK
  <2> QED BY <1>2, <1>h, <2>1, <2>2, <2>3, <2>4, <2>5
<1> QED BY <1>4, <1>5, <1>6, <1>7, <1>w, <1>8, <1>9, <1>10, <1>11
        DEF NextWaitUntil, WaiterNext

LEMMA InitWaitInv == Init => WaitInv
<1> SUFFICES ASSUME Init PROVE WaitInv
  OBVIOUS
<1>1. QueueInv
  BY InitQueueInv DEF Init
<1>2. WaitTypeOK
  BY ThresholdAssumption DEF Init, WaitTypeOK
<1>3. GuardInv
  BY DEF Init, InitQueue, GuardInv
<1> QED BY <1>1, <1>2, <1>3 DEF WaitInv

\* The inductive invariant of the futures and their list: the pointers stand
\* for the queue of waiters, a link lives only while its future is pending, and
\* who is not in the queue was woken or is about to be (wait_queue.rs, pop,
\* wait_until and link_guard).
THEOREM WaitInvariance == WaitUntilSpec => []WaitInv
BY InitWaitInv, WaitStep, PTL DEF WaitUntilSpec

\* The pointers that anyone follows lead to the links of pending futures (the
\* safety argument of push and of link_guard in wait_queue.rs).
THEOREM LinksWithinFutures == WaitUntilSpec => []LinkWithinFuture
<1>1. WaitInv => LinkWithinFuture
  <2> SUFFICES ASSUME WaitInv, NEW l \in Reachable \ {Null}
               PROVE  live[l] /\ pc[l] = "waiting"
    BY DEF LinkWithinFuture
  <2>1. QueueInv /\ \A m \in Links : Guarded(m)
    BY DEF WaitInv, GuardInv, Guarded, Loose
  <2>2. \A i \in 1..Len(list) : list[i] \in Links /\ live[list[i]]
    BY <2>1, Places, Membership, Zenon
  <2>3. l \in Links /\ live[l]
    <3>1. CASE l \in {head, tail}
      BY <2>1, <3>1, Ends
    <3>2. CASE \E m \in Links : live[m] /\ l \in {next[m], prev[m]}
      <4>1. PICK m \in Links : live[m] /\ l \in {next[m], prev[m]}
        BY <3>2
      <4>2. ~is_popped[m]
        BY <2>1, <4>1 DEF Guarded, Loose
      <4>3. PICK i \in 1..Len(list) : list[i] = m
        BY <2>1, <4>1, <4>2, Membership
      <4>4. /\ next[m] = IF i = Len(list) THEN Null ELSE list[i + 1]
            /\ prev[m] = IF i = 1 THEN Null ELSE list[i - 1]
            /\ Len(list) \in Nat
        BY <2>1, <4>3, Places, Zenon
      <4>5. \E j \in 1..Len(list) : l = list[j]
        BY <4>1, <4>3, <4>4
      <4> QED BY <2>2, <4>5
    <3> QED BY <3>1, <3>2 DEF Reachable
  <2> QED BY <2>1, <2>3 DEF Guarded
<1> QED BY <1>1, WaitInvariance, PTL

-----------------------------------------------------------------------------
(***************************************************************************)
(* A walk along the pointers meets the queue, no more and no less.         *)
(***************************************************************************)

\* There is room for the queue in a walk of as many steps as there are links.
LEMMA LinksSuffice ==
  ASSUME NEW q \in Seq(Links), IsInjective(q)
  PROVE  Cardinality(Links) \in Nat /\ Len(q) \in Nat /\ Len(q) <= Cardinality(Links)
<1>1. IsFiniteSet(Links) /\ Cardinality(Links) \in Nat
  BY LinksAssumption, FS_CardinalityType
<1>2. Len(q) \in Nat /\ DOMAIN q = 1..Len(q) /\ q \in [1..Len(q) -> Links]
  BY LenProperties
<1>3. q \in Injection(1..Len(q), Links)
  BY <1>2 DEF Injection, IsInjective
<1>4. Cardinality(1..Len(q)) <= Cardinality(Links)
  BY <1>1, <1>3, FS_Injection
<1>5. Cardinality(1..Len(q)) = Len(q)
  <2> DEFINE n == Len(q)
  <2>1. n \in Nat
    BY <1>2
  <2> HIDE DEF n
  <2>2. Cardinality(1..n) = n
    BY <2>1, FS_Interval
  <2> QED BY <2>2 DEF n
<1> QED BY <1>1, <1>2, <1>4, <1>5

\* The step of a walk, and c of them along the pointers n from h.
Along(n, l) == IF l = Null THEN Null ELSE n[l]
Walks(f, c, h, n) == \A i \in 1..c : f[i] = IF i = 1 THEN h ELSE Along(n, f[i - 1])

\* A recursion from the first place on has one solution at most.
LEMMA OneWalk ==
  ASSUME NEW c \in Nat, NEW h, NEW n, NEW f, NEW g,
         Walks(f, c, h, n), Walks(g, c, h, n)
  PROVE  \A i \in 1..c : f[i] = g[i]
<1> DEFINE D == {i \in 1..c : f[i] # g[i]}
<1>1. SUFFICES ASSUME D # {} PROVE FALSE
  OBVIOUS
<1>2. PICK d \in D : \A m \in D : d <= m
  <2>1. D \in SUBSET Nat
    OBVIOUS
  <2> HIDE DEF D
  <2> QED BY <1>1, <2>1, NatMin
<1>3. d \in 1..c /\ f[d] # g[d]
  BY <1>2
<1>4. d # 1
  BY <1>3 DEF Walks
<1>5. d - 1 \in 1..c /\ d - 1 \notin D
  BY <1>2, <1>3, <1>4
<1>6. f[d - 1] = g[d - 1]
  BY <1>5
<1> QED BY <1>3, <1>4, <1>6 DEF Walks

\* Pointers that represent a queue lead along it.
LEMMA WalkMeets ==
  ASSUME NEW q \in Seq(Links), IsInjective(q), NEW h, NEW n,
         h = IF Len(q) = 0 THEN Null ELSE q[1],
         \A i \in 1..Len(q) : n[q[i]] = IF i = Len(q) THEN Null ELSE q[i + 1]
  PROVE  Met(Walk(h, n)) = q
<1> DEFINE c == Cardinality(Links)
           k == Len(q)
           g == [i \in 1..c |-> IF i <= k THEN q[i] ELSE Null]
           w == Walk(h, n)
<1>1. c \in Nat /\ k \in Nat /\ k <= c
  BY LinksSuffice
<1>2. \A i \in 1..k : q[i] \in Links /\ q[i] # Null
  BY NullAssumption
<1> HIDE DEF c
<1>3. /\ h = IF k = 0 THEN Null ELSE q[1]
      /\ \A i \in 1..k : n[q[i]] = IF i = k THEN Null ELSE q[i + 1]
  OBVIOUS
<1>q. q = [i \in 1..k |-> q[i]]
  BY LenProperties
<1> HIDE DEF k
<1>4. Walks(g, c, h, n)
  <2> SUFFICES ASSUME NEW i \in 1..c
               PROVE  g[i] = IF i = 1 THEN h ELSE Along(n, g[i - 1])
    BY DEF Walks
  <2>1. CASE i = 1
    BY <1>1, <1>3, <2>1
  <2>2. CASE i # 1
    <3>1. i - 1 \in 1..c /\ g[i - 1] = IF i - 1 <= k THEN q[i - 1] ELSE Null
      BY <1>1, <2>2
    <3>2. CASE i - 1 <= k
      <4>1. i - 1 \in 1..k /\ (i - 1 = k <=> ~(i <= k)) /\ (i - 1) + 1 = i
        BY <1>1, <2>2, <3>2
      <4>2. n[q[i - 1]] = IF i - 1 = k THEN Null ELSE q[i]
        BY <1>3, <4>1
      <4> QED BY <1>2, <2>2, <3>1, <3>2, <4>1, <4>2 DEF Along
    <3>3. CASE ~(i - 1 <= k)
      BY <1>1, <2>2, <3>1, <3>3 DEF Along
    <3> QED BY <3>2, <3>3
  <2> QED BY <2>1, <2>2
<1>5. w = [i \in 1..c |-> IF i = 1 THEN h ELSE Along(n, w[i - 1])]
  <2> DEFINE Step(f) == [i \in 1..c |-> IF i = 1 THEN h ELSE IF f[i - 1] = Null THEN Null ELSE n[f[i - 1]]]
  <2>1. w = CHOOSE f : f = Step(f)
    BY Zenon DEF Walk, c
  <2>2. g = Step(g)
    <3>1. \A i \in 1..c : g[i] = IF i = 1 THEN h ELSE IF g[i - 1] = Null THEN Null ELSE n[g[i - 1]]
      BY <1>4 DEF Along, Walks
    <3> HIDE DEF g
    <3>2. g = [i \in 1..c |-> g[i]]
      BY DEF g
    <3> QED BY <3>1, <3>2
  <2>3. w = Step(w)
    <3> HIDE DEF g, w, Step
    <3> QED BY <2>1, <2>2
  <2> HIDE DEF w, g
  <2> QED BY <2>3 DEF Along
<1>6. DOMAIN w = 1..c /\ \A i \in 1..c : w[i] = IF i <= k THEN q[i] ELSE Null
  <2>1. Walks(w, c, h, n)
    <3> HIDE DEF w, g
    <3> QED BY <1>5 DEF Walks
  <2>2. \A i \in 1..c : w[i] = g[i]
    <3> HIDE DEF w, g
    <3> QED BY <1>1, <1>4, <2>1, OneWalk
  <2>3. DOMAIN w = 1..c
    <3> HIDE DEF w, g
    <3> QED BY <1>5
  <2> QED BY <2>2, <2>3
<1> HIDE DEF w
<1>7. {j \in DOMAIN w : w[j] # Null} = 1..k
  BY <1>1, <1>2, <1>6
<1>8. Cardinality(1..k) = k
  BY <1>1, FS_Interval
<1>9. Met(w) = [i \in 1..k |-> w[i]]
  BY <1>7, <1>8 DEF Met
<1>10. \A i \in 1..k : w[i] = q[i]
  BY <1>1, <1>6
<1> QED BY <1>9, <1>10, <1>q DEF w

\* So the list holds the waiters in the order in which they came.
LEMMA ContentsAreList == QueueInv => Contents = list
<1> SUFFICES ASSUME QueueInv PROVE Contents = list
  OBVIOUS
<1>1. /\ list \in Seq(Links) /\ (list = << >> <=> Len(list) = 0)
      /\ \A i \in 1..Len(list) : next[list[i]] = IF i = Len(list) THEN Null ELSE list[i + 1]
  BY Places, Zenon
<1>2. IsInjective(list) /\ head = IF Len(list) = 0 THEN Null ELSE list[1]
  BY <1>1 DEF QueueInv, ListInv
<1> QED BY <1>1, <1>2, WalkMeets, Zenon DEF Contents

\* A pending waiter that cannot be reached was woken, or the notifier that
\* popped it is about to call wake: the waiter itself or other waiters can be
\* anywhere in between a push, a pop and a removal.
THEOREM UnreachableAreWoken == WaitUntilSpec => []UnreachableIsWoken
<1>1. WaitInv => UnreachableIsWoken
  BY ContentsAreList DEF WaitInv, GuardInv, UnreachableIsWoken, QueueInv, ListInv
<1> QED BY <1>1, WaitInvariance, PTL

-----------------------------------------------------------------------------
(***************************************************************************)
(* The list is the FIFO of its waiters.                                    *)
(***************************************************************************)

\* The links that believe to be in the queue.
Waiting == {l \in Links : live[l] /\ ~is_popped[l]}

\* What an operation does to the queue and to those who wait there.
LEMMA PushWaits ==
  ASSUME QueueInv, NEW l \in Links, Push(l)
  PROVE  l \notin Waiting /\ Waiting' = Waiting \cup {l} /\ list' = Append(list, l)
<1>1. live'[l] /\ ~is_popped'[l] /\ \A m \in Links \ {l} : Apart(m)
  BY PushApart
<1> QED BY <1>1 DEF Push, Waiting, Apart

LEMMA PopServes ==
  ASSUME QueueInv, Pop
  PROVE  list # << >> /\ Waiting' = Waiting \ {Head(list)} /\ list' = Tail(list)
<1>1. PICK h \in Links : h = head /\ is_popped'[h] /\ \A m \in Links \ {h} : Apart(m)
  BY PopApart
<1>2. list # << >> /\ head = Head(list)
  BY PopKeeps
<1> QED BY <1>1, <1>2 DEF Pop, Waiting, Apart

LEMMA RemoveLeaves ==
  ASSUME QueueInv, NEW l \in Links, RemoveFromList(l)
  PROVE  \/ Waiting' = Waiting /\ list' = list
         \/ /\ Waiting' = Waiting \ {l}
            /\ \E i \in DOMAIN list : list[i] = l /\ list' = RemoveAt(list, i)
<1>1. ~live'[l] /\ \A m \in Links \ {l} : Apart(m)
  BY RemoveKeeps
<1>2. Waiting' = Waiting \ {l}
  BY <1>1 DEF Waiting, Apart
<1>3. CASE is_popped[l]
  BY <1>2, <1>3 DEF RemoveFromList, Waiting
<1>4. CASE ~is_popped[l]
  BY <1>2, <1>4, UnlinkKeeps
<1> QED BY <1>3, <1>4

\* Every operation of the list is one of the FIFO, or changes nothing there.
LEMMA ListStep == QueueInv /\ QueueInv' /\ [Next]_queueVars => [Waiters!Next]_(Waiters!vars)
<1>1. (QueueInv => Contents = list)'
  BY ContentsAreList, PTL
<1> SUFFICES ASSUME QueueInv, QueueInv', [Next]_queueVars
             PROVE  [Waiters!Next]_(Waiters!vars)
  OBVIOUS
<1>2. Contents = list /\ Contents' = list'
  BY <1>1, ContentsAreList
<1>3. CASE UNCHANGED <<list, Waiting>>
  BY <1>2, <1>3 DEF Waiters!vars, Waiting
<1>4. ASSUME NEW l \in Links, Push(l) PROVE Waiters!Next
  <2>1. Waiters!Push(l)
    BY <1>2, <1>4, PushWaits DEF Waiters!Push, Waiting
  <2> QED BY <2>1 DEF Waiters!Next
<1>5. CASE Pop
  <2>1. Waiters!Pop
    BY <1>2, <1>5, PopServes DEF Waiters!Pop, Waiting
  <2> QED BY <2>1 DEF Waiters!Next
<1>6. ASSUME NEW l \in Links, RemoveFromList(l) PROVE [Waiters!Next]_(Waiters!vars)
  <2>1. CASE UNCHANGED <<list, Waiting>>
    BY <1>3, <2>1
  <2>2. CASE /\ Waiting' = Waiting \ {l}
             /\ \E i \in DOMAIN list : list[i] = l /\ list' = RemoveAt(list, i)
    <3>1. Waiters!RemoveFromList(l)
      BY <1>2, <2>2 DEF Waiters!RemoveFromList, Waiting, RemoveAt, Waiters!RemoveAt
    <3> QED BY <3>1 DEF Waiters!Next
  <2> QED BY <1>6, <2>1, <2>2, RemoveLeaves
<1>7. CASE UNCHANGED queueVars
  BY <1>3, <1>7 DEF queueVars, Waiting
<1> QED BY <1>4, <1>5, <1>6, <1>7 DEF Next

\* The intrusive list, in whatever order it is used, is a FIFO from which a
\* waiter can remove itself wherever it stands (wait_queue.rs, the operations
\* of DoublyLinkedList and Link).
THEOREM ListIsWaitList == Spec => IsWaitList
<1>1. InitQueue => Waiters!Init
  <2> SUFFICES ASSUME InitQueue PROVE Waiters!Init
    OBVIOUS
  <2>1. Contents = << >>
    BY InitQueueInv, ContentsAreList DEF InitQueue
  <2> QED BY <2>1 DEF InitQueue, Waiters!Init
<1> QED BY <1>1, ListStep, QueueInvariance, PTL DEF Spec, IsWaitList, Waiters!Spec

\* The futures and the notifier use the list by its operations only.
LEMMA UsesList == WaitUntilSpec => Spec
<1>1. Init => InitQueue
  BY DEF Init
<1>2. [NextWaitUntil]_vars => [Next]_queueVars
  BY DEF NextWaitUntil, WaiterNext, vars, Next, Update, PopWaker, Wake, Call, StartPoll, Drop,
         ExecuteGuard, Check, PushLink
<1> QED BY <1>1, <1>2, PTL DEF WaitUntilSpec, Spec

\* So the waiters of wait_until are served in the order of their last polls,
\* those that leave in between excepted.
THEOREM WaitersAreFifo == WaitUntilSpec => IsWaitList
BY UsesList, ListIsWaitList, PTL
=============================================================================
