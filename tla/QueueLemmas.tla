---------------------------- MODULE QueueLemmas ----------------------------
(***************************************************************************)
(* What the queue operations of the models do to the set of elements of a  *)
(* queue, and that they keep its elements distinct; what they do to the    *)
(* places of a queue, for the ordered one of the timers; and what they do  *)
(* to a queue of indexes that is read through the storage behind it.  The  *)
(* proofs about the queues of slots, waiters and timers cite these facts   *)
(* and not the definitions of the operations.                              *)
(***************************************************************************)
EXTENDS Integers, SequencesExt, SequenceTheorems, WellFoundedInduction, TLAPS

\* Every non-empty set of natural numbers has a least element.
LEMMA NatMin ==
  ASSUME NEW S \in SUBSET Nat, S # {}
  PROVE  \E n \in S : \A m \in S : n <= m
<1>1. \E n \in S : \A m \in S : ~ (m < n)
  <2>1. \E n \in S : \A m \in S : ~ (<<m, n>> \in OpToRel(<, Nat))
    BY NatLessThanWellFounded, WFMin, Zenon
  <2>2. \A m \in S, n \in S : <<m, n>> \in OpToRel(<, Nat) <=> m < n
    BY Zenon DEF OpToRel
  <2> QED BY <2>1, <2>2, Zenon
<1>2. PICK n \in S : \A m \in S : ~ (m < n)
  BY <1>1
<1> QED BY <1>2

\* push_back adds its argument.
LEMMA AppendElement ==
  ASSUME NEW S, NEW q \in Seq(S), NEW e \in S
  PROVE  /\ Append(q, e) \in Seq(S)
         /\ Range(Append(q, e)) = Range(q) \cup {e}
         /\ IsInjective(q) /\ e \notin Range(q) => IsInjective(Append(q, e))
<1> DEFINE r == Append(q, e)
<1>1. /\ r \in Seq(S)
      /\ Len(r) = Len(q) + 1
      /\ \A i \in 1..Len(q) : r[i] = q[i]
      /\ r[Len(q) + 1] = e
  BY AppendProperties
<1>2. /\ DOMAIN q = 1..Len(q)
      /\ DOMAIN r = 1..(Len(q) + 1)
      /\ Len(q) \in Nat
  BY <1>1, LenProperties
<1> HIDE DEF r
<1>3. Range(r) = Range(q) \cup {e}
  <2>1. Range(r) \subseteq Range(q) \cup {e}
    BY <1>1, <1>2 DEF Range
  <2>2. Range(q) \cup {e} \subseteq Range(r)
    BY <1>1, <1>2 DEF Range
  <2> QED BY <2>1, <2>2
<1>4. ASSUME IsInjective(q), e \notin Range(q)
      PROVE  IsInjective(r)
  <2> SUFFICES ASSUME NEW i \in DOMAIN r, NEW j \in DOMAIN r, r[i] = r[j]
               PROVE  i = j
    BY DEF IsInjective
  <2>1. \A k \in 1..Len(q) : q[k] # e
    BY <1>2, <1>4 DEF Range
  <2> QED BY <1>1, <1>2, <1>4, <2>1 DEF IsInjective
<1> QED BY <1>1, <1>3, <1>4 DEF r

\* Cutting the element at position i out of a queue of distinct elements
\* removes that element and no other.
LEMMA CutElement ==
  ASSUME NEW S, NEW q \in Seq(S), NEW i \in DOMAIN q, NEW r \in Seq(S),
         Len(r) = Len(q) - 1,
         \A j \in 1..(Len(q) - 1) : r[j] = IF j < i THEN q[j] ELSE q[j + 1],
         IsInjective(q)
  PROVE  /\ Range(r) = Range(q) \ {q[i]}
         /\ IsInjective(r)
<1>1. /\ DOMAIN q = 1..Len(q)
      /\ DOMAIN r = 1..(Len(q) - 1)
      /\ Len(q) \in Nat
      /\ i \in 1..Len(q)
  BY LenProperties
<1>2. Range(r) \subseteq Range(q) \ {q[i]}
  <2> SUFFICES ASSUME NEW j \in 1..(Len(q) - 1)
               PROVE  r[j] \in Range(q) /\ r[j] # q[i]
    BY <1>1 DEF Range
  <2>1. PICK k \in 1..Len(q) : k # i /\ r[j] = q[k]
    <3>1. CASE j < i
      <4>1. j \in 1..Len(q) /\ j # i /\ r[j] = q[j]
        BY <1>1, <3>1
      <4> QED BY <4>1
    <3>2. CASE ~(j < i)
      <4>1. j + 1 \in 1..Len(q) /\ j + 1 # i /\ r[j] = q[j + 1]
        BY <1>1, <3>2
      <4> QED BY <4>1
    <3> QED BY <3>1, <3>2
  <2> QED BY <1>1, <2>1 DEF Range, IsInjective
<1>3. Range(q) \ {q[i]} \subseteq Range(r)
  <2> SUFFICES ASSUME NEW k \in 1..Len(q), k # i
               PROVE  q[k] \in Range(r)
    BY <1>1 DEF Range
  <2>1. PICK j \in 1..(Len(q) - 1) : r[j] = q[k]
    <3>1. CASE k < i
      BY <1>1, <3>1
    <3>2. CASE k > i
      <4>1. k - 1 \in 1..(Len(q) - 1) /\ ~(k - 1 < i) /\ (k - 1) + 1 = k
        BY <1>1, <3>2
      <4>2. r[k - 1] = q[k]
        BY <4>1
      <4> QED BY <4>1, <4>2
    <3> QED BY <1>1, <3>1, <3>2
  <2> QED BY <1>1, <2>1 DEF Range
<1>4. IsInjective(r)
  <2> SUFFICES ASSUME NEW j \in 1..(Len(q) - 1), NEW k \in 1..(Len(q) - 1),
                      r[j] = r[k]
               PROVE  j = k
    BY <1>1 DEF IsInjective
  <2> DEFINE jj == IF j < i THEN j ELSE j + 1
             kk == IF k < i THEN k ELSE k + 1
  <2>1. /\ jj \in DOMAIN q /\ q[jj] = r[j]
        /\ kk \in DOMAIN q /\ q[kk] = r[k]
    BY <1>1
  <2>2. jj = kk
    BY <2>1 DEF IsInjective
  <2> QED BY <1>1, <2>2
<1> QED BY <1>2, <1>3, <1>4

\* pop_front takes the first element away.
LEMMA TailElements ==
  ASSUME NEW S, NEW q \in Seq(S), q # << >>
  PROVE  /\ Head(q) \in S
         /\ Tail(q) \in Seq(S)
         /\ Head(q) \in Range(q)
         /\ IsInjective(q) => /\ Range(Tail(q)) = Range(q) \ {Head(q)}
                              /\ IsInjective(Tail(q))
<1>1. /\ Head(q) \in S
      /\ Tail(q) \in Seq(S)
      /\ Len(Tail(q)) = Len(q) - 1
      /\ \A j \in 1..(Len(q) - 1) : Tail(q)[j] = q[j + 1]
  BY HeadTailProperties
<1>2. /\ DOMAIN q = 1..Len(q)
      /\ Len(q) \in Nat
      /\ 1 \in DOMAIN q
      /\ Head(q) = q[1]
  BY LenProperties, EmptySeq
<1>3. Head(q) \in Range(q)
  BY <1>2 DEF Range
<1>4. \A j \in 1..(Len(q) - 1) : Tail(q)[j] = IF j < 1 THEN q[j] ELSE q[j + 1]
  BY <1>1, <1>2
<1>5. ASSUME IsInjective(q)
      PROVE  Range(Tail(q)) = Range(q) \ {Head(q)} /\ IsInjective(Tail(q))
  <2> DEFINE i == 1
             r == Tail(q)
  <2>1. /\ i \in DOMAIN q
        /\ Head(q) = q[i]
        /\ r \in Seq(S)
        /\ Len(r) = Len(q) - 1
        /\ \A j \in 1..(Len(q) - 1) : r[j] = IF j < i THEN q[j] ELSE q[j + 1]
    BY <1>1, <1>2, <1>4
  <2> HIDE DEF i, r
  <2>2. Range(r) = Range(q) \ {q[i]} /\ IsInjective(r)
    BY <1>5, <2>1, CutElement
  <2> QED BY <2>1, <2>2 DEF r
<1> QED BY <1>1, <1>3, <1>5

\* pop_back leaves the other places as they are.
LEMMA FrontPlaces ==
  ASSUME NEW S, NEW q \in Seq(S), q # << >>
  PROVE  /\ Front(q) \in Seq(S)
         /\ Len(Front(q)) = Len(q) - 1
         /\ \A j \in 1..(Len(q) - 1) : Front(q)[j] = q[j]
<1>1. /\ DOMAIN q = 1..Len(q)
      /\ Len(q) \in Nat \ {0}
      /\ \A j \in 1..Len(q) : q[j] \in S
  BY LenProperties, EmptySeq, ElementOfSeq
<1> QED BY <1>1, SubSeqProperties DEF Front

\* pop_back takes the last element away.
LEMMA FrontElements ==
  ASSUME NEW S, NEW q \in Seq(S), q # << >>
  PROVE  /\ Last(q) \in S
         /\ Front(q) \in Seq(S)
         /\ Last(q) \in Range(q)
         /\ IsInjective(q) => /\ Range(Front(q)) = Range(q) \ {Last(q)}
                              /\ IsInjective(Front(q))
<1>1. /\ DOMAIN q = 1..Len(q)
      /\ Len(q) \in Nat \ {0}
      /\ \A j \in 1..Len(q) : q[j] \in S
  BY LenProperties, EmptySeq, ElementOfSeq
<1>2. /\ Len(q) \in DOMAIN q
      /\ Last(q) = q[Len(q)]
      /\ Last(q) \in S
      /\ Last(q) \in Range(q)
  BY <1>1 DEF Last, Range
<1>3. /\ Front(q) \in Seq(S)
      /\ Len(Front(q)) = Len(q) - 1
      /\ \A j \in 1..(Len(q) - 1) : Front(q)[j] = q[j]
  BY FrontPlaces
<1>4. \A j \in 1..(Len(q) - 1) :
        Front(q)[j] = IF j < Len(q) THEN q[j] ELSE q[j + 1]
  BY <1>1, <1>3
<1>5. ASSUME IsInjective(q)
      PROVE  Range(Front(q)) = Range(q) \ {Last(q)} /\ IsInjective(Front(q))
  BY <1>2, <1>3, <1>4, <1>5, CutElement
<1> QED BY <1>2, <1>3, <1>5

\* Unlinking the node at position i moves those behind it up by one.
LEMMA RemoveAtPlaces ==
  ASSUME NEW S, NEW q \in Seq(S), NEW i \in DOMAIN q
  PROVE  /\ RemoveAt(q, i) \in Seq(S)
         /\ Len(RemoveAt(q, i)) = Len(q) - 1
         /\ \A j \in 1..(Len(q) - 1) :
              RemoveAt(q, i)[j] = IF j < i THEN q[j] ELSE q[j + 1]
<1> DEFINE a == SubSeq(q, 1, i - 1)
           b == SubSeq(q, i + 1, Len(q))
<1>1. /\ DOMAIN q = 1..Len(q)
      /\ Len(q) \in Nat
      /\ i \in 1..Len(q)
      /\ \A j \in 1..Len(q) : q[j] \in S
  BY LenProperties, ElementOfSeq
<1>2. /\ a \in Seq(S)
      /\ Len(a) = i - 1
      /\ \A j \in 1..(i - 1) : a[j] = q[j]
  <2>1. \A j \in 1..(i - 1) : q[j] \in S
    BY <1>1
  <2> QED BY <1>1, <2>1, SubSeqProperties
<1>3. /\ b \in Seq(S)
      /\ Len(b) = Len(q) - i
      /\ \A j \in 1..(Len(q) - i) : b[j] = q[i + j]
  <2>1. \A j \in (i + 1)..Len(q) : q[j] \in S
    BY <1>1
  <2>2. /\ b \in Seq(S)
        /\ Len(b) = IF i + 1 <= Len(q) THEN Len(q) - (i + 1) + 1 ELSE 0
        /\ \A j \in 1..(Len(q) - (i + 1) + 1) : b[j] = q[(i + 1) + j - 1]
    BY <1>1, <2>1, SubSeqProperties
  <2> HIDE DEF b
  <2>3. Len(b) = Len(q) - i
    BY <1>1, <2>2
  <2>4. ASSUME NEW j \in 1..(Len(q) - i) PROVE b[j] = q[i + j]
    <3>1. j \in 1..(Len(q) - (i + 1) + 1) /\ (i + 1) + j - 1 = i + j
      BY <1>1
    <3> QED BY <2>2, <3>1
  <2> QED BY <2>2, <2>3, <2>4
<1> HIDE DEF a, b
<1>4. /\ a \o b \in Seq(S)
      /\ Len(a \o b) = Len(a) + Len(b)
      /\ \A j \in 1..(Len(a) + Len(b)) :
           (a \o b)[j] = IF j <= Len(a) THEN a[j] ELSE b[j - Len(a)]
  BY <1>2, <1>3, ConcatProperties
<1>5. RemoveAt(q, i) = a \o b
  BY DEF RemoveAt, a, b
<1>6. /\ RemoveAt(q, i) \in Seq(S)
      /\ Len(RemoveAt(q, i)) = Len(q) - 1
  <2>1. Len(a) + Len(b) = Len(q) - 1
    BY <1>1, <1>2, <1>3
  <2> QED BY <1>4, <1>5, <2>1
<1>7. ASSUME NEW j \in 1..(Len(q) - 1)
      PROVE  RemoveAt(q, i)[j] = IF j < i THEN q[j] ELSE q[j + 1]
  <2>1. CASE j < i
    BY <1>1, <1>2, <1>3, <1>4, <1>5, <2>1
  <2>2. CASE ~(j < i)
    <3>1. j - (i - 1) \in 1..(Len(q) - i) /\ i + (j - (i - 1)) = j + 1
      BY <1>1, <2>2
    <3>2. b[j - (i - 1)] = q[j + 1]
      BY <1>3, <3>1
    <3>3. j \in 1..(Len(a) + Len(b)) /\ ~(j <= Len(a)) /\ j - Len(a) = j - (i - 1)
      BY <1>1, <1>2, <1>3, <2>2
    <3>4. RemoveAt(q, i)[j] = b[j - (i - 1)]
      BY <1>4, <1>5, <3>3
    <3> QED BY <2>2, <3>2, <3>4
  <2> QED BY <2>1, <2>2
<1> QED BY <1>6, <1>7

\* Unlinking the node at position i takes its element away.
LEMMA RemoveAtElements ==
  ASSUME NEW S, NEW q \in Seq(S), NEW i \in DOMAIN q
  PROVE  /\ RemoveAt(q, i) \in Seq(S)
         /\ IsInjective(q) => /\ Range(RemoveAt(q, i)) = Range(q) \ {q[i]}
                              /\ IsInjective(RemoveAt(q, i))
<1>1. IsInjective(q) => /\ Range(RemoveAt(q, i)) = Range(q) \ {q[i]}
                        /\ IsInjective(RemoveAt(q, i))
  BY RemoveAtPlaces, CutElement
<1> QED BY <1>1, RemoveAtPlaces

\* Linking a node in at position i moves those from i on down by one.
LEMMA InsertAtPlaces ==
  ASSUME NEW S, NEW q \in Seq(S), NEW i \in 1..(Len(q) + 1), NEW e \in S
  PROVE  /\ InsertAt(q, i, e) \in Seq(S)
         /\ Len(InsertAt(q, i, e)) = Len(q) + 1
         /\ InsertAt(q, i, e)[i] = e
         /\ \A j \in 1..(i - 1) : InsertAt(q, i, e)[j] = q[j]
         /\ \A j \in (i + 1)..(Len(q) + 1) : InsertAt(q, i, e)[j] = q[j - 1]
<1> DEFINE a == SubSeq(q, 1, i - 1)
           b == SubSeq(q, i, Len(q))
<1>1. /\ DOMAIN q = 1..Len(q)
      /\ Len(q) \in Nat
      /\ \A j \in 1..Len(q) : q[j] \in S
  BY LenProperties, ElementOfSeq
<1>2. /\ a \in Seq(S)
      /\ Len(a) = i - 1
      /\ \A j \in 1..(i - 1) : a[j] = q[j]
  <2>1. \A j \in 1..(i - 1) : q[j] \in S
    BY <1>1
  <2> QED BY <1>1, <2>1, SubSeqProperties
<1>3. /\ b \in Seq(S)
      /\ Len(b) = Len(q) - i + 1
      /\ \A j \in 1..(Len(q) - i + 1) : b[j] = q[i + j - 1]
  <2>1. \A j \in i..Len(q) : q[j] \in S
    BY <1>1
  <2>2. /\ b \in Seq(S)
        /\ Len(b) = IF i <= Len(q) THEN Len(q) - i + 1 ELSE 0
        /\ \A j \in 1..(Len(q) - i + 1) : b[j] = q[i + j - 1]
    BY <1>1, <2>1, SubSeqProperties
  <2> QED BY <1>1, <2>2
<1> HIDE DEF a, b
<1>4. /\ Append(a, e) \in Seq(S)
      /\ Len(Append(a, e)) = i
      /\ \A j \in 1..(i - 1) : Append(a, e)[j] = q[j]
      /\ Append(a, e)[i] = e
  BY <1>2, AppendProperties
<1>5. InsertAt(q, i, e) = Append(a, e) \o b
  <2>1. InsertAt(q, i, e) = (a \o <<e>>) \o b
    BY DEF InsertAt, a, b
  <2>2. a \o <<e>> = Append(a, e)
    BY <1>2, AppendIsConcat
  <2> QED BY <2>1, <2>2
<1> DEFINE c == Append(a, e)
<1> HIDE DEF c
<1>6. /\ c \o b \in Seq(S)
      /\ Len(c \o b) = Len(c) + Len(b)
      /\ \A j \in 1..(Len(c) + Len(b)) :
           (c \o b)[j] = IF j <= Len(c) THEN c[j] ELSE b[j - Len(c)]
  BY <1>3, <1>4, ConcatProperties DEF c
<1>7. Len(c) = i /\ Len(c) + Len(b) = Len(q) + 1
  BY <1>1, <1>3, <1>4 DEF c
<1>8. InsertAt(q, i, e) = c \o b
  BY <1>5 DEF c
<1>9. ASSUME NEW j \in 1..i
      PROVE  InsertAt(q, i, e)[j] = c[j]
  BY <1>1, <1>6, <1>7, <1>8
<1>10. ASSUME NEW j \in (i + 1)..(Len(q) + 1)
       PROVE  InsertAt(q, i, e)[j] = q[j - 1]
  <2>1. j \in 1..(Len(c) + Len(b)) /\ ~(j <= Len(c)) /\ j - Len(c) = j - i
    BY <1>1, <1>7
  <2>2. InsertAt(q, i, e)[j] = b[j - i]
    BY <2>1, <1>6, <1>8
  <2>3. j - i \in 1..(Len(q) - i + 1) /\ i + (j - i) - 1 = j - 1
    BY <1>1
  <2> QED BY <2>2, <2>3, <1>3
<1>11. \A j \in 1..(i - 1) : InsertAt(q, i, e)[j] = q[j]
  BY <1>4, <1>9 DEF c
<1>12. InsertAt(q, i, e)[i] = e
  BY <1>4, <1>9 DEF c
<1> QED BY <1>6, <1>7, <1>8, <1>10, <1>11, <1>12

\* Linking a node in adds its element.
LEMMA InsertAtElements ==
  ASSUME NEW S, NEW q \in Seq(S), NEW i \in 1..(Len(q) + 1), NEW e \in S
  PROVE  /\ Range(InsertAt(q, i, e)) = Range(q) \cup {e}
         /\ IsInjective(q) /\ e \notin Range(q) => IsInjective(InsertAt(q, i, e))
<1> DEFINE r == InsertAt(q, i, e)
<1>1. /\ r \in Seq(S)
      /\ Len(r) = Len(q) + 1
      /\ r[i] = e
      /\ \A j \in 1..(i - 1) : r[j] = q[j]
      /\ \A j \in (i + 1)..(Len(q) + 1) : r[j] = q[j - 1]
  BY InsertAtPlaces
<1> HIDE DEF r
<1>2. /\ DOMAIN q = 1..Len(q)
      /\ DOMAIN r = 1..(Len(q) + 1)
      /\ Len(q) \in Nat
  BY <1>1, LenProperties
\* Every place of r but i comes from a place of q.
<1>3. ASSUME NEW j \in DOMAIN r, j # i
      PROVE  LET k == IF j < i THEN j ELSE j - 1
             IN  k \in DOMAIN q /\ r[j] = q[k]
  <2>1. CASE j < i
    BY <2>1, <1>1, <1>2
  <2>2. CASE j > i
    BY <2>2, <1>1, <1>2
  <2> QED BY <2>1, <2>2, <1>2, <1>3
<1>4. ASSUME NEW k \in DOMAIN q
      PROVE  \E j \in DOMAIN r : r[j] = q[k]
  <2>1. CASE k < i
    BY <2>1, <1>1, <1>2
  <2>2. CASE ~(k < i)
    <3>1. k + 1 \in (i + 1)..(Len(q) + 1) /\ k + 1 \in DOMAIN r /\ (k + 1) - 1 = k
      BY <2>2, <1>2
    <3>2. r[k + 1] = q[k]
      BY <3>1, <1>1
    <3> QED BY <3>1, <3>2
  <2> QED BY <2>1, <2>2
<1>5. Range(r) = Range(q) \cup {e}
  <2>1. Range(r) \subseteq Range(q) \cup {e}
    <3>1. \A j \in DOMAIN r : r[j] = e \/ \E k \in DOMAIN q : r[j] = q[k]
      BY <1>1, <1>3
    <3> QED BY <3>1 DEF Range
  <2>2. Range(q) \subseteq Range(r)
    BY <1>4 DEF Range
  <2>3. e \in Range(r)
    BY <1>1, <1>2 DEF Range
  <2> QED BY <2>1, <2>2, <2>3
<1>6. ASSUME IsInjective(q), e \notin Range(q)
      PROVE  IsInjective(r)
  <2> SUFFICES ASSUME NEW j \in DOMAIN r, NEW l \in DOMAIN r, r[j] = r[l]
               PROVE  j = l
    BY DEF IsInjective
  <2>1. \A k \in DOMAIN q : q[k] # e
    BY <1>6 DEF Range
  <2>2. j = i <=> l = i
    BY <2>1, <1>1, <1>3
  <2>3. CASE j # i /\ l # i
    <3> DEFINE jj == IF j < i THEN j ELSE j - 1
               ll == IF l < i THEN l ELSE l - 1
    <3>1. jj \in DOMAIN q /\ ll \in DOMAIN q /\ q[jj] = q[ll]
      BY <2>2, <2>3, <1>3
    <3>2. jj = ll
      BY <3>1, <1>6 DEF IsInjective
    <3> QED BY <3>2, <2>3, <1>2
  <2> QED BY <2>2, <2>3
<1> QED BY <1>5, <1>6 DEF r

-----------------------------------------------------------------------------
\* A queue of indexes, read through the storage that they point into.
Through(q, f) == [i \in DOMAIN q |-> f[q[i]]]

\* It has the values of the storage in the order of the indexes.
LEMMA ThroughElements ==
  ASSUME NEW S, NEW T, NEW q \in Seq(S), NEW f,
         \A x \in S : f[x] \in T
  PROVE  /\ Through(q, f) \in Seq(T)
         /\ Len(Through(q, f)) = Len(q)
         /\ \A i \in 1..Len(q) : Through(q, f)[i] = f[q[i]]
<1> DEFINE r == Through(q, f)
<1>1. /\ DOMAIN q = 1..Len(q) /\ Len(q) \in Nat
      /\ \A i \in 1..Len(q) : q[i] \in S /\ f[q[i]] \in T
  BY LenProperties, ElementOfSeq
<1>2. r = [i \in 1..Len(q) |-> f[q[i]]]
  BY <1>1 DEF Through
<1>3. r \in [1..Len(q) -> T]
  BY <1>1, <1>2
<1>4. r \in Seq(T)
  BY <1>1, <1>3
<1>5. DOMAIN r = 1..Len(q) /\ DOMAIN r = 1..Len(r) /\ Len(r) \in Nat
  BY <1>3, <1>4, LenProperties
<1>6. Len(r) = Len(q)
  BY <1>1, <1>5
<1>7. \A i \in 1..Len(q) : r[i] = f[q[i]]
  BY <1>2
<1> QED BY <1>4, <1>6, <1>7

\* Its elements are what the queued indexes point to.
LEMMA ThroughRange == \A q, f : Range(Through(q, f)) = {f[x] : x \in Range(q)}
BY DEF Through, Range

\* What the indexes of S point to.
Image(S, f) == {f[x] : x \in S}

\* The values of a queue of indexes are among them.
LEMMA ThroughPlaces ==
  ASSUME NEW S, NEW q \in Seq(S), NEW f
  PROVE  /\ Through(q, f) \in Seq(Image(S, f))
         /\ Len(Through(q, f)) = Len(q)
         /\ \A i \in 1..Len(q) : Through(q, f)[i] = f[q[i]]
<1>1. \A x \in S : f[x] \in Image(S, f)
  BY DEF Image
<1> QED BY <1>1, ThroughElements

\* push_back of an index adds the value it points to.
LEMMA ThroughAppend ==
  ASSUME NEW S, NEW q \in Seq(S), NEW f, NEW e \in S
  PROVE  Through(Append(q, e), f) = Append(Through(q, f), f[e])
<1> DEFINE a == Append(q, e)
           l == Through(a, f)
           p == Through(q, f)
           r == Append(p, f[e])
<1>1. /\ a \in Seq(S) /\ Len(a) = Len(q) + 1 /\ a[Len(q) + 1] = e
      /\ \A i \in 1..Len(q) : a[i] = q[i]
      /\ Len(q) \in Nat
  BY AppendProperties, LenProperties
<1> HIDE DEF a
<1>2. l \in Seq(Image(S, f)) /\ Len(l) = Len(a) /\ \A i \in 1..Len(a) : l[i] = f[a[i]]
  <2>1. a \in Seq(S)
    BY <1>1
  <2> QED BY <2>1, ThroughPlaces
<1>3. p \in Seq(Image(S, f)) /\ Len(p) = Len(q) /\ \A i \in 1..Len(q) : p[i] = f[q[i]]
  BY ThroughPlaces
<1> HIDE DEF l, p
<1>4. /\ r \in Seq(Image(S, f)) /\ Len(r) = Len(p) + 1 /\ r[Len(p) + 1] = f[e]
      /\ \A i \in 1..Len(p) : r[i] = p[i]
  <2>1. f[e] \in Image(S, f)
    BY DEF Image
  <2> QED BY <2>1, <1>3, AppendProperties
<1> HIDE DEF r
<1>5. ASSUME NEW i \in 1..Len(l) PROVE l[i] = r[i]
  <2>1. i \in 1..(Len(q) + 1)
    BY <1>1, <1>2
  <2>2. CASE i \in 1..Len(q)
    BY <2>2, <1>1, <1>2, <1>3, <1>4
  <2>3. CASE i = Len(q) + 1
    BY <2>3, <1>1, <1>2, <1>3, <1>4
  <2> QED BY <2>1, <2>2, <2>3, <1>1
<1>6. l = r
  BY <1>1, <1>2, <1>3, <1>4, <1>5, SeqEqual
<1> QED BY <1>6 DEF a, l, p, r

\* pop_front of an index takes the oldest value.
LEMMA ThroughTail ==
  ASSUME NEW S, NEW q \in Seq(S), NEW f, q # << >>
  PROVE  /\ Through(q, f) # << >>
         /\ Head(Through(q, f)) = f[Head(q)]
         /\ Through(Tail(q), f) = Tail(Through(q, f))
<1> DEFINE t == Tail(q)
           l == Through(t, f)
           p == Through(q, f)
           r == Tail(p)
<1>1. /\ t \in Seq(S) /\ Len(t) = Len(q) - 1 /\ Len(q) \in Nat \ {0}
      /\ \A i \in 1..(Len(q) - 1) : t[i] = q[i + 1]
      /\ Head(q) = q[1]
  BY HeadTailProperties, EmptySeq
<1> HIDE DEF t
<1>2. l \in Seq(Image(S, f)) /\ Len(l) = Len(t) /\ \A i \in 1..Len(t) : l[i] = f[t[i]]
  <2>1. t \in Seq(S)
    BY <1>1
  <2> QED BY <2>1, ThroughPlaces
<1>3. p \in Seq(Image(S, f)) /\ Len(p) = Len(q) /\ \A i \in 1..Len(q) : p[i] = f[q[i]]
  BY ThroughPlaces
<1> HIDE DEF l, p
<1>4. p # << >> /\ Head(p) = p[1] /\ p[1] = f[q[1]]
  BY <1>1, <1>3, EmptySeq
<1>5. r \in Seq(Image(S, f)) /\ Len(r) = Len(p) - 1 /\ \A i \in 1..(Len(p) - 1) : r[i] = p[i + 1]
  BY <1>3, <1>4, HeadTailProperties
<1> HIDE DEF r
<1>6. ASSUME NEW i \in 1..Len(l) PROVE l[i] = r[i]
  <2>1. i \in 1..(Len(q) - 1) /\ i + 1 \in 1..Len(q) /\ Len(l) = Len(q) - 1
    BY <1>1, <1>2
  <2>2. l[i] = f[q[i + 1]]
    BY <2>1, <1>1, <1>2
  <2>3. r[i] = f[q[i + 1]]
    BY <2>1, <1>3, <1>5
  <2> QED BY <2>2, <2>3
<1>7. l = r
  BY <1>1, <1>2, <1>3, <1>5, <1>6, SeqEqual
<1> QED BY <1>1, <1>4, <1>7 DEF t, l, p, r

\* pop_back of an index takes the youngest value.
LEMMA ThroughFront ==
  ASSUME NEW S, NEW q \in Seq(S), NEW f, q # << >>
  PROVE  /\ Through(q, f) # << >>
         /\ Through(Front(q), f) = SubSeq(Through(q, f), 1, Len(Through(q, f)) - 1)
<1> DEFINE t == Front(q)
           l == Through(t, f)
           p == Through(q, f)
           r == SubSeq(p, 1, Len(p) - 1)
<1>1. Len(q) \in Nat \ {0}
  BY EmptySeq
<1>2. /\ t \in Seq(S) /\ Len(t) = Len(q) - 1
      /\ \A i \in 1..(Len(q) - 1) : t[i] = q[i]
  BY FrontPlaces
<1> HIDE DEF t
<1>3. l \in Seq(Image(S, f)) /\ Len(l) = Len(t) /\ \A i \in 1..Len(t) : l[i] = f[t[i]]
  <2>1. t \in Seq(S)
    BY <1>2
  <2> QED BY <2>1, ThroughPlaces
<1>4. p \in Seq(Image(S, f)) /\ Len(p) = Len(q) /\ \A i \in 1..Len(q) : p[i] = f[q[i]]
  BY ThroughPlaces
<1> HIDE DEF l, p
<1>5. p # << >> /\ \A i \in 1..(Len(p) - 1) : p[i] \in Image(S, f)
  BY <1>1, <1>4, EmptySeq, ElementOfSeq
<1>6. r \in Seq(Image(S, f)) /\ Len(r) = Len(p) - 1 /\ \A i \in 1..(Len(p) - 1) : r[i] = p[i]
  BY <1>1, <1>4, <1>5, SubSeqProperties
<1> HIDE DEF r
<1>7. ASSUME NEW i \in 1..Len(l) PROVE l[i] = r[i]
  <2>1. i \in 1..(Len(q) - 1) /\ i \in 1..Len(q) /\ Len(l) = Len(q) - 1
    BY <1>1, <1>2, <1>3
  <2>2. l[i] = f[q[i]]
    BY <2>1, <1>2, <1>3
  <2>3. r[i] = f[q[i]]
    BY <2>1, <1>4, <1>6
  <2> QED BY <2>2, <2>3
<1>8. l = r
  BY <1>1, <1>2, <1>3, <1>4, <1>6, <1>7, SeqEqual
<1> QED BY <1>5, <1>8 DEF t, l, p, r

\* The elements of two queues one after the other.
LEMMA ConcatElements ==
  ASSUME NEW S, NEW p \in Seq(S), NEW q \in Seq(S)
  PROVE  Range(p \o q) = Range(p) \cup Range(q)
<1> DEFINE r == p \o q
<1>1. /\ r \in Seq(S) /\ Len(r) = Len(p) + Len(q)
      /\ \A i \in 1..(Len(p) + Len(q)) :
           r[i] = IF i <= Len(p) THEN p[i] ELSE q[i - Len(p)]
  BY ConcatProperties
<1> HIDE DEF r
<1>2. /\ DOMAIN p = 1..Len(p) /\ DOMAIN q = 1..Len(q) /\ DOMAIN r = 1..(Len(p) + Len(q))
      /\ Len(p) \in Nat /\ Len(q) \in Nat
  BY <1>1, LenProperties
<1>3. Range(r) \subseteq Range(p) \cup Range(q)
  <2> SUFFICES ASSUME NEW i \in DOMAIN r PROVE r[i] \in Range(p) \cup Range(q)
    BY DEF Range
  <2>1. CASE i <= Len(p)
    <3>1. i \in DOMAIN p /\ r[i] = p[i]
      BY <2>1, <1>1, <1>2
    <3> QED BY <3>1 DEF Range
  <2>2. CASE i > Len(p)
    <3>1. i - Len(p) \in DOMAIN q /\ r[i] = q[i - Len(p)]
      BY <2>2, <1>1, <1>2
    <3> QED BY <3>1 DEF Range
  <2> QED BY <2>1, <2>2, <1>2
<1>4. Range(p) \subseteq Range(r)
  <2>1. \A i \in DOMAIN p : i \in DOMAIN r /\ r[i] = p[i]
    BY <1>1, <1>2
  <2> QED BY <2>1 DEF Range
<1>5. Range(q) \subseteq Range(r)
  <2>1. \A i \in DOMAIN q : Len(p) + i \in DOMAIN r /\ r[Len(p) + i] = q[i]
    BY <1>1, <1>2
  <2> QED BY <2>1 DEF Range
<1> QED BY <1>3, <1>4, <1>5 DEF r
=============================================================================
