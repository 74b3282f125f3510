-------------------------- MODULE TraceStreamProofs --------------------------
(***************************************************************************)
(* Proofs about what a viewer finds.  First of the rings of the bus: what  *)
(* _buffer_event keeps of a problem's history, and which problems it keeps *)
(* a ring for.  Only a publication writes the rings, the keys, the marks   *)
(* and the history, so both properties come down to one step, which moves  *)
(* a key to the end of the table, drops the keys before the cap and        *)
(* appends to one ring.  Then of the bus under its one publisher: what a   *)
(* late viewer replays of a problem whose run was answered, and what a     *)
(* viewer has seen when its stream ends.  A step of TraceStream is a step  *)
(* of TraceBroadcaster, so the invariants of the bus hold there too.       *)
(***************************************************************************)
EXTENDS TraceStream, TraceBroadcasterProofs, FiniteSetTheorems

RingsInv == IInv /\ RingIsLatest /\ TrackedByRecency

-----------------------------------------------------------------------------
(* The table of rings, key by key. *)

\* Touch moves one key to the end, or adds it, and keeps the others in place:
\* k is where the key was, and behind the last one for a new key.
LEMMA TouchElements ==
  ASSUME order \in Seq(Problems), NEW p \in Problems
  PROVE  \E k \in 1..(Len(order) + 1) :
           /\ k <= Len(order) => order[k] = p
           /\ k = Len(order) + 1 => ~Contains(order, p)
           /\ Len(Touch(p)) = IF k <= Len(order) THEN Len(order) ELSE Len(order) + 1
           /\ Touch(p)[Len(Touch(p))] = p
           /\ \A i \in 1..(Len(Touch(p)) - 1) :
                Touch(p)[i] = IF i < k THEN order[i] ELSE order[i + 1]
<1>1. Len(order) \in Nat /\ \A j \in 1..Len(order) : order[j] \in Problems
  BY LenProperties, ElementOfSeq
<1>2. CASE Contains(order, p)
  <2> DEFINE i == CHOOSE i \in 1..Len(order) : order[i] = p
  <2>1. i \in 1..Len(order) /\ order[i] = p
    BY <1>2 DEF Contains
  <2>2. Touch(p) = Append(RemoveAt(order, i), p)
    BY <1>2 DEF Touch
  <2> HIDE DEF i
  <2> DEFINE s1 == SubSeq(order, 1, i - 1)
             s2 == SubSeq(order, i + 1, Len(order))
  <2>3. /\ s1 \in Seq(Problems)
        /\ Len(s1) = i - 1
        /\ \A j \in 1..(i - 1) : s1[j] = order[j]
    <3>1. 1 \in Int /\ i - 1 \in Int /\ \A j \in 1..(i - 1) : order[j] \in Problems
      BY <1>1, <2>1
    <3>2. /\ s1 \in Seq(Problems)
          /\ Len(s1) = IF 1 <= i - 1 THEN (i - 1) - 1 + 1 ELSE 0
          /\ \A j \in 1..((i - 1) - 1 + 1) : s1[j] = order[1 + j - 1]
      BY <3>1, SubSeqProperties
    <3> HIDE DEF s1
    <3> QED
      BY <1>1, <2>1, <3>2
  <2>4. /\ s2 \in Seq(Problems)
        /\ Len(s2) = Len(order) - i
        /\ \A j \in 1..(Len(order) - i) : s2[j] = order[i + j]
    <3>1. i + 1 \in Int /\ Len(order) \in Int
          /\ \A j \in (i + 1)..Len(order) : order[j] \in Problems
      BY <1>1, <2>1
    <3>2. /\ s2 \in Seq(Problems)
          /\ Len(s2) = IF i + 1 <= Len(order) THEN Len(order) - (i + 1) + 1 ELSE 0
          /\ \A j \in 1..(Len(order) - (i + 1) + 1) : s2[j] = order[(i + 1) + j - 1]
      BY <3>1, SubSeqProperties
    <3> HIDE DEF s2
    <3> QED
      BY <1>1, <2>1, <3>2
  <2>5. RemoveAt(order, i) = s1 \o s2
    BY DEF RemoveAt
  <2> HIDE DEF s1, s2
  <2> DEFINE t == s1 \o s2
  <2>6. /\ t \in Seq(Problems)
        /\ Len(t) = Len(order) - 1
        /\ \A j \in 1..(Len(order) - 1) : t[j] = IF j < i THEN order[j] ELSE order[j + 1]
    <3>1. /\ t \in Seq(Problems)
          /\ Len(t) = Len(s1) + Len(s2)
          /\ \A j \in 1..(Len(s1) + Len(s2)) :
               t[j] = IF j <= Len(s1) THEN s1[j] ELSE s2[j - Len(s1)]
      BY <2>3, <2>4, ConcatProperties
    <3> HIDE DEF t
    <3>2. ASSUME NEW j \in 1..(Len(order) - 1)
          PROVE  t[j] = IF j < i THEN order[j] ELSE order[j + 1]
      <4>1. CASE j < i
        BY <1>1, <2>1, <2>3, <2>4, <3>1, <4>1
      <4>2. CASE ~(j < i)
        <5>1. /\ j - Len(s1) \in 1..(Len(order) - i)
              /\ i + (j - Len(s1)) = j + 1
              /\ ~(j <= Len(s1))
              /\ j \in 1..(Len(s1) + Len(s2))
          BY <1>1, <2>1, <2>3, <2>4, <4>2
        <5>2. t[j] = s2[j - Len(s1)]
          BY <3>1, <5>1
        <5>3. s2[j - Len(s1)] = order[i + (j - Len(s1))]
          BY <2>4, <5>1
        <5> QED
          BY <4>2, <5>1, <5>2, <5>3
      <4> QED
        BY <4>1, <4>2
    <3> QED
      BY <1>1, <2>1, <2>3, <2>4, <3>1, <3>2
  <2> HIDE DEF t
  <2>7. /\ Len(Append(t, p)) = Len(t) + 1
        /\ \A j \in 1..Len(t) : Append(t, p)[j] = t[j]
        /\ Append(t, p)[Len(t) + 1] = p
    BY <2>6, AppendProperties
  <2>8. Touch(p) = Append(t, p)
    BY <2>2, <2>5 DEF t
  <2>9. /\ Len(Touch(p)) = Len(order)
        /\ Touch(p)[Len(Touch(p))] = p
        /\ \A j \in 1..(Len(Touch(p)) - 1) :
             Touch(p)[j] = IF j < i THEN order[j] ELSE order[j + 1]
    BY <1>1, <2>6, <2>7, <2>8
  <2> i \in 1..(Len(order) + 1)
    BY <1>1, <2>1
  <2> WITNESS i \in 1..(Len(order) + 1)
  <2> QED
    BY <1>1, <2>1, <2>9
<1>3. CASE ~Contains(order, p)
  <2>1. Touch(p) = Append(order, p)
    BY <1>3 DEF Touch
  <2>2. /\ Len(Touch(p)) = Len(order) + 1
        /\ \A j \in 1..Len(order) : Touch(p)[j] = order[j]
        /\ Touch(p)[Len(order) + 1] = p
    BY <2>1, AppendProperties
  <2> Len(order) + 1 \in 1..(Len(order) + 1)
    BY <1>1
  <2> WITNESS Len(order) + 1 \in 1..(Len(order) + 1)
  <2> QED
    BY <1>1, <1>3, <2>2
<1> QED
  BY <1>2, <1>3

\* Evicting drops the keys beyond the cap from the front.
LEMMA KeptElements ==
  ASSUME NEW keys \in Seq(Problems)
  PROVE  LET m == IF Len(keys) > MaxProblems THEN Len(keys) - MaxProblems ELSE 0
         IN  /\ m \in Nat
             /\ Len(Kept(keys)) = Len(keys) - m
             /\ Len(Kept(keys)) <= MaxProblems
             /\ keys # <<>> => Len(Kept(keys)) > 0
             /\ \A i \in 1..Len(Kept(keys)) : Kept(keys)[i] = keys[i + m]
             /\ Overflow(keys) = {keys[i] : i \in 1..m}
<1> DEFINE m == IF Len(keys) > MaxProblems THEN Len(keys) - MaxProblems ELSE 0
<1>1. Len(keys) \in Nat /\ (keys # <<>> => Len(keys) > 0)
  BY LenProperties, EmptySeq
<1>2. \A i \in 1..Len(keys) : keys[i] \in Problems
  BY ElementOfSeq
<1>3. MaxProblems \in Nat \ {0}
  BY ConstantsAssumption
<1>4. m \in Nat /\ m <= Len(keys) /\ (Len(keys) > 0 => m < Len(keys))
      /\ Len(keys) - m <= MaxProblems
  BY <1>1, <1>3
<1>5. Kept(keys) = SubSeq(keys, m + 1, Len(keys))
  <2>1. m + 1 = IF Len(keys) > MaxProblems THEN Len(keys) - MaxProblems + 1 ELSE 1
    BY <1>1, <1>3
  <2> QED
    BY <2>1 DEF Kept
<1>6. Overflow(keys) = {keys[i] : i \in 1..m}
  <2>1. 1..(Len(keys) - MaxProblems) = 1..m
    BY <1>1, <1>3
  <2> QED
    BY <2>1 DEF Overflow
<1> HIDE DEF m
<1>7. /\ Len(SubSeq(keys, m + 1, Len(keys))) = IF m + 1 <= Len(keys) THEN Len(keys) - (m + 1) + 1 ELSE 0
      /\ \A i \in 1..(Len(keys) - (m + 1) + 1) : SubSeq(keys, m + 1, Len(keys))[i] = keys[(m + 1) + i - 1]
  <2>1. m + 1 \in Int /\ Len(keys) \in Int /\ \A i \in (m + 1)..Len(keys) : keys[i] \in Problems
    BY <1>1, <1>2, <1>4
  <2> QED
    BY <2>1, SubSeqProperties
<1>8. Len(Kept(keys)) = Len(keys) - m
  BY <1>1, <1>4, <1>5, <1>7
<1>9. \A i \in 1..Len(Kept(keys)) : Kept(keys)[i] = keys[i + m]
  <2> SUFFICES ASSUME NEW i \in 1..Len(Kept(keys)) PROVE Kept(keys)[i] = keys[i + m]
    OBVIOUS
  <2>1. i \in 1..(Len(keys) - (m + 1) + 1) /\ (m + 1) + i - 1 = i + m
    BY <1>1, <1>4, <1>8
  <2> QED
    BY <1>5, <1>7, <2>1
<1> QED
  BY <1>1, <1>4, <1>6, <1>8, <1>9 DEF m

\* In the table as Touch leaves it, behind the touched problem are the problems
\* that have a ring, in the order of their last publication.
LEMMA TouchedByRecency ==
  ASSUME RingsInv, NEW p \in Problems
  PROVE  /\ Touch(p) \in Seq(Problems)
         /\ Len(Touch(p)) \in Nat \ {0}
         /\ Touch(p)[Len(Touch(p))] = p
         /\ \A i \in 1..(Len(Touch(p)) - 1) :
              /\ Touch(p)[i] \in Problems
              /\ Touch(p)[i] # p
              /\ buffers[Touch(p)[i]] # <<>>
         /\ \A i, j \in 1..(Len(Touch(p)) - 1) :
              i < j => Last(buffers[Touch(p)[i]]) < Last(buffers[Touch(p)[j]])
         /\ \A q \in Problems : q # p /\ buffers[q] # <<>> =>
              \E i \in 1..(Len(Touch(p)) - 1) : Touch(p)[i] = q
<1>1. /\ order \in Seq(Problems)
      /\ Len(order) \in Nat
      /\ \A i \in 1..Len(order) : order[i] \in Problems
  BY LenProperties, ElementOfSeq DEF RingsInv, IInv, TypeOK
<1>2. /\ \A q \in Problems : buffers[q] # <<>> <=> Contains(order, q)
      /\ \A i, j \in 1..Len(order) :
           i < j => Last(buffers[order[i]]) < Last(buffers[order[j]])
  BY DEF RingsInv, TrackedByRecency
<1>3. \A i \in 1..Len(order) : Last(buffers[order[i]]) \in Nat
  <2> SUFFICES ASSUME NEW i \in 1..Len(order) PROVE Last(buffers[order[i]]) \in Nat
    OBVIOUS
  <2>1. order[i] \in Problems /\ buffers[order[i]] # <<>>
    BY <1>1, <1>2 DEF Contains
  <2>2. buffers[order[i]] \in Seq(Nat)
    BY <2>1 DEF RingsInv, IInv, TypeOK
  <2>3. Len(buffers[order[i]]) \in Nat \ {0}
    BY <2>1, <2>2, EmptySeq
  <2>4. buffers[order[i]][Len(buffers[order[i]])] \in Nat
    BY <2>2, <2>3, ElementOfSeq
  <2> QED
    BY <2>4 DEF Last
<1>4. \A i, j \in 1..Len(order) : i # j => order[i] # order[j]
  <2> SUFFICES ASSUME NEW i \in 1..Len(order), NEW j \in 1..Len(order), i < j
               PROVE  order[i] # order[j]
    BY <1>1
  <2>1. Last(buffers[order[i]]) < Last(buffers[order[j]])
    BY <1>2
  <2>2. \A n \in Nat : ~(n < n)
    OBVIOUS
  <2> QED
    BY <1>3, <2>1, <2>2
<1> PICK k \in 1..(Len(order) + 1) :
      /\ k <= Len(order) => order[k] = p
      /\ k = Len(order) + 1 => ~Contains(order, p)
      /\ Len(Touch(p)) = IF k <= Len(order) THEN Len(order) ELSE Len(order) + 1
      /\ Touch(p)[Len(Touch(p))] = p
      /\ \A i \in 1..(Len(Touch(p)) - 1) :
           Touch(p)[i] = IF i < k THEN order[i] ELSE order[i + 1]
  BY <1>1, TouchElements
<1> DEFINE r == Touch(p)
           at(i) == IF i < k THEN i ELSE i + 1
<1>5. r \in Seq(Problems)
  BY <1>1, TouchType
<1>6. Len(r) \in Nat \ {0} /\ Len(r) - 1 <= Len(order)
  BY <1>1
<1>7. \A i \in 1..(Len(r) - 1) : at(i) \in 1..Len(order) /\ at(i) # k /\ r[i] = order[at(i)]
  BY <1>1
<1>8. \A j \in 1..Len(order) : j # k => \E i \in 1..(Len(r) - 1) : at(i) = j
  <2> SUFFICES ASSUME NEW j \in 1..Len(order), j # k
               PROVE  \E i \in 1..(Len(r) - 1) : at(i) = j
    OBVIOUS
  <2>1. CASE j < k
    <3>1. j \in 1..(Len(r) - 1) /\ at(j) = j
      BY <1>1, <2>1
    <3> QED
      BY <3>1
  <2>2. CASE j > k
    <3>1. j - 1 \in 1..(Len(r) - 1) /\ at(j - 1) = j
      BY <1>1, <2>2
    <3> QED
      BY <3>1
  <2> QED
    BY <1>1, <2>1, <2>2
<1>9. \A i, j \in 1..(Len(r) - 1) : i < j => at(i) < at(j)
  BY <1>1, <1>6
<1>10. \A j \in 1..Len(order) : j # k => order[j] # p
  <2>1. CASE k <= Len(order)
    BY <1>1, <1>4, <2>1
  <2>2. CASE k = Len(order) + 1
    BY <2>2 DEF Contains
  <2> QED
    BY <1>1, <2>1, <2>2
<1> HIDE DEF at
<1>11. r[Len(r)] = p
  OBVIOUS
<1> HIDE DEF r
<1>12. \A i \in 1..(Len(r) - 1) : r[i] \in Problems /\ r[i] # p /\ buffers[r[i]] # <<>>
  <2>1. \A j \in 1..Len(order) : buffers[order[j]] # <<>>
    BY <1>1, <1>2 DEF Contains
  <2> QED
    BY <1>1, <1>7, <1>10, <2>1
<1>13. \A i, j \in 1..(Len(r) - 1) : i < j => Last(buffers[r[i]]) < Last(buffers[r[j]])
  BY <1>2, <1>7, <1>9
<1>14. \A q \in Problems : q # p /\ buffers[q] # <<>> => \E i \in 1..(Len(r) - 1) : r[i] = q
  <2> SUFFICES ASSUME NEW q \in Problems, q # p, buffers[q] # <<>>
               PROVE  \E i \in 1..(Len(r) - 1) : r[i] = q
    OBVIOUS
  <2>1. PICK j \in 1..Len(order) : order[j] = q
    BY <1>2 DEF Contains
  <2>2. j # k
    BY <1>1, <2>1
  <2>3. PICK i \in 1..(Len(r) - 1) : at(i) = j
    BY <1>8, <2>2
  <2>4. r[i] = q
    BY <1>7, <2>1, <2>3
  <2> QED
    BY <2>4
<1> QED
  BY <1>5, <1>6, <1>11, <1>12, <1>13, <1>14 DEF r

-----------------------------------------------------------------------------
(* A publication. *)

\* What a publication leaves in the rings: an evicted problem has none, the
\* published problem is not evicted and ends in the new event.
LEMMA PublishedRings ==
  ASSUME RingsInv, NEW p \in Problems, NEW k \in Kinds, Publish(p, k)
  PROVE  /\ order' = Kept(Touch(p))
         /\ p \notin Overflow(Touch(p))
         /\ \A q \in Problems : q \in Overflow(Touch(p)) => buffers'[q] = <<>>
         /\ \A q \in Problems : q # p /\ q \notin Overflow(Touch(p)) => buffers'[q] = buffers[q]
         /\ buffers'[p] = RingAppend(buffers[p], Len(log) + 1)
         /\ completed' = (completed \cup (IF k \in TerminalKinds THEN {p} ELSE {}))
                           \ Overflow(Touch(p))
<1> DEFINE r == Touch(p)
           evicted == Overflow(Touch(p))
           e == Len(log) + 1
<1>1. /\ order' = Kept(Touch(p))
      /\ buffers' = [q \in Problems |->
                       CASE q \in evicted -> <<>>
                         [] q = p /\ q \notin evicted -> RingAppend(buffers[q], e)
                         [] OTHER -> buffers[q]]
      /\ completed' = (completed \cup (IF k \in TerminalKinds THEN {p} ELSE {})) \ evicted
  BY DEF Publish, BufferEvent
<1>2. /\ r \in Seq(Problems)
      /\ Len(r) \in Nat \ {0}
      /\ \A i \in 1..(Len(r) - 1) : r[i] # p
  BY TouchedByRecency
<1>3. p \notin evicted
  <2>1. MaxProblems \in Nat \ {0}
    BY ConstantsAssumption
  <2>2. \A i \in 1..(Len(r) - MaxProblems) : i \in 1..(Len(r) - 1)
    BY <1>2, <2>1
  <2> QED
    BY <1>2, <2>2 DEF Overflow
<1> HIDE DEF evicted, e
<1>4. /\ \A q \in Problems : q \in evicted => buffers'[q] = <<>>
      /\ \A q \in Problems : q # p /\ q \notin evicted => buffers'[q] = buffers[q]
      /\ buffers'[p] = RingAppend(buffers[p], e)
  BY <1>1, <1>3
<1> QED
  BY <1>1, <1>3, <1>4 DEF evicted, e

\* A ring ends in an event of the history.
LEMMA EndsOfRings ==
  ASSUME RingsInv, NEW q \in Problems, buffers[q] # <<>>
  PROVE  Last(buffers[q]) \in 1..Len(log)
<1>1. buffers[q] \in Seq(Nat) /\ RingInv(q)
  BY DEF RingsInv, IInv, TypeOK
<1>2. Len(buffers[q]) \in Nat \ {0}
  BY <1>1, EmptySeq
<1>3. OfTopic(log, q, buffers[q][Len(buffers[q])])
  BY <1>1, <1>2 DEF RingInv
<1> QED
  BY <1>3 DEF OfTopic, Last

\* The ring of the published problem ends in the new event.
LEMMA EndOfPublishedRing ==
  ASSUME RingsInv, NEW p \in Problems, NEW k \in Kinds, Publish(p, k)
  PROVE  /\ RingAppend(buffers[p], Len(log) + 1) # <<>>
         /\ Last(buffers'[p]) = Len(log) + 1
<1> DEFINE e == Len(log) + 1
<1>1. e \in Nat
  BY OfTopicStable DEF RingsInv, IInv
<1>2. buffers'[p] = RingAppend(buffers[p], e)
  BY PublishedRings
<1>3. buffers[p] \in Seq(Nat)
  BY DEF RingsInv, IInv, TypeOK
<1> HIDE DEF e
<1> DEFINE ring == RingAppend(buffers[p], e)
           d == IF Len(buffers[p]) < BufferSize THEN 0 ELSE 1
<1>4. /\ ring \in Seq(Nat)
      /\ Len(ring) = Len(buffers[p]) + 1 - d
      /\ ring[Len(ring)] = e
  BY <1>1, <1>3, RingAppendProperties
<1>5. Len(buffers[p]) \in Nat /\ BufferSize \in Nat \ {0}
  BY <1>3, LenProperties, ConstantsAssumption
<1>6. Len(ring) # 0
  BY <1>4, <1>5
<1>7. buffers'[p] = ring
  BY <1>2
<1> HIDE DEF ring
<1>8. ring # <<>>
  BY <1>4, <1>6, EmptySeq
<1> QED
  BY <1>4, <1>7, <1>8 DEF Last, ring, e

\* After a publication the table is in the order of the last publications
\* again: the newest key is last, and what was cut off was the oldest.
LEMMA PublishKeepsRecency ==
  ASSUME RingsInv, NEW p \in Problems, NEW k \in Kinds, Publish(p, k)
  PROVE  TrackedByRecency'
<1> DEFINE r == Touch(p)
           m == IF Len(r) > MaxProblems THEN Len(r) - MaxProblems ELSE 0
           evicted == Overflow(Touch(p))
           e == Len(log) + 1
<1>1. /\ r \in Seq(Problems)
      /\ Len(r) \in Nat \ {0}
      /\ r[Len(r)] = p
      /\ \A i \in 1..(Len(r) - 1) : r[i] \in Problems /\ r[i] # p /\ buffers[r[i]] # <<>>
      /\ \A i, j \in 1..(Len(r) - 1) : i < j => Last(buffers[r[i]]) < Last(buffers[r[j]])
      /\ \A q \in Problems : q # p /\ buffers[q] # <<>> => \E i \in 1..(Len(r) - 1) : r[i] = q
  BY TouchedByRecency
<1>2. /\ order' = Kept(Touch(p))
      /\ p \notin evicted
      /\ \A q \in Problems : q \in evicted => buffers'[q] = <<>>
      /\ \A q \in Problems : q # p /\ q \notin evicted => buffers'[q] = buffers[q]
      /\ buffers'[p] = RingAppend(buffers[p], e)
      /\ completed' \subseteq (completed \cup {p}) \ evicted
  BY PublishedRings
<1> HIDE DEF r
<1>3. /\ m \in Nat
      /\ Len(Kept(r)) = Len(r) - m
      /\ Len(Kept(r)) <= MaxProblems
      /\ r # <<>> => Len(Kept(r)) > 0
      /\ \A i \in 1..Len(Kept(r)) : Kept(r)[i] = r[i + m]
      /\ Overflow(r) = {r[i] : i \in 1..m}
  BY <1>1, KeptElements
<1>4. order' = Kept(r) /\ evicted = Overflow(r)
  BY <1>2 DEF r
<1> HIDE DEF m, evicted
<1>5. /\ Len(order') = Len(r) - m
      /\ Len(order') \in Nat \ {0}
      /\ Len(order') <= MaxProblems
      /\ \A i \in 1..Len(order') : i + m \in 1..Len(r) /\ order'[i] = r[i + m]
      /\ \A i \in 1..(Len(order') - 1) : i + m \in 1..(Len(r) - 1)
      /\ order'[Len(order')] = p
  <2>1. Len(order') = Len(r) - m /\ Len(order') <= MaxProblems
    BY <1>3, <1>4
  <2>2. r # <<>>
    BY <1>1, EmptySeq
  <2>3. Len(order') > 0
    BY <1>3, <1>4, <2>2
  <2>4. /\ Len(order') \in Nat \ {0}
        /\ \A i \in 1..Len(order') : i + m \in 1..Len(r)
        /\ \A i \in 1..(Len(order') - 1) : i + m \in 1..(Len(r) - 1)
        /\ Len(order') + m = Len(r)
    BY <1>1, <1>3, <2>1, <2>3
  <2>5. \A i \in 1..Len(order') : order'[i] = r[i + m]
    BY <1>3, <1>4
  <2>6. order'[Len(order')] = r[Len(r)]
    BY <2>4, <2>5
  <2> QED
    BY <1>1, <2>1, <2>4, <2>5, <2>6
<1>6. Len(log) \in Nat /\ e \in Nat
  BY OfTopicStable DEF RingsInv, IInv
<1>7. /\ RingAppend(buffers[p], e) # <<>>
      /\ Last(buffers'[p]) = e
  BY <1>2, EndOfPublishedRing
<1>8. \A q \in Problems : buffers[q] # <<>> => Last(buffers[q]) \in 1..Len(log)
  BY EndsOfRings
<1> HIDE DEF e
\* The keys kept are the problems with a ring.
<1>9. \A i, j \in 1..(Len(r) - 1) : i # j => r[i] # r[j]
  <2>1. ASSUME NEW i \in 1..(Len(r) - 1), NEW j \in 1..(Len(r) - 1), i < j
        PROVE  r[i] # r[j]
    <3>1. Last(buffers[r[i]]) < Last(buffers[r[j]])
      BY <1>1, <2>1
    <3>2. Last(buffers[r[i]]) \in Nat
      BY <1>1, <1>6, <1>8
    <3>3. \A n \in Nat : ~(n < n)
      OBVIOUS
    <3> QED
      BY <3>1, <3>2, <3>3
  <2>2. ASSUME NEW i \in 1..(Len(r) - 1), NEW j \in 1..(Len(r) - 1), i # j
        PROVE  r[i] # r[j]
    <3>1. i < j \/ j < i
      <4>1. i \in Int /\ j \in Int
        BY <1>1
      <4> QED
        BY <2>2, <4>1
    <3> QED
      BY <2>1, <3>1
  <2> QED
    BY <2>2
<1>10. \A i \in 1..(Len(order') - 1) :
         /\ order'[i] \in Problems
         /\ order'[i] # p
         /\ order'[i] \notin evicted
         /\ buffers'[order'[i]] = buffers[order'[i]]
         /\ buffers[order'[i]] # <<>>
  <2> SUFFICES ASSUME NEW i \in 1..(Len(order') - 1)
               PROVE  /\ order'[i] \in Problems
                      /\ order'[i] # p
                      /\ order'[i] \notin evicted
                      /\ buffers'[order'[i]] = buffers[order'[i]]
                      /\ buffers[order'[i]] # <<>>
    OBVIOUS
  <2>1. i + m \in 1..(Len(r) - 1) /\ order'[i] = r[i + m]
    BY <1>5
  <2>2. r[i + m] \in Problems /\ r[i + m] # p /\ buffers[r[i + m]] # <<>>
    BY <1>1, <2>1
  <2>3. \A h \in 1..m : h \in 1..(Len(r) - 1) /\ h # i + m
    BY <1>1, <1>3, <1>5, <2>1
  <2>4. r[i + m] \notin evicted
    BY <1>3, <1>4, <1>9, <2>1, <2>3
  <2>5. buffers'[r[i + m]] = buffers[r[i + m]]
    BY <1>2, <2>2, <2>4
  <2> QED
    BY <2>1, <2>2, <2>4, <2>5
<1>11. \A q \in Problems : buffers'[q] # <<>> => Contains(order', q)
  <2>0. Contains(order', p)
    <3>1. Len(order') \in 1..Len(order') /\ order'[Len(order')] = p
      BY <1>5
    <3> QED
      BY <3>1 DEF Contains
  <2> SUFFICES ASSUME NEW q \in Problems, buffers'[q] # <<>>, q # p
               PROVE  Contains(order', q)
    BY <2>0
  <2>1. q \notin evicted /\ buffers[q] # <<>>
    BY <1>2
  <2>2. PICK i \in 1..(Len(r) - 1) : r[i] = q
    BY <1>1, <2>1
  <2>3. ~(i \in 1..m)
    BY <1>3, <1>4, <2>1, <2>2
  <2>4. i - m \in 1..Len(order') /\ (i - m) + m = i
    <3>1. m \in Nat /\ Len(r) \in Nat \ {0} /\ Len(order') = Len(r) - m
      BY <1>1, <1>3, <1>5
    <3> QED
      BY <2>3, <3>1
  <2>5. order'[i - m] = q
    BY <1>5, <2>2, <2>4
  <2> QED
    BY <2>4, <2>5 DEF Contains
<1>12. \A q \in Problems : Contains(order', q) => buffers'[q] # <<>>
  <2> SUFFICES ASSUME NEW q \in Problems, NEW i \in 1..Len(order'), order'[i] = q
               PROVE  buffers'[q] # <<>>
    BY DEF Contains
  <2>1. CASE i = Len(order')
    BY <1>2, <1>5, <1>7, <2>1
  <2>2. CASE i # Len(order')
    <3>1. i \in 1..(Len(order') - 1)
      BY <1>5, <2>2
    <3> QED
      BY <1>10, <3>1
  <2> QED
    BY <2>1, <2>2
\* Their order.
<1>13. \A i, j \in 1..Len(order') :
         i < j => Last(buffers'[order'[i]]) < Last(buffers'[order'[j]])
  <2> SUFFICES ASSUME NEW i \in 1..Len(order'), NEW j \in 1..Len(order'), i < j
               PROVE  Last(buffers'[order'[i]]) < Last(buffers'[order'[j]])
    OBVIOUS
  <2>1. i \in 1..(Len(order') - 1)
    BY <1>5
  <2>2. /\ order'[i] \in Problems
        /\ buffers'[order'[i]] = buffers[order'[i]]
        /\ buffers[order'[i]] # <<>>
    BY <1>10, <2>1
  <2>3. CASE j = Len(order')
    <3>1. Last(buffers'[order'[j]]) = e
      BY <1>5, <1>7, <2>3
    <3>2. Last(buffers[order'[i]]) \in 1..Len(log)
      BY <1>8, <2>2
    <3>3. \A n \in 1..Len(log) : n < Len(log) + 1
      BY <1>6
    <3> QED
      BY <2>2, <3>1, <3>2, <3>3 DEF e
  <2>4. CASE j # Len(order')
    <3>1. j \in 1..(Len(order') - 1)
      BY <1>5, <2>4
    <3>2. buffers'[order'[j]] = buffers[order'[j]]
      BY <1>10, <3>1
    <3>3. /\ i + m \in 1..(Len(r) - 1) /\ order'[i] = r[i + m]
          /\ j + m \in 1..(Len(r) - 1) /\ order'[j] = r[j + m]
          /\ i + m < j + m
      BY <1>3, <1>5, <2>1, <3>1
    <3>4. Last(buffers[order'[i]]) < Last(buffers[order'[j]])
      BY <1>1, <3>3
    <3> QED
      BY <2>2, <3>2, <3>4
  <2> QED
    BY <2>3, <2>4
<1>14. \A q \in completed' : Contains(order', q)
  <2> SUFFICES ASSUME NEW q \in completed' PROVE Contains(order', q)
    OBVIOUS
  <2>1. CASE q = p
    BY <1>5, <2>1 DEF Contains
  <2>2. CASE q # p
    <3>1. q \in completed /\ q \notin evicted
      BY <1>2, <2>2
    <3>2. q \in Problems /\ Contains(order, q)
      BY <3>1 DEF RingsInv, IInv, TypeOK, TrackedByRecency
    <3>3. buffers[q] # <<>>
      BY <3>2 DEF RingsInv, TrackedByRecency
    <3> QED
      BY <1>2, <1>11, <2>2, <3>1, <3>2, <3>3
  <2> QED
    BY <2>1, <2>2
<1> QED
  BY <1>5, <1>11, <1>12, <1>13, <1>14 DEF TrackedByRecency

\* A publication leaves in every ring the latest events of its problem: the
\* published one drops at most its oldest event, and gets the newest.
LEMMA PublishKeepsLatest ==
  ASSUME RingsInv, NEW p \in Problems, NEW k \in Kinds, Publish(p, k)
  PROVE  RingIsLatest'
<1> DEFINE e == Len(log) + 1
<1>1. /\ \A q \in Problems : q # p => buffers'[q] = <<>> \/ buffers'[q] = buffers[q]
      /\ buffers'[p] = RingAppend(buffers[p], e)
  BY PublishedRings
<1>2. /\ Len(log) \in Nat
      /\ Len(log') = Len(log) + 1
      /\ log' = Append(log, [problem |-> p, kind |-> k])
      /\ \A n \in 1..Len(log) : log'[n] = log[n]
      /\ log'[Len(log) + 1].problem = p
  <2>1. /\ log \in Seq([problem : Problems, kind : Kinds])
        /\ [problem |-> p, kind |-> k] \in [problem : Problems, kind : Kinds]
    BY DEF RingsInv, IInv, TypeOK
  <2>2. log' = Append(log, [problem |-> p, kind |-> k])
    BY DEF Publish
  <2> QED
    BY <2>1, <2>2, LenProperties, AppendProperties
<1>3. \A q \in Problems : RingInv(q)' 
  BY PublishRings DEF RingsInv
<1> SUFFICES ASSUME NEW q \in Problems, buffers'[q] # <<>>
             PROVE  /\ Len(buffers'[q]) <= BufferSize
                    /\ \A n \in buffers'[q][1]..Len(log') :
                         log'[n].problem = q => \E i \in 1..Len(buffers'[q]) : buffers'[q][i] = n
  BY <1>3 DEF RingIsLatest, RingInv, Ordered
<1>4. /\ buffers[q] \in Seq(Nat)
      /\ RingInv(q)
      /\ buffers[q] # <<>> =>
           /\ Len(buffers[q]) <= BufferSize
           /\ \A n \in buffers[q][1]..Len(log) :
                log[n].problem = q => \E i \in 1..Len(buffers[q]) : buffers[q][i] = n
  BY DEF RingsInv, IInv, TypeOK, RingIsLatest
<1>5. /\ Len(buffers[q]) \in Nat
      /\ buffers[q] # <<>> => Len(buffers[q]) \in Nat \ {0}
      /\ buffers[q] = <<>> => Len(buffers[q]) = 0
      /\ \A i \in 1..Len(buffers[q]) : buffers[q][i] \in 1..Len(log)
  BY <1>4, LenProperties, EmptySeq DEF RingInv, OfTopic
<1>6. BufferSize \in Nat \ {0}
  BY ConstantsAssumption
<1>7. CASE q # p
  <2>1. buffers'[q] = buffers[q] /\ buffers[q] # <<>>
    BY <1>1, <1>7
  <2>2. buffers[q][1] \in 1..Len(log)
    BY <1>5, <2>1
  <2>3. ASSUME NEW n \in buffers[q][1]..Len(log'), log'[n].problem = q
        PROVE  \E i \in 1..Len(buffers[q]) : buffers[q][i] = n
    <3>1. n # Len(log) + 1
      BY <1>2, <1>7, <2>3
    <3>2. n \in buffers[q][1]..Len(log) /\ n \in 1..Len(log)
      BY <1>2, <2>2, <3>1
    <3>3. log[n].problem = q
      BY <1>2, <2>3, <3>2
    <3> QED
      BY <1>4, <2>1, <3>2, <3>3
  <2> QED
    BY <1>4, <2>1, <2>3
<1>8. CASE q = p
  <2> DEFINE r == RingAppend(buffers[q], e)
             d == IF Len(buffers[q]) < BufferSize THEN 0 ELSE 1
  <2>1. buffers'[q] = r
    BY <1>1, <1>8
  <2>2. /\ r \in Seq(Nat)
        /\ Len(r) = Len(buffers[q]) + 1 - d
        /\ r[Len(r)] = e
        /\ \A i \in 1..(Len(r) - 1) : i + d \in 1..Len(buffers[q]) /\ r[i] = buffers[q][i + d]
    <3>1. e \in Nat
      BY <1>2
    <3> HIDE DEF e
    <3> QED
      BY <1>4, <3>1, RingAppendProperties
  <2>3. /\ d = 0 => Len(buffers[q]) < BufferSize
        /\ d = 1 => Len(buffers[q]) >= BufferSize
        /\ d \in {0, 1}
    BY <1>5, <1>6
  <2> HIDE DEF r, d
  <2>4. Len(r) <= BufferSize /\ Len(r) \in Nat \ {0}
    <3>1. Len(buffers[q]) <= BufferSize
      BY <1>4, <1>5, <1>6
    <3> QED
      BY <1>5, <1>6, <2>2, <2>3, <3>1
  <2>5. ASSUME NEW n \in r[1]..Len(log'), log'[n].problem = q
        PROVE  \E i \in 1..Len(r) : r[i] = n
    <3>1. CASE n = e
      <4>1. Len(r) \in 1..Len(r)
        BY <2>4
      <4> QED
        BY <2>2, <3>1, <4>1
    <3>2. CASE n # e
      <4>1. Len(r) - 1 \in Nat \ {0}
        <5>1. CASE Len(r) = 1
          <6>1. r[1] = e /\ n \in e..(Len(log) + 1)
            BY <1>2, <2>2, <2>5, <5>1
          <6> QED
            BY <1>2, <3>2, <6>1
        <5> QED
          BY <2>4, <5>1
      <4>2. /\ 1 + d \in 1..Len(buffers[q])
            /\ r[1] = buffers[q][1 + d]
        BY <2>2, <4>1
      <4>3. buffers[q][1] <= buffers[q][1 + d] /\ buffers[q][1] \in 1..Len(log)
            /\ buffers[q][1 + d] \in 1..Len(log)
        <5>1. 1 \in 1..Len(buffers[q])
          BY <1>5, <4>2
        <5>2. CASE d = 0
          BY <1>5, <5>1, <5>2
        <5>3. CASE d = 1
          <6>1. buffers[q][1] < buffers[q][1 + d]
            BY <1>4, <4>2, <5>1, <5>3 DEF RingInv, Ordered
          <6> QED
            BY <1>5, <4>2, <5>1, <6>1
        <5> QED
          BY <2>3, <5>2, <5>3
      <4>4. n \in buffers[q][1]..Len(log) /\ n \in 1..Len(log) /\ n >= buffers[q][1 + d]
        BY <1>2, <3>2, <4>2, <4>3
      <4>5. buffers[q] # <<>> /\ log[n].problem = q
        BY <1>2, <1>5, <2>5, <4>2, <4>4
      <4>6. PICK i \in 1..Len(buffers[q]) : buffers[q][i] = n
        BY <1>4, <4>4, <4>5
      <4>7. i >= 1 + d
        <5> SUFFICES ASSUME i < 1 + d PROVE FALSE
          BY <2>3
        <5>1. buffers[q][i] < buffers[q][1 + d]
          BY <1>4, <4>2 DEF RingInv, Ordered
        <5> QED
          BY <4>3, <4>4, <4>6, <5>1
      <4>8. i - d \in 1..(Len(r) - 1) /\ (i - d) + d = i
        BY <1>5, <2>2, <2>3, <4>7
      <4>9. r[i - d] = n
        BY <2>2, <4>6, <4>8
      <4>10. i - d \in 1..Len(r)
        BY <2>4, <4>8
      <4> QED
        BY <4>9, <4>10
    <3> QED
      BY <3>1, <3>2
  <2> QED
    BY <2>1, <2>4, <2>5
<1> QED
  BY <1>7, <1>8

-----------------------------------------------------------------------------
(* The theorems. *)

\* The rings are in order at first, as there are none.
LEMMA InitRings == Init => RingsInv
<1> SUFFICES ASSUME Init PROVE RingsInv
  OBVIOUS
<1>1. IInv
  BY InitInv
<1>2. buffers = [p \in Problems |-> <<>>] /\ order = <<>> /\ completed = {}
  BY DEF Init
<1>3. RingIsLatest
  BY <1>2 DEF RingIsLatest
<1>4. TrackedByRecency
  BY <1>2, ConstantsAssumption DEF TrackedByRecency, Contains
<1> QED
  BY <1>1, <1>3, <1>4 DEF RingsInv

\* Only a publication touches what the two properties speak of.
LEMMA NextRings == RingsInv /\ [Next]_vars => RingsInv'
<1> SUFFICES ASSUME RingsInv, [Next]_vars PROVE RingsInv'
  OBVIOUS
<1>1. IInv'
  BY NextInv DEF RingsInv
<1>2. ASSUME NEW p \in Problems, NEW k \in Kinds, Publish(p, k)
      PROVE  RingIsLatest' /\ TrackedByRecency'
  BY <1>2, PublishKeepsLatest, PublishKeepsRecency
<1>3. CASE UNCHANGED <<bus, log>>
  <2>1. buffers' = buffers /\ order' = order /\ completed' = completed /\ log' = log
    BY <1>3 DEF bus
  <2>2. RingIsLatest'
    BY <2>1 DEF RingsInv, RingIsLatest
  <2>3. TrackedByRecency'
    BY <2>1 DEF RingsInv, TrackedByRecency
  <2> QED
    BY <1>1, <2>2, <2>3 DEF RingsInv
<1>4. CASE \E p \in Problems, k \in Kinds : Publish(p, k)
  BY <1>1, <1>2, <1>4 DEF RingsInv
<1>5. ASSUME NEW p \in Problems, Close(p) PROVE UNCHANGED <<bus, log>>
  BY <1>5 DEF Close
<1>6. ASSUME NEW s \in Subscribers, StreamStep(s) \/ Disconnect(s)
      PROVE  UNCHANGED <<bus, log>>
  BY <1>6 DEF StreamStep, Subscribe, ReplayNext, FinishReplay, TakeSentinel, TakeEvent,
              Resume, Disconnect
<1>7. CASE UNCHANGED vars
  BY <1>3, <1>7 DEF vars
<1> QED
  BY <1>3, <1>4, <1>5, <1>6, <1>7 DEF Next

\* _buffer_event: a ring is bounded and in order, ends in the last event of its
\* problem and has no hole, whatever is published, evicted and read meanwhile.
THEOREM RingsAreLatest == Spec => []RingIsLatest
<1>1. RingsInv => RingIsLatest
  BY DEF RingsInv
<1> QED
  BY <1>1, InitRings, NextRings, PTL DEF Spec

\* _buffer_event and its LRU cap: the problems with a ring are the most
\* recently published ones, and only they are marked complete.
THEOREM EvictionIsByRecency == Spec => []TrackedByRecency
<1>1. RingsInv => TrackedByRecency
  BY DEF RingsInv
<1> QED
  BY <1>1, InitRings, NextRings, PTL DEF Spec

-----------------------------------------------------------------------------
(* What a late viewer replays. *)

\* The ring of p, when it is kept, is marked complete and ends in an answer.
Answered(p) ==
  buffers[p] # <<>> => p \in completed /\ log[Last(buffers[p])].kind \in TerminalKinds

\* A problem stays answered until a later run of it fails; while such a run is
\* under way nothing is said, and between its brief and its close the brief is
\* in the ring.
RunsInv ==
  /\ RingsInv
  /\ \A p \in Problems : outcome[p] = "answered" /\ running # p => Answered(p)
  /\ \A p \in Problems : running = p /\ stage = "closing" => Answered(p)
  /\ outcome = [p \in Problems |-> outcome[p]]

\* No problem is answered at first.
LEMMA InitRuns == StreamInit => RunsInv
<1> SUFFICES ASSUME StreamInit PROVE RunsInv
  OBVIOUS
<1>1. RingsInv
  BY InitRings DEF StreamInit
<1>2. buffers = [p \in Problems |-> <<>>] /\ outcome = [p \in Problems |-> "none"]
  BY DEF StreamInit, Init
<1> QED
  BY <1>1, <1>2 DEF RunsInv, Answered

\* A publication evicts the ring of another problem or leaves it as it is.
LEMMA OthersStayAnswered ==
  ASSUME RingsInv, NEW p \in Problems, NEW k \in Kinds, Publish(p, k),
         NEW q \in Problems, q # p, Answered(q)
  PROVE  Answered(q)'
<1> SUFFICES ASSUME buffers'[q] # <<>>
             PROVE  q \in completed' /\ log'[Last(buffers'[q])].kind \in TerminalKinds
  BY DEF Answered
<1>1. /\ q \notin Overflow(Touch(p))
      /\ buffers'[q] = buffers[q]
      /\ completed' = (completed \cup (IF k \in TerminalKinds THEN {p} ELSE {}))
                        \ Overflow(Touch(p))
  BY PublishedRings
<1>2. buffers[q] # <<>>
  BY <1>1
<1>3. Last(buffers[q]) \in 1..Len(log)
  BY <1>2, EndsOfRings
<1>4. \A n \in 1..Len(log) : log'[n] = log[n]
  <2>1. /\ log \in Seq([problem : Problems, kind : Kinds])
        /\ [problem |-> p, kind |-> k] \in [problem : Problems, kind : Kinds]
    BY DEF RingsInv, IInv, TypeOK
  <2>2. log' = Append(log, [problem |-> p, kind |-> k])
    BY DEF Publish
  <2> QED
    BY <2>1, <2>2, AppendProperties
<1>5. Last(buffers'[q]) = Last(buffers[q])
  BY <1>1
<1> QED
  BY <1>1, <1>2, <1>3, <1>4, <1>5 DEF Answered

\* Publishing the answer makes the problem answered.
LEMMA BriefMakesAnswered ==
  ASSUME RingsInv, NEW p \in Problems, NEW k \in TerminalKinds, Publish(p, k)
  PROVE  Answered(p)'
<1>1. k \in Kinds
  BY ConstantsAssumption
<1>2. p \in completed'
  BY <1>1, PublishedRings
<1>3. Last(buffers'[p]) = Len(log) + 1
  BY <1>1, EndOfPublishedRing
<1>4. log'[Len(log) + 1] = [problem |-> p, kind |-> k]
  <2>1. /\ log \in Seq([problem : Problems, kind : Kinds])
        /\ [problem |-> p, kind |-> k] \in [problem : Problems, kind : Kinds]
    BY <1>1 DEF RingsInv, IInv, TypeOK
  <2>2. log' = Append(log, [problem |-> p, kind |-> k])
    BY DEF Publish
  <2> QED
    BY <2>1, <2>2, AppendProperties
<1>5. log'[Last(buffers'[p])].kind = k
  BY <1>3, <1>4
<1> QED
  BY <1>2, <1>5 DEF Answered

\* The runs and the loop only take steps of the bus.
LEMMA StreamStepsAreBusSteps ==
  ASSUME [StreamNext]_streamVars
  PROVE  [Next]_vars
<1>1. CASE UNCHANGED streamVars
  BY <1>1 DEF streamVars
<1>2. ASSUME NEW p \in Problems, BeginRun(p) \/ RunStep(p) PROVE [Next]_vars
  <2>1. CASE BeginRun(p)
    BY <2>1, StreamAssumption DEF BeginRun, Next
  <2>2. CASE ReportRun(p)
    BY <2>2, StreamAssumption DEF ReportRun, Next
  <2>3. CASE FailRun(p)
    BY <2>3 DEF FailRun
  <2>4. CASE AnswerRun(p)
    BY <2>4, StreamAssumption, ConstantsAssumption DEF AnswerRun, Next
  <2>5. CASE CloseRun(p)
    BY <2>5 DEF CloseRun, Next
  <2> QED
    BY <1>2, <2>1, <2>2, <2>3, <2>4, <2>5 DEF RunStep
<1>3. ASSUME NEW s \in Subscribers, ServeStream(s) \/ DropStream(s) PROVE [Next]_vars
  BY <1>3 DEF ServeStream, DropStream, Next
<1> QED
  BY <1>1, <1>2, <1>3 DEF StreamNext

\* Every step keeps the answered problems answered.
LEMMA NextRuns == RunsInv /\ [StreamNext]_streamVars => RunsInv'
<1> SUFFICES ASSUME RunsInv, [StreamNext]_streamVars PROVE RunsInv'
  OBVIOUS
<1>1. RingsInv'
  BY StreamStepsAreBusSteps, NextRings DEF RunsInv
<1>2. ASSUME UNCHANGED <<buffers, completed, log>>, NEW q \in Problems, Answered(q)
      PROVE  Answered(q)'
  BY <1>2 DEF Answered
<1>3. CASE UNCHANGED <<buffers, completed, log, running, stage, outcome>>
  BY <1>1, <1>2, <1>3 DEF RunsInv
<1>4. ASSUME NEW p \in Problems, BeginRun(p) PROVE RunsInv'
  <2>1. /\ Publish(p, "orchestrator-started") /\ "orchestrator-started" \in Kinds
        /\ running = NoRun /\ NoRun \notin Problems
        /\ running' = p /\ stage' = "investigating" /\ outcome' = outcome
    BY <1>4, StreamAssumption DEF BeginRun
  <2>2. \A q \in Problems : q # p /\ Answered(q) => Answered(q)'
    BY <2>1, OthersStayAnswered DEF RunsInv
  <2> QED
    BY <1>1, <2>1, <2>2 DEF RunsInv
<1>5. ASSUME NEW p \in Problems, ReportRun(p) PROVE RunsInv'
  <2>1. /\ Publish(p, "specialist-completed") /\ "specialist-completed" \in Kinds
        /\ running = p /\ running' = running /\ stage' = "composing" /\ outcome' = outcome
    BY <1>5, StreamAssumption DEF ReportRun
  <2>2. \A q \in Problems : q # p /\ Answered(q) => Answered(q)'
    BY <2>1, OthersStayAnswered DEF RunsInv
  <2> QED
    BY <1>1, <2>1, <2>2 DEF RunsInv
<1>6. ASSUME NEW p \in Problems, FailRun(p) PROVE RunsInv'
  <2>1. /\ running = p /\ running' = NoRun /\ stage' = "idle"
        /\ outcome' = [outcome EXCEPT ![p] = "failed"]
        /\ UNCHANGED <<buffers, completed, log>>
    BY <1>6 DEF FailRun, vars, bus
  <2>2. \A q \in Problems : outcome'[q] = IF q = p THEN "failed" ELSE outcome[q]
    BY <2>1 DEF RunsInv
  <2>3. outcome' = [q \in Problems |-> outcome'[q]]
    BY <2>1 DEF RunsInv
  <2> QED
    BY <1>1, <1>2, <2>1, <2>2, <2>3 DEF RunsInv
<1>7. ASSUME NEW p \in Problems, AnswerRun(p) PROVE RunsInv'
  <2>1. /\ Publish(p, "brief-ready") /\ "brief-ready" \in TerminalKinds
        /\ "brief-ready" \in Kinds
        /\ running = p /\ running' = running /\ stage' = "closing" /\ outcome' = outcome
    BY <1>7, StreamAssumption, ConstantsAssumption DEF AnswerRun
  <2>2. \A q \in Problems : q # p /\ Answered(q) => Answered(q)'
    BY <2>1, OthersStayAnswered DEF RunsInv
  <2>3. Answered(p)'
    BY <2>1, BriefMakesAnswered DEF RunsInv
  <2> QED
    BY <1>1, <2>1, <2>2, <2>3 DEF RunsInv
<1>8. ASSUME NEW p \in Problems, CloseRun(p) PROVE RunsInv'
  <2>1. /\ running = p /\ running' = NoRun /\ stage = "closing" /\ stage' = "idle"
        /\ outcome' = [outcome EXCEPT ![p] = "answered"]
        /\ UNCHANGED <<buffers, completed, log>>
        /\ NoRun \notin Problems
    BY <1>8, StreamAssumption DEF CloseRun, Close, bus
  <2>2. \A q \in Problems : q # p => outcome'[q] = outcome[q]
    BY <2>1 DEF RunsInv
  <2>3. outcome' = [q \in Problems |-> outcome'[q]]
    BY <2>1 DEF RunsInv
  <2> QED
    BY <1>1, <1>2, <2>1, <2>2, <2>3 DEF RunsInv
<1>9. ASSUME NEW s \in Subscribers, ServeStream(s) \/ DropStream(s)
      PROVE  UNCHANGED <<buffers, completed, log, running, stage, outcome>>
  <2>1. StreamStep(s) \/ Disconnect(s)
    BY <1>9 DEF ServeStream, DropStream
  <2>2. UNCHANGED <<bus, log>>
    BY <2>1 DEF StreamStep, Subscribe, ReplayNext, FinishReplay, TakeSentinel, TakeEvent,
                Resume, Disconnect
  <2> QED
    BY <1>9, <2>2 DEF ServeStream, DropStream, bus
<1>10. CASE UNCHANGED streamVars
  BY <1>3, <1>10 DEF streamVars, vars, bus
<1> QED
  BY <1>3, <1>4, <1>5, <1>6, <1>7, <1>8, <1>9, <1>10 DEF StreamNext, RunStep

\* The inductive invariant of the runs over the bus.
THEOREM RunsInvariantHolds == StreamSpec => []RunsInv
BY InitRuns, NextRuns, PTL DEF StreamSpec

\* _emit_brief_ready_and_close, _buffer_event and subscribe: a late viewer of an
\* answered problem replays a ring that is marked complete and ends in the
\* answer, unless the ring was evicted or a later run of the problem failed.
THEOREM LateViewersFindTheAnswer == StreamSpec => []AnsweredRingIsTerminal
<1>1. RunsInv => AnsweredRingIsTerminal
  <2> SUFFICES ASSUME RunsInv, NEW p \in Problems, running = NoRun,
                      outcome[p] = "answered", buffers[p] # <<>>
               PROVE  p \in completed /\ log[Last(buffers[p])].kind \in TerminalKinds
    BY DEF AnsweredRingIsTerminal
  <2>1. running # p
    BY StreamAssumption
  <2> QED
    BY <2>1 DEF RunsInv, Answered
<1> QED
  BY <1>1, RunsInvariantHolds, PTL

-----------------------------------------------------------------------------
(* What a viewer has seen when its stream ends. *)

\* Position n of the history l is an answer; the sentinel of a queue is not.
IsAnswerIn(l, n) == n \in 1..Len(l) /\ l[n].kind \in TerminalKinds

\* The positions q hold an answer.
HoldsAnswer(l, q) == \E i \in 1..Len(q) : IsAnswerIn(l, q[i])

\* No sentinel in the queue q comes before an answer: one was yielded, in r, or
\* is ahead of it in the queue.
EndsAnswered(l, r, q) ==
  \A j \in 1..Len(q) : q[j] = None =>
    HoldsAnswer(l, r) \/ \E h \in 1..(j - 1) : IsAnswerIn(l, q[h])

\* The events of a problem, and whether a ring has room for all of them: then
\* none can have fallen out of it.
EventsOf(l, p) == {n \in 1..Len(l) : l[n].problem = p}
Fits(p)        == Cardinality(EventsOf(log, p)) <= BufferSize

\* As long as they fit, a mark stands for an answer in the ring, and what was
\* replayed under a mark had it.
MarksHoldAnswers == \A p \in completed : Fits(p) => HoldsAnswer(log, buffers[p])

ReplaysHoldAnswers(s) ==
  Fits(TopicOf[s]) =>
    /\ phase[s] = "replaying" /\ alreadyComplete[s] =>
         HoldsAnswer(log, received[s]) \/ HoldsAnswer(log, replay[s])
    /\ phase[s] = "done" => HoldsAnswer(log, received[s])

\* A stream that is suspended in a live yield has yielded something.
HasYielded(s) == phase[s] = "delivering" => received[s] # <<>>

\* The streams of a problem that is about to be closed have its answer.
ClosesAreAnswered ==
  \A s \in subscribers : running = TopicOf[s] /\ stage = "closing" =>
    HoldsAnswer(log, received[s]) \/ HoldsAnswer(log, queue[s])

ViewersInv ==
  /\ MarksHoldAnswers
  /\ \A s \in Subscribers : ReplaysHoldAnswers(s) /\ HasYielded(s)
  /\ \A s \in subscribers : EndsAnswered(log, received[s], queue[s])
  /\ ClosesAreAnswered

\* A longer history and a longer queue hold the answers they held.
LEMMA AnswersStay ==
  ASSUME NEW q \in Seq(Nat), NEW e \in Nat, NEW l
  PROVE  /\ HoldsAnswer(l, q) => HoldsAnswer(l, Append(q, e))
         /\ IsAnswerIn(l, e) => HoldsAnswer(l, Append(q, e))
<1>1. /\ Len(q) \in Nat /\ Len(Append(q, e)) = Len(q) + 1
      /\ \A i \in 1..Len(q) : Append(q, e)[i] = q[i]
      /\ Append(q, e)[Len(q) + 1] = e
  BY AppendProperties
<1> DEFINE a == Append(q, e)
<1> HIDE DEF a
<1>2. /\ \A i \in 1..Len(q) : i \in 1..Len(a) /\ a[i] = q[i]
      /\ Len(q) + 1 \in 1..Len(a) /\ a[Len(q) + 1] = e
  BY <1>1 DEF a
<1>3. /\ HoldsAnswer(l, q) => HoldsAnswer(l, a)
      /\ IsAnswerIn(l, e) => HoldsAnswer(l, a)
  BY <1>2 DEF HoldsAnswer
<1> QED
  BY <1>3 DEF a

\* An answer in a queue is its head or in the rest.
LEMMA AnswersMove ==
  ASSUME NEW q \in Seq(Nat), q # <<>>, NEW l, HoldsAnswer(l, q)
  PROVE  IsAnswerIn(l, Head(q)) \/ HoldsAnswer(l, Tail(q))
<1>1. PICK i \in 1..Len(q) : IsAnswerIn(l, q[i])
  BY DEF HoldsAnswer
<1>2. /\ Head(q) = q[1] /\ Len(q) \in Nat \ {0} /\ Len(Tail(q)) = Len(q) - 1
      /\ \A j \in 1..Len(Tail(q)) : Tail(q)[j] = q[j + 1]
  BY HeadTailNat
<1>3. CASE i = 1
  BY <1>1, <1>2, <1>3
<1>4. CASE i # 1
  <2>1. i - 1 \in 1..Len(Tail(q)) /\ (i - 1) + 1 = i
    BY <1>2, <1>4
  <2>2. Tail(q)[i - 1] = q[i]
    BY <1>2, <2>1
  <2> QED
    BY <1>1, <2>1, <2>2 DEF HoldsAnswer
<1> QED
  BY <1>3, <1>4

\* Behind an answer, or when it is none itself, an item may join the queue.
LEMMA QueueingKeepsAnswered ==
  ASSUME NEW q \in Seq(Nat), NEW e \in Nat, NEW l, NEW r, EndsAnswered(l, r, q),
         e # None \/ HoldsAnswer(l, r) \/ HoldsAnswer(l, q)
  PROVE  EndsAnswered(l, r, Append(q, e))
<1> DEFINE a == Append(q, e)
<1>1. /\ Len(q) \in Nat /\ Len(a) = Len(q) + 1
      /\ \A i \in 1..Len(q) : a[i] = q[i]
      /\ a[Len(q) + 1] = e
  BY AppendProperties
<1> HIDE DEF a
<1>2. ASSUME NEW j \in 1..Len(a), a[j] = None
      PROVE  HoldsAnswer(l, r) \/ \E h \in 1..(j - 1) : IsAnswerIn(l, a[h])
  <2>1. CASE j \in 1..Len(q)
    <3>1. \A h \in 1..(j - 1) : a[h] = q[h]
      BY <1>1, <2>1
    <3>2. q[j] = None
      BY <1>1, <1>2, <2>1
    <3> QED
      BY <2>1, <3>1, <3>2 DEF EndsAnswered
  <2>2. CASE j = Len(q) + 1
    <3>1. HoldsAnswer(l, r) \/ HoldsAnswer(l, q)
      BY <1>1, <1>2, <2>2
    <3>2. CASE HoldsAnswer(l, q)
      <4>1. PICK i \in 1..Len(q) : IsAnswerIn(l, q[i])
        BY <3>2 DEF HoldsAnswer
      <4>2. i \in 1..(j - 1) /\ a[i] = q[i]
        BY <1>1, <2>2
      <4> QED
        BY <4>1, <4>2
    <3> QED
      BY <3>1, <3>2
  <2> QED
    BY <1>1, <2>1, <2>2
<1>3. EndsAnswered(l, r, a)
  BY <1>2 DEF EndsAnswered
<1> QED
  BY <1>3 DEF a

\* An event that is taken from the queue is yielded.
LEMMA TakingKeepsAnswered ==
  ASSUME NEW q \in Seq(Nat), q # <<>>, NEW l, NEW r \in Seq(Nat), EndsAnswered(l, r, q)
  PROVE  /\ Head(q) = None => HoldsAnswer(l, r)
         /\ EndsAnswered(l, Append(r, Head(q)), Tail(q))
<1>1. /\ Head(q) = q[1] /\ Head(q) \in Nat /\ Len(q) \in Nat \ {0}
      /\ Len(Tail(q)) = Len(q) - 1
      /\ \A j \in 1..Len(Tail(q)) : Tail(q)[j] = q[j + 1]
  BY HeadTailNat
<1>2. Head(q) = None => HoldsAnswer(l, r)
  <2>1. 1 \in 1..Len(q) /\ 1..(1 - 1) = {}
    BY <1>1
  <2> QED
    BY <1>1, <2>1 DEF EndsAnswered
<1> DEFINE a == Append(r, Head(q))
<1>3. /\ HoldsAnswer(l, r) => HoldsAnswer(l, a)
      /\ IsAnswerIn(l, Head(q)) => HoldsAnswer(l, a)
  BY <1>1, AnswersStay
<1> HIDE DEF a
<1>4. ASSUME NEW j \in 1..Len(Tail(q)), Tail(q)[j] = None
      PROVE  HoldsAnswer(l, a) \/ \E h \in 1..(j - 1) : IsAnswerIn(l, Tail(q)[h])
  <2>1. j + 1 \in 1..Len(q) /\ q[j + 1] = None
    BY <1>1, <1>4
  <2>2. HoldsAnswer(l, r) \/ \E h \in 1..((j + 1) - 1) : IsAnswerIn(l, q[h])
    BY <2>1 DEF EndsAnswered
  <2>3. ASSUME NEW h \in 1..((j + 1) - 1), IsAnswerIn(l, q[h])
        PROVE  HoldsAnswer(l, a) \/ \E i \in 1..(j - 1) : IsAnswerIn(l, Tail(q)[i])
    <3>1. CASE h = 1
      BY <1>1, <1>3, <2>3, <3>1
    <3>2. CASE h # 1
      <4>1. h - 1 \in 1..(j - 1) /\ h - 1 \in 1..Len(Tail(q)) /\ (h - 1) + 1 = h
        BY <1>1, <3>2
      <4>2. Tail(q)[h - 1] = q[h]
        BY <1>1, <4>1
      <4> QED
        BY <2>3, <4>1, <4>2
    <3> QED
      BY <3>1, <3>2
  <2> QED
    BY <1>3, <2>2, <2>3
<1>5. EndsAnswered(l, a, Tail(q))
  BY <1>4 DEF EndsAnswered
<1> QED
  BY <1>2, <1>5 DEF a

\* A publication adds to the history: what was an answer is one, and the new
\* event is when its kind is terminal.
LEMMA PublishedHistory ==
  ASSUME TypeOK, NEW p \in Problems, NEW k \in Kinds, Publish(p, k)
  PROVE  /\ Len(log) \in Nat /\ Len(log') = Len(log) + 1
         /\ \A n : IsAnswerIn(log, n) => IsAnswerIn(log', n)
         /\ k \in TerminalKinds => IsAnswerIn(log', Len(log) + 1)
<1> DEFINE e == [problem |-> p, kind |-> k]
<1>1. /\ log \in Seq([problem : Problems, kind : Kinds])
      /\ e \in [problem : Problems, kind : Kinds]
      /\ log' = Append(log, e)
  BY DEF TypeOK, Publish
<1>2. /\ Len(log') = Len(log) + 1
      /\ \A i \in 1..Len(log) : log'[i] = log[i]
      /\ log'[Len(log) + 1] = e
  BY <1>1, AppendProperties
<1>3. Len(log) \in Nat
  BY <1>1, LenProperties
<1>4. e.kind = k
  OBVIOUS
<1> HIDE DEF e
<1>5. \A i \in 1..Len(log) : i \in 1..Len(log')
  BY <1>2, <1>3
<1>6. Len(log) + 1 \in 1..Len(log')
  BY <1>2, <1>3
<1> QED
  BY <1>2, <1>3, <1>4, <1>5, <1>6 DEF IsAnswerIn

\* A publication adds one to the events of its problem.
LEMMA PublishedEvents ==
  ASSUME TypeOK, NEW p \in Problems, NEW k \in Kinds, Publish(p, k), NEW q \in Problems
  PROVE  /\ Cardinality(EventsOf(log, q)) \in Nat
         /\ Cardinality(EventsOf(log', q))
              = Cardinality(EventsOf(log, q)) + (IF q = p THEN 1 ELSE 0)
<1> DEFINE e == [problem |-> p, kind |-> k]
<1>1. /\ log \in Seq([problem : Problems, kind : Kinds])
      /\ e \in [problem : Problems, kind : Kinds]
      /\ log' = Append(log, e) /\ e.problem = p
  BY DEF TypeOK, Publish
<1> HIDE DEF e
<1>2. /\ Len(log') = Len(log) + 1
      /\ \A i \in 1..Len(log) : log'[i] = log[i]
      /\ log'[Len(log) + 1].problem = p
  BY <1>1, AppendProperties
<1>3. Len(log) \in Nat
  BY <1>1, LenProperties
<1>4. IsFiniteSet(EventsOf(log, q))
  <2>1. IsFiniteSet(1..Len(log)) /\ EventsOf(log, q) \subseteq 1..Len(log)
    BY <1>3, FS_Interval DEF EventsOf
  <2> QED
    BY <2>1, FS_Subset
<1>5. \A i \in 1..Len(log') : i \in 1..Len(log) \/ i = Len(log) + 1
  BY <1>2, <1>3
<1>6. /\ Len(log) + 1 \in 1..Len(log') /\ \A i \in 1..Len(log) : i \in 1..Len(log')
      /\ Len(log) + 1 \notin 1..Len(log)
  BY <1>2, <1>3
<1>7. EventsOf(log', q) = IF q = p THEN EventsOf(log, q) \cup {Len(log) + 1}
                                   ELSE EventsOf(log, q)
  BY <1>2, <1>5, <1>6 DEF EventsOf
<1>8. Len(log) + 1 \notin EventsOf(log, q)
  BY <1>6 DEF EventsOf
<1>9. Cardinality(EventsOf(log, q)) \in Nat
  BY <1>4, FS_CardinalityType
<1>10. Cardinality(EventsOf(log, q) \cup {Len(log) + 1}) = Cardinality(EventsOf(log, q)) + 1
  BY <1>4, <1>8, FS_AddElement
<1> QED
  BY <1>7, <1>9, <1>10

\* A ring holds no more events than its problem has.
LEMMA RingsFitTheHistory ==
  ASSUME IInv, NEW p \in Problems
  PROVE  Len(buffers[p]) \in Nat /\ Len(buffers[p]) <= Cardinality(EventsOf(log, p))
<1> DEFINE ring == buffers[p]
           events == EventsOf(log, p)
<1>1. /\ ring \in Seq(Nat) /\ Len(ring) \in Nat /\ Len(log) \in Nat
      /\ RingInv(p)
  BY LenProperties DEF IInv, TypeOK
<1>2. /\ \A i \in 1..Len(ring) : ring[i] \in events
      /\ \A i \in 1..Len(ring) : ring[i] \in Nat
      /\ \A i, j \in 1..Len(ring) : i < j => ring[i] < ring[j]
  BY <1>1 DEF RingInv, OfTopic, Ordered, EventsOf
<1>3. IsFiniteSet(events)
  <2>1. IsFiniteSet(1..Len(log)) /\ events \subseteq 1..Len(log)
    BY <1>1, FS_Interval DEF EventsOf
  <2> QED
    BY <2>1, FS_Subset
<1> HIDE DEF ring, events
<1> DEFINE f == [i \in 1..Len(ring) |-> ring[i]]
<1>4. f \in Injection(1..Len(ring), events)
  <2>1. f \in [1..Len(ring) -> events]
    BY <1>2
  <2>2. ASSUME NEW i \in 1..Len(ring), NEW j \in 1..Len(ring), i # j
        PROVE  f[i] # f[j]
    <3>1. i < j \/ j < i
      BY <1>1, <2>2
    <3> QED
      BY <1>2, <3>1
  <2> HIDE DEF f
  <2> QED
    BY <2>1, <2>2 DEF Injection, IsInjective
<1>5. Cardinality(1..Len(ring)) = Len(ring)
  <2>1. ASSUME NEW n \in Nat
        PROVE  Cardinality(1..n) = n
    BY FS_Interval
  <2> QED
    BY <1>1, <2>1
<1> HIDE DEF f
<1>6. Cardinality(1..Len(ring)) <= Cardinality(events)
  BY <1>3, <1>4, FS_Injection
<1>7. Len(ring) \in Nat /\ Len(ring) <= Cardinality(events)
  BY <1>1, <1>5, <1>6
<1> QED
  BY <1>7 DEF ring, events

\* Until a ring can be full a publication drops nothing, so a mark goes on
\* standing for an answer in the ring.
LEMMA PublishKeepsMarks ==
  ASSUME RingsInv, MarksHoldAnswers, NEW p \in Problems, NEW k \in Kinds, Publish(p, k)
  PROVE  MarksHoldAnswers'
<1>1. /\ Len(log) \in Nat
      /\ \A n : IsAnswerIn(log, n) => IsAnswerIn(log', n)
      /\ k \in TerminalKinds => IsAnswerIn(log', Len(log) + 1)
  BY PublishedHistory DEF RingsInv, IInv
<1> SUFFICES ASSUME NEW q \in completed', Cardinality(EventsOf(log', q)) <= BufferSize
             PROVE  HoldsAnswer(log', buffers'[q])
  BY DEF MarksHoldAnswers, Fits
<1>2. BufferSize \in Nat
  BY ConstantsAssumption
<1>3. /\ q \in completed \/ (q = p /\ k \in TerminalKinds)
      /\ q \notin Overflow(Touch(p)) /\ q \in Problems
  <2>1. completed \subseteq Problems
    BY DEF RingsInv, IInv, TypeOK
  <2> QED
    BY <2>1, PublishedRings
<1>4. /\ Cardinality(EventsOf(log, q)) \in Nat
      /\ Cardinality(EventsOf(log', q))
           = Cardinality(EventsOf(log, q)) + (IF q = p THEN 1 ELSE 0)
  BY <1>3, PublishedEvents DEF RingsInv, IInv
<1>5. Cardinality(EventsOf(log, q)) <= BufferSize
  BY <1>2, <1>4
<1>6. q \in completed => HoldsAnswer(log, buffers[q])
  BY <1>5 DEF MarksHoldAnswers, Fits
<1>7. CASE q # p
  <2>1. buffers'[q] = buffers[q] /\ HoldsAnswer(log, buffers[q])
    BY <1>3, <1>6, <1>7, PublishedRings
  <2> QED
    BY <1>1, <2>1 DEF HoldsAnswer
<1>8. CASE q = p
  <2>1. buffers[p] \in Seq(Nat)
    BY DEF RingsInv, IInv, TypeOK
  <2>2. Len(buffers[p]) \in Nat /\ Len(buffers[p]) <= Cardinality(EventsOf(log, q))
    BY <1>8, RingsFitTheHistory DEF RingsInv
  <2>3. Len(buffers[p]) < BufferSize
    BY <1>2, <1>4, <1>8, <2>2
  <2>4. buffers'[p] = Append(buffers[p], Len(log) + 1)
    BY <2>3, PublishedRings DEF RingAppend
  <2>5. Len(log) + 1 \in Nat
    BY <1>1
  <2>6. \/ HoldsAnswer(log', buffers[p])
        \/ IsAnswerIn(log', Len(log) + 1)
    BY <1>1, <1>3, <1>6, <1>8 DEF HoldsAnswer
  <2> QED
    BY <1>8, <2>1, <2>4, <2>5, <2>6, AnswersStay
<1> QED
  BY <1>7, <1>8

\* A publication puts the new event in the queues of its problem, and takes
\* nothing from anybody.
LEMMA PublishKeepsViewers ==
  ASSUME IInv, NEW p \in Problems, NEW k \in Kinds, Publish(p, k), NEW s \in Subscribers
  PROVE  /\ ReplaysHoldAnswers(s) => ReplaysHoldAnswers(s)'
         /\ s \in subscribers => s \in subscribers'
         /\ s \in subscribers' => s \in subscribers
         /\ s \in subscribers /\ EndsAnswered(log, received[s], queue[s])
              => EndsAnswered(log, received[s], queue[s])'
         /\ s \in subscribers /\ TopicOf[s] = p /\ k \in TerminalKinds
              => HoldsAnswer(log, queue[s])'
<1>1. /\ Len(log) \in Nat /\ Len(log') = Len(log) + 1
      /\ \A n : IsAnswerIn(log, n) => IsAnswerIn(log', n)
      /\ k \in TerminalKinds => IsAnswerIn(log', Len(log) + 1)
  BY PublishedHistory DEF IInv
<1>2. \A q : HoldsAnswer(log, q) => HoldsAnswer(log', q)
  BY <1>1 DEF HoldsAnswer
<1>3. /\ received' = received /\ phase' = phase /\ replay' = replay
      /\ alreadyComplete' = alreadyComplete /\ subscribers' = subscribers
      /\ queue'[s] = IF s \in QueuesOf(p) THEN Append(queue[s], Len(log) + 1) ELSE queue[s]
  BY DEF Publish, streams, PutInQueues
<1>4. queue[s] \in Seq(Nat) /\ Len(log) + 1 \in Nat /\ Len(log) + 1 # None
  BY <1>1 DEF IInv, TypeOK, None
<1>5. BufferSize \in Nat
  BY ConstantsAssumption
<1>6. ReplaysHoldAnswers(s) => ReplaysHoldAnswers(s)'
  <2>1. /\ Cardinality(EventsOf(log, TopicOf[s])) \in Nat
        /\ Cardinality(EventsOf(log', TopicOf[s]))
             = Cardinality(EventsOf(log, TopicOf[s])) + (IF TopicOf[s] = p THEN 1 ELSE 0)
    BY ConstantsAssumption, PublishedEvents DEF IInv
  <2>2. Cardinality(EventsOf(log', TopicOf[s])) <= BufferSize
          => Cardinality(EventsOf(log, TopicOf[s])) <= BufferSize
    BY <1>5, <2>1
  <2> QED
    BY <1>2, <1>3, <2>2 DEF ReplaysHoldAnswers, Fits
<1>7. ASSUME EndsAnswered(log, received[s], queue[s])
      PROVE  EndsAnswered(log', received[s], queue'[s])
  <2>1. EndsAnswered(log', received[s], queue[s])
    BY <1>1, <1>2, <1>7 DEF EndsAnswered
  <2>2. EndsAnswered(log', received[s], Append(queue[s], Len(log) + 1))
    BY <1>4, <2>1, QueueingKeepsAnswered
  <2> QED
    BY <1>3, <2>1, <2>2
<1>8. ASSUME s \in subscribers, TopicOf[s] = p, k \in TerminalKinds
      PROVE  HoldsAnswer(log', queue'[s])
  <2>1. queue'[s] = Append(queue[s], Len(log) + 1)
    BY <1>3, <1>8 DEF QueuesOf
  <2> QED
    BY <1>1, <1>4, <1>8, <2>1, AnswersStay
<1> QED
  BY <1>3, <1>6, <1>7, <1>8

\* A resumption of a stream, or its end, keeps what is said of that stream.
LEMMA OwnStepKeepsViewer ==
  ASSUME RingsInv, MarksHoldAnswers, NEW s \in Subscribers, ReplaysHoldAnswers(s),
         HasYielded(s), s \in subscribers => EndsAnswered(log, received[s], queue[s]),
         StreamStep(s) \/ Disconnect(s)
  PROVE  /\ ReplaysHoldAnswers(s)' /\ HasYielded(s)'
         /\ s \in subscribers' => EndsAnswered(log, received[s], queue[s])'
<1> DEFINE Served(deep) ==
      /\ deep => /\ phase'[s] = "replaying" /\ alreadyComplete'[s] =>
                      HoldsAnswer(log, received'[s]) \/ HoldsAnswer(log, replay'[s])
                 /\ phase'[s] = "done" => HoldsAnswer(log, received'[s])
      /\ phase'[s] = "delivering" => received'[s] # <<>>
      /\ s \in subscribers' => EndsAnswered(log, received'[s], queue'[s])
<1> DEFINE Deep == Fits(TopicOf[s])
<1>1. log' = log
  BY DEF StreamStep, Subscribe, ReplayNext, FinishReplay, TakeSentinel, TakeEvent,
         Resume, Disconnect
<1>2. SUFFICES Served(Deep)
  BY <1>1 DEF ReplaysHoldAnswers, HasYielded, Fits
<1>3. /\ received[s] \in Seq(Nat) /\ replay[s] \in Seq(Nat) /\ queue[s] \in Seq(Nat)
      /\ received = [t \in Subscribers |-> received[t]]
      /\ replay = [t \in Subscribers |-> replay[t]]
      /\ queue = [t \in Subscribers |-> queue[t]]
      /\ phase = [t \in Subscribers |-> phase[t]]
      /\ alreadyComplete = [t \in Subscribers |-> alreadyComplete[t]]
      /\ buffers[TopicOf[s]] \in Seq(Nat) /\ TopicOf[s] \in Problems
  <2>1. TypeOK
    BY DEF RingsInv, IInv
  <2> QED
    BY <2>1, ConstantsAssumption DEF TypeOK
<1>4. /\ s \in subscribers <=> phase[s] \in {"waiting", "delivering"}
      /\ s \notin subscribers => queue[s] = <<>>
      /\ phase[s] = "new" => received[s] = <<>>
  BY DEF RingsInv, IInv, StreamInv, RegisteredInv, YieldedInv
<1>5. \A r : EndsAnswered(log, r, <<>>)
  BY DEF EndsAnswered
<1>6. ~HoldsAnswer(log, <<>>)
  BY DEF HoldsAnswer
<1>7. ASSUME NEW complete, EndReplay(s, complete), s \notin subscribers,
             received'[s] = received[s], queue'[s] = queue[s],
             complete /\ Deep => HoldsAnswer(log, received[s])
      PROVE  Served(Deep)
  <2>1. CASE complete
    BY <1>3, <1>7, <2>1 DEF EndReplay
  <2>2. CASE ~complete
    <3>1. phase'[s] = "waiting" /\ queue'[s] = <<>>
      BY <1>3, <1>4, <1>7, <2>2 DEF EndReplay
    <3> QED
      BY <1>5, <3>1
  <2> QED
    BY <2>1, <2>2
<1>8. ASSUME NEW q \in Seq(Nat), q # <<>>, phase'[s] = "replaying", s \notin subscribers',
             received'[s] = Append(received[s], Head(q)), replay'[s] = Tail(q),
             Deep /\ alreadyComplete'[s] =>
               HoldsAnswer(log, received[s]) \/ HoldsAnswer(log, q)
      PROVE  Served(Deep)
  <2>1. Head(q) \in Nat
    BY <1>8, HeadTailNat
  <2>2. HoldsAnswer(log, q) =>
          IsAnswerIn(log, Head(q)) \/ HoldsAnswer(log, Tail(q))
    BY <1>8, AnswersMove
  <2>3. /\ HoldsAnswer(log, received[s]) => HoldsAnswer(log, Append(received[s], Head(q)))
        /\ IsAnswerIn(log, Head(q)) => HoldsAnswer(log, Append(received[s], Head(q)))
    BY <1>3, <2>1, AnswersStay
  <2> QED
    BY <1>8, <2>2, <2>3
<1>9. CASE Subscribe(s)
  <2> DEFINE b == buffers[TopicOf[s]]
             complete == TopicOf[s] \in completed
  <2>1. /\ phase[s] = "new" /\ s \notin subscribers /\ received[s] = <<>>
        /\ queue' = queue /\ alreadyComplete'[s] = complete
    BY <1>3, <1>4, <1>9 DEF Subscribe
  <2>2. Deep /\ complete => HoldsAnswer(log, b)
    BY DEF MarksHoldAnswers
  <2>3. CASE b = <<>>
    <3>1. EndReplay(s, complete) /\ received' = received
      BY <1>9, <2>3 DEF Subscribe
    <3>2. ~(Deep /\ complete)
      BY <1>6, <2>2, <2>3
    <3> HIDE DEF complete
    <3> QED
      BY <1>7, <2>1, <3>1, <3>2
  <2>4. CASE b # <<>>
    <3>1. /\ phase'[s] = "replaying" /\ subscribers' = subscribers
          /\ received'[s] = Append(received[s], Head(b)) /\ replay'[s] = Tail(b)
      BY <1>3, <1>9, <2>4 DEF Subscribe, Yield
    <3> HIDE DEF b, complete
    <3>2. b \in Seq(Nat)
      BY <1>3 DEF b
    <3> QED
      BY <1>8, <2>1, <2>2, <2>4, <3>1, <3>2
  <2> QED
    BY <2>3, <2>4
<1>10. CASE ReplayNext(s)
  <2>1. /\ phase[s] = "replaying" /\ replay[s] # <<>>
        /\ phase'[s] = "replaying" /\ subscribers' = subscribers
        /\ alreadyComplete' = alreadyComplete
        /\ received'[s] = Append(received[s], Head(replay[s]))
        /\ replay'[s] = Tail(replay[s])
    BY <1>3, <1>10 DEF ReplayNext, Yield
  <2>2. Deep /\ alreadyComplete[s] =>
          HoldsAnswer(log, received[s]) \/ HoldsAnswer(log, replay[s])
    BY <2>1 DEF ReplaysHoldAnswers
  <2> QED
    BY <1>3, <1>4, <1>8, <2>1, <2>2
<1>11. CASE FinishReplay(s)
  <2>1. /\ phase[s] = "replaying" /\ replay[s] = <<>> /\ s \notin subscribers
        /\ EndReplay(s, alreadyComplete[s]) /\ received' = received /\ queue' = queue
    BY <1>4, <1>11 DEF FinishReplay
  <2>2. alreadyComplete[s] /\ Deep => HoldsAnswer(log, received[s])
    BY <1>6, <2>1 DEF ReplaysHoldAnswers
  <2> QED
    BY <1>7, <2>1, <2>2
<1>12. CASE TakeSentinel(s)
  <2>1. /\ queue[s] # <<>> /\ Head(queue[s]) = None /\ s \in subscribers
        /\ phase'[s] = "done" /\ s \notin subscribers' /\ received' = received
    BY <1>3, <1>4, <1>12 DEF TakeSentinel, Leave
  <2>2. HoldsAnswer(log, received[s])
    BY <1>3, <2>1, TakingKeepsAnswered
  <2> QED
    BY <2>1, <2>2
<1>13. CASE TakeEvent(s)
  <2>1. /\ queue[s] # <<>> /\ s \in subscribers /\ subscribers' = subscribers
        /\ phase'[s] = "delivering" /\ queue'[s] = Tail(queue[s])
        /\ received'[s] = Append(received[s], Head(queue[s]))
    BY <1>3, <1>4, <1>13 DEF TakeEvent, Yield
  <2>2. EndsAnswered(log, Append(received[s], Head(queue[s])), Tail(queue[s]))
    BY <1>3, <2>1, TakingKeepsAnswered
  <2>3. received'[s] # <<>>
    <3>1. Head(queue[s]) \in Nat
      BY <1>3, <2>1, HeadTailNat
    <3> DEFINE a == Append(received[s], Head(queue[s]))
    <3>2. Len(a) = Len(received[s]) + 1 /\ Len(received[s]) \in Nat
      BY <1>3, <3>1, AppendProperties
    <3>3. Len(a) # 0
      BY <3>2
    <3> HIDE DEF a
    <3>4. a # <<>>
      BY <3>3, EmptySeq
    <3> QED
      BY <2>1, <3>4 DEF a
  <2> QED
    BY <2>1, <2>2, <2>3
<1>14. CASE Resume(s)
  <2>1. /\ phase[s] = "delivering" /\ s \in subscribers /\ received' = received
        /\ received[s] # <<>>
    BY <1>4, <1>14 DEF Resume, HasYielded
  <2>2. CASE log[Last(received[s])].kind \in TerminalKinds
    <3>1. phase'[s] = "done" /\ s \notin subscribers'
      BY <1>3, <1>14, <2>2 DEF Resume, Leave
    <3>2. Len(received[s]) \in 1..Len(received[s])
      BY <1>3, <2>1, EmptySeq
    <3>3. received[s][Len(received[s])] \in 1..Len(log)
      BY <3>2 DEF RingsInv, IInv, StreamInv, YieldedInv, OfTopic
    <3>4. HoldsAnswer(log, received[s])
      BY <2>2, <3>2, <3>3 DEF HoldsAnswer, IsAnswerIn, Last
    <3> QED
      BY <2>1, <3>1, <3>4
  <2>3. CASE ~(log[Last(received[s])].kind \in TerminalKinds)
    <3>1. phase'[s] = "waiting" /\ subscribers' = subscribers /\ queue' = queue
      BY <1>3, <1>14, <2>3 DEF Resume
    <3> QED
      BY <2>1, <3>1
  <2> QED
    BY <2>2, <2>3
<1>15. CASE Disconnect(s)
  <2>1. phase'[s] = "gone" /\ s \notin subscribers'
    BY <1>3, <1>15 DEF Disconnect, Leave
  <2> QED
    BY <2>1
<1> QED
  BY <1>9, <1>10, <1>11, <1>12, <1>13, <1>14, <1>15 DEF StreamStep

\* A step of one stream changes nothing for the others.
LEMMA OthersKeepViewers ==
  ASSUME RingsInv, NEW t \in Subscribers, StreamStep(t) \/ Disconnect(t),
         NEW s \in Subscribers, s # t
  PROVE  /\ ReplaysHoldAnswers(s) => ReplaysHoldAnswers(s)'
         /\ HasYielded(s) => HasYielded(s)'
         /\ s \in subscribers' => s \in subscribers
         /\ EndsAnswered(log, received[s], queue[s]) => EndsAnswered(log, received[s], queue[s])'
<1>1. /\ log' = log
      /\ received'[s] = received[s] /\ phase'[s] = phase[s] /\ replay'[s] = replay[s]
      /\ queue'[s] = queue[s] /\ alreadyComplete'[s] = alreadyComplete[s]
      /\ s \in subscribers' => s \in subscribers
  BY DEF RingsInv, IInv, TypeOK, StreamStep, Subscribe, ReplayNext, FinishReplay,
         TakeSentinel, TakeEvent, Resume, Disconnect, Yield, Leave, EndReplay
<1> QED
  BY <1>1 DEF ReplaysHoldAnswers, HasYielded, EndsAnswered, Fits

\* Nobody has seen anything at first.
LEMMA InitViewers == StreamInit => ViewersInv
<1> SUFFICES ASSUME StreamInit PROVE ViewersInv
  OBVIOUS
<1>1. /\ completed = {} /\ subscribers = {}
      /\ \A s \in Subscribers : phase[s] = "new"
  BY DEF StreamInit, Init
<1> QED
  BY <1>1 DEF ViewersInv, MarksHoldAnswers, ReplaysHoldAnswers, HasYielded, ClosesAreAnswered

\* Every publication of a run keeps what is said of the viewers; its answer is
\* what makes the streams of its problem ready to be closed.
LEMMA RunPublishesKeepViewers ==
  ASSUME RunsInv, ViewersInv, NEW p \in Problems, NEW k \in Kinds, Publish(p, k),
         running' = p, stage' # "closing" \/ k \in TerminalKinds
  PROVE  ViewersInv'
<1>1. RingsInv /\ IInv
  BY DEF RunsInv, RingsInv
<1>2. MarksHoldAnswers'
  BY <1>1, PublishKeepsMarks DEF ViewersInv
<1>3. phase' = phase /\ received' = received /\ subscribers' = subscribers
  BY DEF Publish, streams
<1>4. subscribers \subseteq Subscribers
  BY <1>1 DEF IInv, TypeOK
<1>5. \A s \in Subscribers : ReplaysHoldAnswers(s)' /\ HasYielded(s)'
  BY <1>1, <1>3, PublishKeepsViewers DEF ViewersInv, HasYielded
<1>6. \A s \in subscribers' : EndsAnswered(log, received[s], queue[s])'
  BY <1>1, <1>3, <1>4, PublishKeepsViewers DEF ViewersInv
<1>7. ClosesAreAnswered'
  BY <1>1, <1>3, <1>4, PublishKeepsViewers DEF ClosesAreAnswered
<1> QED
  BY <1>2, <1>5, <1>6, <1>7 DEF ViewersInv

\* The sentinel goes behind the answer.
LEMMA CloseKeepsViewers ==
  ASSUME RunsInv, ViewersInv, NEW p \in Problems, CloseRun(p)
  PROVE  ViewersInv'
<1>1. /\ running = p /\ stage = "closing" /\ running' = NoRun /\ NoRun \notin Problems
      /\ UNCHANGED <<bus, subscribers, streams, log>>
      /\ \A s \in Subscribers :
           queue'[s] = IF s \in QueuesOf(p) THEN Append(queue[s], None) ELSE queue[s]
  BY StreamAssumption DEF CloseRun, Close, PutInQueues
<1>2. UNCHANGED <<buffers, completed, phase, replay, alreadyComplete, received>>
  BY <1>1 DEF bus, streams
<1>3. TypeOK
  BY DEF RunsInv, RingsInv, IInv
<1>4. MarksHoldAnswers'
  BY <1>1, <1>2 DEF ViewersInv, MarksHoldAnswers, Fits
<1>5. \A s \in Subscribers : ReplaysHoldAnswers(s)' /\ HasYielded(s)'
  BY <1>1, <1>2 DEF ViewersInv, ReplaysHoldAnswers, HasYielded, Fits
<1>6. ASSUME NEW s \in subscribers
      PROVE  EndsAnswered(log, received[s], queue'[s])
  <2>1. /\ s \in Subscribers /\ queue[s] \in Seq(Nat) /\ None \in Nat
        /\ EndsAnswered(log, received[s], queue[s])
    BY <1>3 DEF TypeOK, ViewersInv, None
  <2>2. CASE s \in QueuesOf(p)
    <3>1. HoldsAnswer(log, received[s]) \/ HoldsAnswer(log, queue[s])
      BY <1>1, <2>2 DEF QueuesOf, ViewersInv, ClosesAreAnswered
    <3>2. EndsAnswered(log, received[s], Append(queue[s], None))
      BY <2>1, <3>1, QueueingKeepsAnswered
    <3> QED
      BY <1>1, <2>1, <2>2, <3>2
  <2>3. CASE s \notin QueuesOf(p)
    BY <1>1, <2>1, <2>3
  <2> QED
    BY <2>2, <2>3
<1>7. \A s \in subscribers' : EndsAnswered(log, received[s], queue[s])'
  BY <1>1, <1>2, <1>6
<1>8. ClosesAreAnswered'
  BY <1>1, <1>3, ConstantsAssumption DEF ClosesAreAnswered, TypeOK
<1> QED
  BY <1>4, <1>5, <1>7, <1>8 DEF ViewersInv

\* Every step keeps the invariant of the viewers.
LEMMA NextViewers == RunsInv /\ ViewersInv /\ [StreamNext]_streamVars => ViewersInv'
<1> SUFFICES ASSUME RunsInv, ViewersInv, [StreamNext]_streamVars PROVE ViewersInv'
  OBVIOUS
<1>1. ASSUME UNCHANGED vars,
             (running' = running /\ stage' = stage) \/ stage' # "closing"
      PROVE  ViewersInv'
  <2>1. UNCHANGED <<buffers, completed, log, phase, replay, alreadyComplete, received,
                    subscribers, queue>>
    BY <1>1 DEF vars, bus, streams
  <2>2. MarksHoldAnswers'
    BY <2>1 DEF ViewersInv, MarksHoldAnswers, Fits
  <2>3. \A s \in Subscribers : ReplaysHoldAnswers(s)' /\ HasYielded(s)'
    BY <2>1 DEF ViewersInv, ReplaysHoldAnswers, HasYielded, Fits
  <2>4. \A s \in subscribers' : EndsAnswered(log, received[s], queue[s])'
    BY <2>1 DEF ViewersInv
  <2>5. ClosesAreAnswered'
    BY <1>1, <2>1 DEF ViewersInv, ClosesAreAnswered
  <2> QED
    BY <2>2, <2>3, <2>4, <2>5 DEF ViewersInv
<1>2. ASSUME NEW p \in Problems, BeginRun(p) PROVE ViewersInv'
  <2>1. /\ Publish(p, "orchestrator-started") /\ "orchestrator-started" \in Kinds
        /\ running' = p /\ stage' # "closing"
    BY <1>2, StreamAssumption DEF BeginRun
  <2> QED
    BY <2>1, RunPublishesKeepViewers
<1>3. ASSUME NEW p \in Problems, ReportRun(p) PROVE ViewersInv'
  <2>1. /\ Publish(p, "specialist-completed") /\ "specialist-completed" \in Kinds
        /\ running' = p /\ stage' # "closing"
    BY <1>3, StreamAssumption DEF ReportRun
  <2> QED
    BY <2>1, RunPublishesKeepViewers
<1>4. ASSUME NEW p \in Problems, FailRun(p) PROVE ViewersInv'
  <2>1. UNCHANGED vars /\ stage' # "closing"
    BY <1>4 DEF FailRun
  <2> QED
    BY <1>1, <2>1
<1>5. ASSUME NEW p \in Problems, AnswerRun(p) PROVE ViewersInv'
  <2>1. /\ Publish(p, "brief-ready") /\ "brief-ready" \in TerminalKinds
        /\ "brief-ready" \in Kinds /\ running' = p
    BY <1>5, StreamAssumption, ConstantsAssumption DEF AnswerRun
  <2> QED
    BY <2>1, RunPublishesKeepViewers
<1>6. ASSUME NEW p \in Problems, CloseRun(p) PROVE ViewersInv'
  BY <1>6, CloseKeepsViewers
<1>7. ASSUME NEW t \in Subscribers, ServeStream(t) \/ DropStream(t) PROVE ViewersInv'
  <2>1. /\ StreamStep(t) \/ Disconnect(t)
        /\ running' = NoRun /\ NoRun \notin Problems
    BY <1>7, StreamAssumption DEF ServeStream, DropStream
  <2>2. RingsInv /\ TypeOK /\ TypeOK'
    <3>1. RingsInv /\ RingsInv'
      BY StreamStepsAreBusSteps, NextRings DEF RunsInv
    <3> QED
      BY <3>1 DEF RingsInv, IInv
  <2>3. UNCHANGED <<bus, log>>
    BY <2>1 DEF StreamStep, Subscribe, ReplayNext, FinishReplay, TakeSentinel, TakeEvent,
                Resume, Disconnect
  <2>4. MarksHoldAnswers'
    BY <2>3 DEF ViewersInv, MarksHoldAnswers, bus, Fits
  <2>5. ASSUME NEW s \in Subscribers
        PROVE  /\ ReplaysHoldAnswers(s)' /\ HasYielded(s)'
               /\ s \in subscribers' => EndsAnswered(log, received[s], queue[s])'
    <3>1. CASE s = t
      BY <2>1, <2>2, <3>1, OwnStepKeepsViewer DEF ViewersInv
    <3>2. CASE s # t
      BY <2>1, <2>2, <3>2, OthersKeepViewers DEF ViewersInv
    <3> QED
      BY <3>1, <3>2
  <2>6. \A s \in subscribers' : EndsAnswered(log, received[s], queue[s])'
    BY <2>2, <2>5 DEF TypeOK
  <2>7. ClosesAreAnswered'
    BY <2>1, <2>2, ConstantsAssumption DEF ClosesAreAnswered, TypeOK
  <2> QED
    BY <2>4, <2>5, <2>6, <2>7 DEF ViewersInv
<1>8. CASE UNCHANGED streamVars
  BY <1>1, <1>8 DEF streamVars
<1> QED
  BY <1>2, <1>3, <1>4, <1>5, <1>6, <1>7, <1>8 DEF StreamNext, RunStep

\* The inductive invariant of the viewers, over that of the runs.
THEOREM ViewersInvariantHolds == StreamSpec => []ViewersInv
BY InitViewers, NextViewers, RunsInvariantHolds, PTL DEF StreamSpec

\* _emit_brief_ready_and_close and subscribe: as long as no problem has more
\* events than a ring holds, a stream that ended by itself has delivered an
\* answer, whatever runs failed before and whenever the viewer came.
THEOREM EndedViewersSawTheAnswer ==
  StreamSpec => []((\A p \in Problems : Fits(p)) => EndedStreamsSawBrief)
<1>1. ViewersInv => ((\A p \in Problems : Fits(p)) => EndedStreamsSawBrief)
  <2> SUFFICES ASSUME ViewersInv, \A p \in Problems : Fits(p),
                      NEW s \in Subscribers, phase[s] = "done"
               PROVE  \E i \in 1..Len(received[s]) : log[received[s][i]].kind \in TerminalKinds
    BY DEF EndedStreamsSawBrief
  <2>1. HoldsAnswer(log, received[s])
    BY ConstantsAssumption DEF ViewersInv, ReplaysHoldAnswers
  <2> QED
    BY <2>1 DEF HoldsAnswer, IsAnswerIn
<1> QED
  BY <1>1, ViewersInvariantHolds, PTL
=============================================================================
