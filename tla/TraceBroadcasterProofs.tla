----------------------- MODULE TraceBroadcasterProofs -----------------------
(* Theorems about TraceBroadcaster, for every set of problems and streams,  *)
(* every ring size and every cap.                                           *)
EXTENDS TraceBroadcaster, SequenceTheorems, TLAPS

-----------------------------------------------------------------------------
(* Lemmas about the operators the model is built from. *)

\* Appending to a ring that is full drops its head; either way the result is a
\* non-empty sequence ending in the new element, preceded by a suffix of the ring.
LEMMA RingAppendProperties ==
  ASSUME NEW ring \in Seq(Nat), NEW e \in Nat
  PROVE  LET r == RingAppend(ring, e)
             d == IF Len(ring) < BufferSize THEN 0 ELSE 1
         IN  /\ r \in Seq(Nat)
             /\ Len(r) = Len(ring) + 1 - d
             /\ r[Len(r)] = e
             /\ \A i \in 1..(Len(r) - 1) : i + d \in 1..Len(ring) /\ r[i] = ring[i + d]
<1>1. CASE Len(ring) < BufferSize
  BY <1>1, AppendProperties DEF RingAppend
<1>2. CASE ~(Len(ring) < BufferSize)
  <2>1. ring # <<>>
    BY <1>2, ConstantsAssumption, EmptySeq
  <2>2. /\ Tail(ring) \in Seq(Nat)
        /\ Len(Tail(ring)) = Len(ring) - 1
        /\ \A i \in 1..Len(Tail(ring)) : Tail(ring)[i] = ring[i + 1]
    BY <2>1, HeadTailProperties
  <2>3. Len(ring) \in Nat
    BY LenProperties
  <2>4. /\ Append(Tail(ring), e) \in Seq(Nat)
        /\ Len(Append(Tail(ring), e)) = Len(Tail(ring)) + 1
        /\ \A i \in 1..Len(Tail(ring)) : Append(Tail(ring), e)[i] = Tail(ring)[i]
        /\ Append(Tail(ring), e)[Len(Tail(ring)) + 1] = e
    BY <2>2, AppendProperties
  <2>5. RingAppend(ring, e) = Append(Tail(ring), e)
    BY <1>2 DEF RingAppend
  <2> QED
    BY <1>2, <2>2, <2>3, <2>4, <2>5
<1> QED
  BY <1>1, <1>2

\* Touching a key yields a sequence of keys.
LEMMA TouchType ==
  ASSUME order \in Seq(Problems), NEW p \in Problems
  PROVE  Touch(p) \in Seq(Problems)
<1>1. CASE Contains(order, p)
  <2> DEFINE i == CHOOSE i \in 1..Len(order) : order[i] = p
  <2>1. i \in 1..Len(order)
    BY <1>1 DEF Contains
  <2>2. Len(order) \in Nat
    BY LenProperties
  <2> HIDE DEF i
  <2>3. \A j \in 1..Len(order) : order[j] \in Problems
    BY ElementOfSeq
  <2>4. SubSeq(order, 1, i - 1) \in Seq(Problems)
    <3>1. 1 \in Int /\ i - 1 \in Int /\ \A j \in 1..(i - 1) : order[j] \in Problems
      BY <2>1, <2>2, <2>3
    <3> QED
      BY <3>1, SubSeqProperties
  <2>5. SubSeq(order, i + 1, Len(order)) \in Seq(Problems)
    <3>1. i + 1 \in Int /\ Len(order) \in Int
          /\ \A j \in (i + 1)..Len(order) : order[j] \in Problems
      BY <2>1, <2>2, <2>3
    <3> QED
      BY <3>1, SubSeqProperties
  <2>6. RemoveAt(order, i) \in Seq(Problems)
    BY <2>4, <2>5, ConcatProperties DEF RemoveAt
  <2> QED
    BY <1>1, <2>6, AppendProperties DEF Touch, i
<1>2. CASE ~Contains(order, p)
  BY <1>2, AppendProperties DEF Touch
<1> QED
  BY <1>1, <1>2

\* Evicting keeps a sequence of keys.
LEMMA KeptType ==
  ASSUME NEW keys \in Seq(Problems)
  PROVE  Kept(keys) \in Seq(Problems)
<1>1. Len(keys) \in Nat
  BY LenProperties
<1>2. \A i \in 1..Len(keys) : keys[i] \in Problems
  BY ElementOfSeq
<1> DEFINE m == IF Len(keys) > MaxProblems THEN Len(keys) - MaxProblems + 1 ELSE 1
<1>3. m \in Int /\ m >= 1
  BY <1>1, ConstantsAssumption
<1>4. \A i \in m..Len(keys) : keys[i] \in Problems
  BY <1>1, <1>2, <1>3
<1>5. SubSeq(keys, m, Len(keys)) \in Seq(Problems)
  BY <1>1, <1>3, <1>4, SubSeqProperties
<1> QED
  BY <1>5 DEF Kept

\* Taking the head of a non-empty sequence of positions.
LEMMA HeadTailNat ==
  ASSUME NEW q \in Seq(Nat), q # <<>>
  PROVE  /\ Head(q) \in Nat
         /\ Head(q) = q[1]
         /\ Len(q) \in Nat \ {0}
         /\ Tail(q) \in Seq(Nat)
         /\ Len(Tail(q)) = Len(q) - 1
         /\ \A i \in 1..Len(Tail(q)) : Tail(q)[i] = q[i + 1]
BY HeadTailProperties, EmptySeq

-----------------------------------------------------------------------------
(* Type correctness. *)

\* _buffer_event leaves the rings, the keys and the marks well typed.
LEMMA BufferEventType ==
  ASSUME TypeOK, NEW p \in Problems, NEW k \in Kinds, NEW e \in Nat,
         BufferEvent(p, e, k)
  PROVE  /\ buffers' \in [Problems -> Seq(Nat)]
         /\ order' \in Seq(Problems)
         /\ completed' \subseteq Problems
<1>1. order' = Kept(Touch(p))
  BY DEF BufferEvent
<1>2. order' \in Seq(Problems)
  BY <1>1, TouchType, KeptType DEF TypeOK
<1>3. completed' \subseteq Problems
  BY DEF BufferEvent, TypeOK
<1>4. \A q \in Problems : RingAppend(buffers[q], e) \in Seq(Nat)
  BY RingAppendProperties DEF TypeOK
<1>5. buffers' \in [Problems -> Seq(Nat)]
  <2> DEFINE evicted == Overflow(Touch(p))
  <2>1. buffers' = [q \in Problems |->
                      CASE q \in evicted -> <<>>
                        [] q = p /\ q \notin evicted -> RingAppend(buffers[q], e)
                        [] OTHER -> buffers[q]]
    BY DEF BufferEvent
  <2> HIDE DEF evicted
  <2>2. \A q \in Problems : buffers[q] \in Seq(Nat) /\ <<>> \in Seq(Nat)
    BY EmptySeq DEF TypeOK
  <2>3. ASSUME NEW q \in Problems
        PROVE  (CASE q \in evicted -> <<>>
                  [] q = p /\ q \notin evicted -> RingAppend(buffers[q], e)
                  [] OTHER -> buffers[q]) \in Seq(Nat)
    <3>1. CASE q \in evicted
      BY <3>1, <2>2
    <3>2. CASE q = p /\ q \notin evicted
      BY <3>2, <1>4
    <3>3. CASE q # p /\ q \notin evicted
      BY <3>3, <2>2
    <3> QED
      BY <3>1, <3>2, <3>3
  <2> QED
    BY <2>1, <2>3
<1> QED
  BY <1>2, <1>3, <1>5

\* Putting an item in queues leaves them queues.
LEMMA PutInQueuesType ==
  ASSUME TypeOK, NEW p \in Problems, NEW item \in Nat, PutInQueues(p, item)
  PROVE  queue' \in [Subscribers -> Seq(Nat)]
<1>1. \A s \in Subscribers : Append(queue[s], item) \in Seq(Nat)
  BY AppendProperties DEF TypeOK
<1> QED
  BY <1>1 DEF PutInQueues, TypeOK

\* The variables have their types at first.
LEMMA InitType == Init => TypeOK
BY EmptySeq DEF Init, TypeOK, Phases

\* Every step keeps the types.
LEMMA NextType == TypeOK /\ [Next]_vars => TypeOK'
<1> SUFFICES ASSUME TypeOK, [Next]_vars PROVE TypeOK'
  OBVIOUS
<1> USE DEF TypeOK, Phases
<1>1. ASSUME NEW p \in Problems, NEW k \in Kinds, Publish(p, k)
      PROVE  TypeOK'
  <2>1. log' \in Seq([problem : Problems, kind : Kinds])
    BY <1>1, AppendProperties DEF Publish
  <2>2. Len(log) + 1 \in Nat
    BY LenProperties
  <2>3. queue' \in [Subscribers -> Seq(Nat)]
    BY <1>1, <2>2, PutInQueuesType DEF Publish
  <2>4. /\ buffers' \in [Problems -> Seq(Nat)]
        /\ order' \in Seq(Problems)
        /\ completed' \subseteq Problems
    BY <1>1, <2>2, BufferEventType DEF Publish
  <2> QED
    BY <1>1, <2>1, <2>3, <2>4 DEF Publish, streams
<1>2. ASSUME NEW p \in Problems, Close(p)
      PROVE  TypeOK'
  <2>1. queue' \in [Subscribers -> Seq(Nat)]
    BY <1>2, PutInQueuesType DEF Close, None
  <2> QED
    BY <1>2, <2>1 DEF Close, bus, streams
<1>3. ASSUME NEW s \in Subscribers, StreamStep(s)
      PROVE  TypeOK'
  <2>1. \A q \in Seq(Nat) : q # <<>> =>
          Head(q) \in Nat /\ Tail(q) \in Seq(Nat) /\ Append(received[s], Head(q)) \in Seq(Nat)
    BY HeadTailNat, AppendProperties
  <2>2. Len(log) \in Nat
    BY LenProperties
  <2>3. buffers[TopicOf[s]] \in Seq(Nat)
    BY ConstantsAssumption
  <2>4. CASE Subscribe(s)
    <3> DEFINE complete == TopicOf[s] \in completed
    <3>1. complete \in BOOLEAN
      OBVIOUS
    <3>2. alreadyComplete' = [alreadyComplete EXCEPT ![s] = complete]
      BY <2>4 DEF Subscribe
    <3> HIDE DEF complete
    <3>3. alreadyComplete' \in [Subscribers -> BOOLEAN]
      BY <3>1, <3>2
    <3>4. CASE buffers[TopicOf[s]] = <<>>
      <4>1. EndReplay(s, complete) /\ UNCHANGED <<replay, received, bus, queue, log, closes>>
        BY <2>4, <3>4 DEF Subscribe, complete
      <4> QED
        BY <2>2, <3>3, <4>1 DEF EndReplay, bus
    <3>5. CASE buffers[TopicOf[s]] # <<>>
      <4>1. /\ Yield(s, Head(buffers[TopicOf[s]]), "replaying")
            /\ replay' = [replay EXCEPT ![s] = Tail(buffers[TopicOf[s]])]
            /\ UNCHANGED <<subscribers, joined, bus, queue, log, closes>>
        BY <2>4, <3>5 DEF Subscribe
      <4> QED
        BY <2>1, <2>3, <3>3, <3>5, <4>1 DEF Yield, bus
    <3> QED
      BY <3>4, <3>5
  <2>5. CASE ReplayNext(s)
    BY <2>1, <2>5 DEF ReplayNext, Yield, bus
  <2>6. CASE FinishReplay(s)
    BY <2>2, <2>6 DEF FinishReplay, EndReplay, bus
  <2>7. CASE TakeSentinel(s)
    BY <2>7, EmptySeq DEF TakeSentinel, Leave, bus
  <2>8. CASE TakeEvent(s)
    BY <2>1, <2>8 DEF TakeEvent, Yield, bus
  <2>9. CASE Resume(s)
    <3>1. Leave(s, "done") \/ (phase' = [phase EXCEPT ![s] = "waiting"]
                               /\ UNCHANGED <<subscribers, queue>>)
      BY <2>9 DEF Resume
    <3>2. UNCHANGED <<bus, replay, alreadyComplete, received, joined, log, closes>>
      BY <2>9 DEF Resume
    <3>3. CASE Leave(s, "done")
      BY <3>2, <3>3, EmptySeq DEF Leave, bus
    <3>4. CASE /\ phase' = [phase EXCEPT ![s] = "waiting"]
               /\ UNCHANGED <<subscribers, queue>>
      BY <3>2, <3>4 DEF bus
    <3> QED
      BY <3>1, <3>3, <3>4
  <2> QED
    BY <1>3, <2>4, <2>5, <2>6, <2>7, <2>8, <2>9 DEF StreamStep
<1>4. ASSUME NEW s \in Subscribers, Disconnect(s)
      PROVE  TypeOK'
  BY <1>4, EmptySeq DEF Disconnect, Leave, bus
<1>5. CASE UNCHANGED vars
  BY <1>5 DEF vars, bus, streams
<1> QED
  BY <1>1, <1>2, <1>3, <1>4, <1>5 DEF Next

\* Every reachable state of the bus is well typed: rings, queues and locals
\* never hold anything but events (and the sentinel).
THEOREM TypeCorrect == Spec => []TypeOK
BY InitType, NextType, PTL DEF Spec

-----------------------------------------------------------------------------
(* The inductive invariant.  InOrderOnce speaks of what was yielded; it is   *)
(* kept because what may still be yielded (the rest of the replay, the queue *)
(* and, for a stream to come, the ring) is in order too and lies after it.   *)

OfTopic(l, p, n) == n \in 1..Len(l) /\ l[n].problem = p
Ordered(q)    == \A i, j \in 1..Len(q) : i < j => q[i] < q[j]
Below(q, n)   == \A i \in 1..Len(q) : q[i] < n

RingInv(p) ==
  /\ \A i \in 1..Len(buffers[p]) : OfTopic(log, p, buffers[p][i])
  /\ Ordered(buffers[p])

YieldedInv(s) ==
  /\ \A i \in 1..Len(received[s]) : OfTopic(log, TopicOf[s], received[s][i])
  /\ Ordered(received[s])
  /\ phase[s] = "new" => received[s] = <<>>

ReplayInv(s) ==
  phase[s] = "replaying" =>
    /\ Ordered(replay[s])
    /\ \A j \in 1..Len(replay[s]) :
         OfTopic(log, TopicOf[s], replay[s][j]) /\ Below(received[s], replay[s][j])

QueueInv(s) ==
  \A j \in 1..Len(queue[s]) : queue[s][j] # None =>
    /\ OfTopic(log, TopicOf[s], queue[s][j])
    /\ Below(received[s], queue[s][j])
    /\ \A h \in 1..(j - 1) : queue[s][h] < queue[s][j]

RegisteredInv(s) ==
  /\ s \in subscribers <=> phase[s] \in {"waiting", "delivering"}
  /\ s \notin subscribers => queue[s] = <<>>

StreamInv(s) == YieldedInv(s) /\ ReplayInv(s) /\ QueueInv(s) /\ RegisteredInv(s)

IInv ==
  /\ TypeOK
  /\ \A p \in Problems : RingInv(p)
  /\ \A s \in Subscribers : StreamInv(s)

\* The invariant holds of the empty bus.
LEMMA InitInv == Init => IInv
<1> SUFFICES ASSUME Init PROVE IInv
  OBVIOUS
<1>1. TypeOK
  BY InitType
<1>2. \A p \in Problems : RingInv(p)
  BY DEF Init, RingInv, Ordered
<1>3. \A s \in Subscribers : StreamInv(s)
  BY DEF Init, StreamInv, YieldedInv, ReplayInv, QueueInv, RegisteredInv, Ordered
<1> QED
  BY <1>1, <1>2, <1>3 DEF IInv

\* The history only grows, so an event stays an event of its problem.
LEMMA OfTopicStable ==
  ASSUME TypeOK, NEW p \in Problems, NEW k \in Kinds, Publish(p, k)
  PROVE  /\ Len(log) \in Nat
         /\ Len(log') = Len(log) + 1
         /\ \A q \in Problems, n \in Nat : OfTopic(log, q, n) => OfTopic(log', q, n)
         /\ OfTopic(log', p, Len(log) + 1)
<1> DEFINE e == [problem |-> p, kind |-> k]
<1>1. /\ log \in Seq([problem : Problems, kind : Kinds])
      /\ e \in [problem : Problems, kind : Kinds]
      /\ log' = Append(log, e)
  BY DEF TypeOK, Publish
<1>2. /\ Len(log') = Len(log) + 1
      /\ \A i \in 1..Len(log) : log'[i] = log[i]
      /\ log'[Len(log) + 1] = e
  BY <1>1, AppendProperties
<1>3. Len(log) \in Nat
  BY <1>1, LenProperties
<1>4. e.problem = p
  OBVIOUS
<1> HIDE DEF e
<1>5. OfTopic(log', p, Len(log) + 1)
  BY <1>2, <1>3, <1>4 DEF OfTopic
<1>6. \A q \in Problems, n \in Nat : OfTopic(log, q, n) => OfTopic(log', q, n)
  BY <1>2, <1>3 DEF OfTopic
<1> QED
  BY <1>2, <1>3, <1>5, <1>6

\* A publish keeps every ring in order: it appends the newest event to one.
LEMMA PublishRings ==
  ASSUME IInv, NEW p \in Problems, NEW k \in Kinds, Publish(p, k),
         NEW q \in Problems
  PROVE  RingInv(q)'
<1> DEFINE evicted == Overflow(Touch(p))
           e == Len(log) + 1
<1>1. buffers'[q] = CASE q \in evicted -> <<>>
                      [] q = p /\ q \notin evicted -> RingAppend(buffers[q], e)
                      [] OTHER -> buffers[q]
  BY DEF Publish, BufferEvent
<1> HIDE DEF evicted
<1>2. /\ Len(log) \in Nat
      /\ \A r \in Problems, n \in Nat : OfTopic(log, r, n) => OfTopic(log', r, n)
      /\ OfTopic(log', p, e)
  BY OfTopicStable DEF IInv
<1>3. /\ buffers[q] \in Seq(Nat)
      /\ RingInv(q)
  BY DEF IInv, TypeOK
<1>4. /\ Len(buffers[q]) \in Nat
      /\ \A i \in 1..Len(buffers[q]) : buffers[q][i] \in Nat
  BY <1>3, LenProperties, ElementOfSeq
<1>5. CASE q \in evicted
  BY <1>1, <1>5 DEF RingInv, Ordered
<1>6. CASE q # p /\ q \notin evicted
  BY <1>1, <1>2, <1>3, <1>4, <1>6 DEF RingInv, Ordered
<1>7. CASE q = p /\ q \notin evicted
  <2> DEFINE r == RingAppend(buffers[q], e)
             d == IF Len(buffers[q]) < BufferSize THEN 0 ELSE 1
  <2>1. buffers'[q] = r
    BY <1>1, <1>7
  <2>2. /\ Len(r) = Len(buffers[q]) + 1 - d
        /\ r[Len(r)] = e
        /\ \A i \in 1..(Len(r) - 1) : i + d \in 1..Len(buffers[q]) /\ r[i] = buffers[q][i + d]
    <3>1. e \in Nat /\ buffers[q] \in Seq(Nat)
      BY <1>2, <1>3
    <3> HIDE DEF e
    <3> QED
      BY <3>1, RingAppendProperties
  <2>3. d \in {0, 1}
    OBVIOUS
  <2> HIDE DEF r, d
  <2>4. \A i \in 1..Len(r) : OfTopic(log', q, r[i])
    <3> SUFFICES ASSUME NEW i \in 1..Len(r) PROVE OfTopic(log', q, r[i])
      OBVIOUS
    <3>1. CASE i = Len(r)
      BY <1>2, <1>7, <2>2, <3>1
    <3>2. CASE i # Len(r)
      <4>1. i + d \in 1..Len(buffers[q]) /\ r[i] = buffers[q][i + d]
        BY <1>4, <2>2, <2>3, <3>2
      <4> QED
        BY <1>2, <1>3, <1>4, <4>1 DEF RingInv
    <3> QED
      BY <3>1, <3>2
  <2>5. \A i, j \in 1..Len(r) : i < j => r[i] < r[j]
    <3> SUFFICES ASSUME NEW i \in 1..Len(r), NEW j \in 1..Len(r), i < j
                 PROVE  r[i] < r[j]
      OBVIOUS
    <3>1. i + d \in 1..Len(buffers[q]) /\ r[i] = buffers[q][i + d]
      BY <1>4, <2>2, <2>3
    <3>2. CASE j = Len(r)
      BY <1>2, <1>3, <2>2, <3>1, <3>2 DEF RingInv, OfTopic
    <3>3. CASE j # Len(r)
      <4>1. j + d \in 1..Len(buffers[q]) /\ r[j] = buffers[q][j + d]
        BY <1>4, <2>2, <2>3, <3>3
      <4> QED
        BY <1>3, <1>4, <2>3, <3>1, <4>1 DEF RingInv, Ordered
    <3> QED
      BY <3>2, <3>3
  <2> QED
    BY <2>1, <2>4, <2>5 DEF RingInv, Ordered, OfTopic
<1> QED
  BY <1>5, <1>6, <1>7

\* A publish keeps every stream in order: the newest event goes behind whatever
\* the registered queues of its problem hold, and nowhere else.
LEMMA PublishStreams ==
  ASSUME IInv, NEW p \in Problems, NEW k \in Kinds, Publish(p, k),
         NEW s \in Subscribers
  PROVE  StreamInv(s)'
<1> DEFINE e == Len(log) + 1
<1>1. /\ Len(log) \in Nat
      /\ \A r \in Problems, n \in Nat : OfTopic(log, r, n) => OfTopic(log', r, n)
      /\ OfTopic(log', p, e)
  BY OfTopicStable DEF IInv
<1>2. /\ TypeOK
      /\ StreamInv(s)
      /\ TopicOf[s] \in Problems
  BY ConstantsAssumption DEF IInv
<1>3. /\ received' = received
      /\ phase' = phase
      /\ replay' = replay
      /\ subscribers' = subscribers
  BY DEF Publish, streams
<1>4. queue'[s] = IF s \in QueuesOf(p) THEN Append(queue[s], e) ELSE queue[s]
  BY DEF Publish, PutInQueues
<1>5. /\ received[s] \in Seq(Nat)
      /\ replay[s] \in Seq(Nat)
      /\ queue[s] \in Seq(Nat)
  BY <1>2 DEF TypeOK
<1>6. /\ \A i \in 1..Len(received[s]) : received[s][i] \in Nat
      /\ \A i \in 1..Len(replay[s]) : replay[s][i] \in Nat
      /\ \A i \in 1..Len(queue[s]) : queue[s][i] \in Nat
      /\ Len(queue[s]) \in Nat
  BY <1>5, ElementOfSeq, LenProperties
<1>7. YieldedInv(s)'
  BY <1>1, <1>2, <1>3, <1>6 DEF StreamInv, YieldedInv, Ordered
<1>8. ReplayInv(s)'
  BY <1>1, <1>2, <1>3, <1>6 DEF StreamInv, ReplayInv, Ordered, Below
<1>9. RegisteredInv(s)'
  BY <1>2, <1>3, <1>4 DEF StreamInv, RegisteredInv, QueuesOf
<1>10. QueueInv(s)'
  <2>1. CASE s \notin QueuesOf(p)
    BY <1>1, <1>2, <1>3, <1>4, <1>6, <2>1 DEF StreamInv, QueueInv, Below
  <2>2. CASE s \in QueuesOf(p)
    <3>1. TopicOf[s] = p
      BY <2>2 DEF QueuesOf
    <3>2. e \in Nat
      BY <1>1
    <3> HIDE DEF e
    <3> DEFINE q == Append(queue[s], e)
    <3>3. /\ Len(q) = Len(queue[s]) + 1
          /\ \A i \in 1..Len(queue[s]) : q[i] = queue[s][i]
          /\ q[Len(queue[s]) + 1] = e
      BY <1>5, <3>2, AppendProperties
    <3>4. queue'[s] = q
      BY <1>4, <2>2
    <3> HIDE DEF q
    <3>5. \A j \in 1..Len(queue[s]) : queue[s][j] < e
      BY <1>1, <1>2, <1>6 DEF StreamInv, QueueInv, OfTopic, None, e
    <3>6. Below(received[s], e)
      BY <1>1, <1>2, <1>6 DEF StreamInv, YieldedInv, OfTopic, Below, e
    <3>7. ASSUME NEW j \in 1..Len(q), q[j] # None
          PROVE  /\ OfTopic(log', TopicOf[s], q[j])
                 /\ Below(received[s], q[j])
                 /\ \A h \in 1..(j - 1) : q[h] < q[j]
      <4>1. CASE j = Len(queue[s]) + 1
        BY <1>1, <1>6, <3>1, <3>3, <3>5, <3>6, <4>1
      <4>2. CASE j \in 1..Len(queue[s])
        <5>1. q[j] = queue[s][j] /\ \A h \in 1..(j - 1) : q[h] = queue[s][h]
          BY <1>6, <3>3, <4>2
        <5> QED
          BY <1>1, <1>2, <1>6, <3>7, <4>2, <5>1 DEF StreamInv, QueueInv
      <4> QED
        BY <1>6, <3>3, <4>1, <4>2
    <3> QED
      BY <1>3, <3>4, <3>7 DEF QueueInv, Below
  <2> QED
    BY <2>1, <2>2
<1> QED
  BY <1>7, <1>8, <1>9, <1>10 DEF StreamInv

\* The sentinel that close() queues disturbs no order.
LEMMA CloseStreams ==
  ASSUME IInv, NEW p \in Problems, Close(p), NEW s \in Subscribers
  PROVE  StreamInv(s)'
<1>1. /\ received' = received
      /\ phase' = phase
      /\ replay' = replay
      /\ subscribers' = subscribers
      /\ log' = log
  BY DEF Close, streams
<1>2. StreamInv(s) /\ queue[s] \in Seq(Nat)
  BY DEF IInv, TypeOK
<1>3. queue'[s] = IF s \in QueuesOf(p) THEN Append(queue[s], None) ELSE queue[s]
  BY DEF Close, PutInQueues
<1>4. YieldedInv(s)' /\ ReplayInv(s)'
  BY <1>1, <1>2 DEF StreamInv, YieldedInv, ReplayInv, Below
<1>5. RegisteredInv(s)'
  BY <1>1, <1>2, <1>3 DEF StreamInv, RegisteredInv, QueuesOf
<1>6. QueueInv(s)'
  <2>1. CASE s \notin QueuesOf(p)
    BY <1>1, <1>2, <1>3, <2>1 DEF StreamInv, QueueInv, Below
  <2>2. CASE s \in QueuesOf(p)
    <3> DEFINE q == Append(queue[s], None)
    <3>1. /\ Len(q) = Len(queue[s]) + 1
          /\ \A i \in 1..Len(queue[s]) : q[i] = queue[s][i]
          /\ q[Len(queue[s]) + 1] = None
      BY <1>2, AppendProperties DEF None
    <3>2. Len(queue[s]) \in Nat
      BY <1>2, LenProperties
    <3>3. queue'[s] = q
      BY <1>3, <2>2
    <3> HIDE DEF q
    <3>4. ASSUME NEW j \in 1..Len(q), q[j] # None
          PROVE  j \in 1..Len(queue[s]) /\ q[j] = queue[s][j]
      BY <3>1, <3>2, <3>4
    <3>5. \A j \in 1..Len(queue[s]) : \A h \in 1..(j - 1) : q[h] = queue[s][h]
      BY <3>1, <3>2
    <3> QED
      BY <1>1, <1>2, <3>3, <3>4, <3>5 DEF StreamInv, QueueInv, Below
  <2> QED
    BY <2>1, <2>2
<1> QED
  BY <1>4, <1>5, <1>6 DEF StreamInv

\* A stream that nothing touches in a step keeps its invariant.
LEMMA UntouchedStream ==
  ASSUME NEW s \in Subscribers, StreamInv(s),
         log' = log,
         received'[s] = received[s], phase'[s] = phase[s],
         replay'[s] = replay[s], queue'[s] = queue[s],
         s \in subscribers' <=> s \in subscribers
  PROVE  StreamInv(s)'
BY DEF StreamInv, YieldedInv, ReplayInv, QueueInv, RegisteredInv, Below, Ordered

\* Yielding an event that lies after everything yielded so far.
LEMMA YieldKeepsOrder ==
  ASSUME NEW q \in Seq(Nat), NEW e \in Nat, Ordered(q), Below(q, e)
  PROVE  LET r == Append(q, e)
         IN  /\ Ordered(r)
             /\ Len(r) = Len(q) + 1
             /\ Len(q) \in Nat
             /\ \A i \in 1..Len(r) : r[i] = e \/ \E h \in 1..Len(q) : r[i] = q[h]
             /\ \A n \in Nat : e < n /\ Below(q, n) => Below(r, n)
<1> DEFINE r == Append(q, e)
<1>1. /\ Len(r) = Len(q) + 1
      /\ \A i \in 1..Len(q) : r[i] = q[i]
      /\ r[Len(q) + 1] = e
  BY AppendProperties
<1>2. /\ Len(q) \in Nat
      /\ \A i \in 1..Len(q) : q[i] \in Nat
  BY LenProperties, ElementOfSeq
<1> HIDE DEF r
<1>3. \A i \in 1..Len(r) : i \in 1..Len(q) \/ i = Len(q) + 1
  BY <1>1, <1>2
<1>4. Ordered(r)
  BY <1>1, <1>2, <1>3 DEF Ordered, Below
<1>5. \A n \in Nat : e < n /\ Below(q, n) => Below(r, n)
  BY <1>1, <1>2, <1>3 DEF Below
<1> QED
  BY <1>1, <1>2, <1>3, <1>4, <1>5 DEF r

\* What a yield must establish for the events already yielded to stay in order.
LEMMA YieldStream ==
  ASSUME IInv, NEW s \in Subscribers, NEW e \in Nat,
         OfTopic(log, TopicOf[s], e), Below(received[s], e),
         log' = log, received'[s] = Append(received[s], e), phase'[s] # "new"
  PROVE  /\ YieldedInv(s)'
         /\ \A n \in Nat : e < n /\ Below(received[s], n) => Below(received'[s], n)
<1>1. received[s] \in Seq(Nat) /\ YieldedInv(s)
  BY DEF IInv, TypeOK, StreamInv
<1> DEFINE r == Append(received[s], e)
<1>2. /\ Ordered(r)
      /\ \A i \in 1..Len(r) : r[i] = e \/ \E h \in 1..Len(received[s]) : r[i] = received[s][h]
      /\ \A n \in Nat : e < n /\ Below(received[s], n) => Below(r, n)
  BY <1>1, YieldKeepsOrder DEF YieldedInv
<1> HIDE DEF r
<1>3. received'[s] = r
  BY DEF r
<1>4. \A i \in 1..Len(r) : OfTopic(log, TopicOf[s], r[i])
  BY <1>1, <1>2 DEF YieldedInv
<1> QED
  BY <1>2, <1>3, <1>4 DEF YieldedInv, Ordered

\* A stream that ends or is dropped yields no more and owns no queue.
LEMMA LeaveStream ==
  ASSUME IInv, NEW s \in Subscribers, NEW how \in {"done", "gone"}, Leave(s, how),
         log' = log, received' = received
  PROVE  StreamInv(s)'
<1>1. /\ phase'[s] = how
      /\ queue'[s] = <<>>
      /\ s \notin subscribers'
  BY DEF Leave, IInv, TypeOK
<1>2. YieldedInv(s)
  BY DEF IInv, StreamInv
<1> QED
  BY <1>1, <1>2 DEF StreamInv, YieldedInv, ReplayInv, QueueInv, RegisteredInv, Ordered

\* The replay hands over to the live queue, which starts empty.
LEMMA EndReplayStream ==
  ASSUME IInv, NEW s \in Subscribers, NEW complete, EndReplay(s, complete),
         phase[s] \in {"new", "replaying"},
         log' = log, received' = received, queue' = queue
  PROVE  StreamInv(s)'
<1>1. /\ YieldedInv(s)
      /\ s \notin subscribers
      /\ queue[s] = <<>>
  BY DEF IInv, StreamInv, RegisteredInv
<1>2. YieldedInv(s)'
  BY <1>1 DEF YieldedInv, Ordered, EndReplay, IInv, TypeOK
<1>3. QueueInv(s)'
  BY <1>1 DEF QueueInv
<1>4. ReplayInv(s)' /\ RegisteredInv(s)'
  BY <1>1 DEF ReplayInv, RegisteredInv, EndReplay, IInv, TypeOK
<1> QED
  BY <1>2, <1>3, <1>4 DEF StreamInv

\* Yielding the head of an ordered sequence that lies after what was yielded,
\* and keeping the tail to replay.
LEMMA ReplayHead ==
  ASSUME IInv, NEW s \in Subscribers, NEW q \in Seq(Nat), q # <<>>,
         Ordered(q),
         \A i \in 1..Len(q) : OfTopic(log, TopicOf[s], q[i]) /\ Below(received[s], q[i]),
         log' = log, Yield(s, Head(q), "replaying"),
         replay' = [replay EXCEPT ![s] = Tail(q)]
  PROVE  YieldedInv(s)' /\ ReplayInv(s)'
<1>1. /\ Head(q) \in Nat
      /\ Head(q) = q[1]
      /\ Len(q) \in Nat \ {0}
      /\ Tail(q) \in Seq(Nat)
      /\ Len(Tail(q)) = Len(q) - 1
      /\ \A i \in 1..Len(Tail(q)) : Tail(q)[i] = q[i + 1]
  BY HeadTailNat
<1>2. /\ received'[s] = Append(received[s], Head(q))
      /\ phase'[s] = "replaying"
      /\ replay'[s] = Tail(q)
  BY DEF Yield, IInv, TypeOK
<1>3. OfTopic(log, TopicOf[s], Head(q)) /\ Below(received[s], Head(q))
  BY <1>1
<1>4. /\ YieldedInv(s)'
      /\ \A n \in Nat : Head(q) < n /\ Below(received[s], n) => Below(received'[s], n)
  BY <1>1, <1>2, <1>3, YieldStream
<1>5. \A i \in 1..Len(q) : q[i] \in Nat
  BY ElementOfSeq
<1>6. Ordered(Tail(q))
  BY <1>1, <1>5 DEF Ordered
<1>7. ASSUME NEW j \in 1..Len(Tail(q))
      PROVE  OfTopic(log, TopicOf[s], Tail(q)[j]) /\ Below(received'[s], Tail(q)[j])
  <2>1. j + 1 \in 1..Len(q) /\ Tail(q)[j] = q[j + 1] /\ q[1] < q[j + 1]
    BY <1>1, <1>5 DEF Ordered
  <2> QED
    BY <1>1, <1>4, <1>5, <2>1
<1> QED
  BY <1>2, <1>4, <1>6, <1>7 DEF ReplayInv, Ordered

\* Each resumption of a generator keeps the invariant of its own stream.
LEMMA StepOfStream ==
  ASSUME IInv, NEW s \in Subscribers, StreamStep(s)
  PROVE  StreamInv(s)'
<1>1. /\ StreamInv(s)
      /\ TypeOK
      /\ TopicOf[s] \in Problems
      /\ received[s] \in Seq(Nat)
      /\ replay[s] \in Seq(Nat)
      /\ queue[s] \in Seq(Nat)
      /\ buffers[TopicOf[s]] \in Seq(Nat)
  BY ConstantsAssumption DEF IInv, TypeOK
<1>2. CASE Subscribe(s)
  <2>1. CASE buffers[TopicOf[s]] = <<>>
    <3> DEFINE complete == TopicOf[s] \in completed
    <3>1. /\ EndReplay(s, complete)
          /\ phase[s] = "new"
          /\ UNCHANGED <<log, received, queue>>
      BY <1>2, <2>1 DEF Subscribe
    <3> HIDE DEF complete
    <3> QED
      BY <3>1, EndReplayStream
  <2>2. CASE buffers[TopicOf[s]] # <<>>
    <3> DEFINE q == buffers[TopicOf[s]]
    <3>1. /\ phase[s] = "new"
          /\ Yield(s, Head(q), "replaying")
          /\ replay' = [replay EXCEPT ![s] = Tail(q)]
          /\ UNCHANGED <<subscribers, queue, log>>
      BY <1>2, <2>2 DEF Subscribe
    <3>2. /\ received[s] = <<>>
          /\ s \notin subscribers
          /\ queue[s] = <<>>
      BY <1>1, <3>1 DEF StreamInv, YieldedInv, RegisteredInv
    <3>3. /\ q \in Seq(Nat)
          /\ q # <<>>
          /\ Ordered(q)
          /\ \A i \in 1..Len(q) : OfTopic(log, TopicOf[s], q[i]) /\ Below(received[s], q[i])
      BY <1>1, <2>2, <3>2 DEF IInv, RingInv, Below
    <3>4. phase'[s] = "replaying"
      BY <1>1, <3>1 DEF Yield, TypeOK
    <3> HIDE DEF q
    <3>5. YieldedInv(s)' /\ ReplayInv(s)'
      BY <3>1, <3>3, ReplayHead
    <3>6. QueueInv(s)' /\ RegisteredInv(s)'
      BY <3>1, <3>2, <3>4 DEF QueueInv, RegisteredInv
    <3> QED
      BY <3>5, <3>6 DEF StreamInv
  <2> QED
    BY <2>1, <2>2
<1>3. CASE ReplayNext(s)
  <2> DEFINE q == replay[s]
  <2>1. /\ phase[s] = "replaying"
        /\ q # <<>>
        /\ Yield(s, Head(q), "replaying")
        /\ replay' = [replay EXCEPT ![s] = Tail(q)]
        /\ UNCHANGED <<subscribers, queue, log>>
    BY <1>1, <1>3 DEF ReplayNext, TypeOK
  <2>2. /\ q \in Seq(Nat)
        /\ Ordered(q)
        /\ \A i \in 1..Len(q) : OfTopic(log, TopicOf[s], q[i]) /\ Below(received[s], q[i])
    BY <1>1, <2>1 DEF StreamInv, ReplayInv
  <2>3. /\ s \notin subscribers
        /\ queue[s] = <<>>
        /\ phase'[s] = "replaying"
    BY <1>1, <2>1 DEF StreamInv, RegisteredInv, Yield, TypeOK
  <2> HIDE DEF q
  <2>4. YieldedInv(s)' /\ ReplayInv(s)'
    BY <2>1, <2>2, ReplayHead
  <2>5. QueueInv(s)' /\ RegisteredInv(s)'
    BY <2>1, <2>3 DEF QueueInv, RegisteredInv
  <2> QED
    BY <2>4, <2>5 DEF StreamInv
<1>4. CASE FinishReplay(s)
  <2>1. /\ EndReplay(s, alreadyComplete[s])
        /\ phase[s] = "replaying"
        /\ UNCHANGED <<log, received, queue>>
    BY <1>4 DEF FinishReplay
  <2> QED
    BY <2>1, EndReplayStream
<1>5. CASE TakeSentinel(s)
  <2>1. Leave(s, "done") /\ UNCHANGED <<log, received>>
    BY <1>5 DEF TakeSentinel
  <2> QED
    BY <2>1, LeaveStream
<1>6. CASE TakeEvent(s)
  <2> DEFINE q == queue[s]
  <2>1. /\ phase[s] = "waiting"
        /\ q # <<>>
        /\ Head(q) # None
        /\ received'[s] = Append(received[s], Head(q))
        /\ phase'[s] = "delivering"
        /\ queue'[s] = Tail(q)
        /\ UNCHANGED <<subscribers, log>>
    BY <1>1, <1>6 DEF TakeEvent, Yield, TypeOK
  <2>2. /\ Head(q) \in Nat
        /\ Head(q) = q[1]
        /\ Len(q) \in Nat \ {0}
        /\ Len(Tail(q)) = Len(q) - 1
        /\ \A i \in 1..Len(Tail(q)) : Tail(q)[i] = q[i + 1]
        /\ \A i \in 1..Len(q) : q[i] \in Nat
    BY <1>1, <2>1, HeadTailNat, ElementOfSeq
  <2>3. \A j \in 1..Len(q) : q[j] # None =>
          /\ OfTopic(log, TopicOf[s], q[j])
          /\ Below(received[s], q[j])
          /\ \A h \in 1..(j - 1) : q[h] < q[j]
    BY <1>1 DEF StreamInv, QueueInv
  <2> HIDE DEF q
  <2>4. /\ YieldedInv(s)'
        /\ \A n \in Nat : Head(q) < n /\ Below(received[s], n) => Below(received'[s], n)
    <3>1. OfTopic(log, TopicOf[s], Head(q)) /\ Below(received[s], Head(q))
      BY <2>1, <2>2, <2>3
    <3>2. phase'[s] # "new"
      BY <2>1
    <3> QED
      BY <2>1, <2>2, <3>1, <3>2, YieldStream
  <2>5. ASSUME NEW j \in 1..Len(Tail(q)), Tail(q)[j] # None
        PROVE  /\ OfTopic(log, TopicOf[s], Tail(q)[j])
               /\ Below(received'[s], Tail(q)[j])
               /\ \A h \in 1..(j - 1) : Tail(q)[h] < Tail(q)[j]
    <3>1. j + 1 \in 1..Len(q) /\ Tail(q)[j] = q[j + 1] /\ q[1] < q[j + 1]
      BY <2>2, <2>3, <2>5
    <3>2. OfTopic(log, TopicOf[s], q[j + 1]) /\ Below(received'[s], q[j + 1])
      BY <2>2, <2>3, <2>4, <2>5, <3>1
    <3>3. \A h \in 1..(j - 1) : Tail(q)[h] < q[j + 1]
      BY <2>2, <2>3, <2>5, <3>1
    <3> QED
      BY <3>1, <3>2, <3>3
  <2>6. QueueInv(s)'
    BY <2>1, <2>5 DEF QueueInv
  <2>7. RegisteredInv(s)' /\ ReplayInv(s)'
    BY <1>1, <2>1 DEF StreamInv, RegisteredInv, ReplayInv
  <2> QED
    BY <2>4, <2>6, <2>7 DEF StreamInv
<1>7. CASE Resume(s)
  <2>1. CASE Leave(s, "done")
    BY <1>7, <2>1, LeaveStream DEF Resume
  <2>2. CASE /\ phase' = [phase EXCEPT ![s] = "waiting"]
             /\ UNCHANGED <<subscribers, queue>>
    <3>1. /\ phase[s] = "delivering"
          /\ phase'[s] = "waiting"
          /\ UNCHANGED <<log, received, queue, subscribers>>
      BY <1>1, <1>7, <2>2 DEF Resume, TypeOK
    <3> QED
      BY <1>1, <3>1
         DEF StreamInv, YieldedInv, ReplayInv, QueueInv, RegisteredInv, Ordered, Below
  <2> QED
    BY <1>7, <2>1, <2>2 DEF Resume
<1> QED
  BY <1>2, <1>3, <1>4, <1>5, <1>6, <1>7 DEF StreamStep

\* A step of one stream touches no other and no ring.
LEMMA OthersKeepInv ==
  ASSUME IInv, NEW s \in Subscribers, StreamStep(s) \/ Disconnect(s)
  PROVE  /\ log' = log
         /\ buffers' = buffers
         /\ \A t \in Subscribers \ {s} : StreamInv(t)'
<1>1. /\ log' = log
      /\ buffers' = buffers
      /\ \A t \in Subscribers \ {s} :
           /\ received'[t] = received[t]
           /\ phase'[t] = phase[t]
           /\ replay'[t] = replay[t]
           /\ queue'[t] = queue[t]
           /\ t \in subscribers' <=> t \in subscribers
  BY DEF IInv, TypeOK, StreamStep, Subscribe, ReplayNext, FinishReplay, TakeSentinel,
         TakeEvent, Resume, Disconnect, Yield, Leave, EndReplay, bus
<1>2. ASSUME NEW t \in Subscribers \ {s}
      PROVE  StreamInv(t)'
  BY <1>1, UntouchedStream DEF IInv
<1> QED
  BY <1>1, <1>2

\* Every step keeps the invariant of the rings and the streams.
LEMMA NextInv == IInv /\ [Next]_vars => IInv'
<1> SUFFICES ASSUME IInv, [Next]_vars PROVE IInv'
  OBVIOUS
<1>1. TypeOK'
  BY NextType DEF IInv
<1>2. ASSUME NEW p \in Problems, NEW k \in Kinds, Publish(p, k)
      PROVE  IInv'
  BY <1>1, <1>2, PublishRings, PublishStreams DEF IInv
<1>3. ASSUME NEW p \in Problems, Close(p)
      PROVE  IInv'
  <2>1. \A q \in Problems : RingInv(q)'
    BY <1>3 DEF IInv, Close, bus, RingInv, Ordered
  <2> QED
    BY <1>1, <1>3, <2>1, CloseStreams DEF IInv
<1>4. ASSUME NEW s \in Subscribers, StreamStep(s) \/ Disconnect(s)
      PROVE  IInv'
  <2>1. \A q \in Problems : RingInv(q)'
    BY <1>4, OthersKeepInv DEF IInv, RingInv, Ordered
  <2>2. StreamInv(s)'
    <3>1. CASE StreamStep(s)
      BY <3>1, StepOfStream
    <3>2. CASE Disconnect(s)
      BY <3>2, LeaveStream DEF Disconnect
    <3> QED
      BY <1>4, <3>1, <3>2
  <2> QED
    BY <1>1, <1>4, <2>1, <2>2, OthersKeepInv DEF IInv
<1>5. CASE UNCHANGED vars
  <2>1. \A q \in Problems : RingInv(q)'
    BY <1>5 DEF IInv, vars, bus, RingInv, Ordered
  <2>2. \A s \in Subscribers : StreamInv(s)'
    BY <1>5, UntouchedStream DEF IInv, vars, streams
  <2> QED
    BY <1>1, <2>1, <2>2 DEF IInv
<1> QED
  BY <1>2, <1>3, <1>4, <1>5 DEF Next

\* The inductive invariant of the bus, for every set of problems and streams.
THEOREM InvariantHolds == Spec => []IInv
BY InitInv, NextInv, PTL DEF Spec

\* Whatever is published, evicted or closed meanwhile, every stream yields the
\* events of its problem in publication order and at most once.
THEOREM StreamsAreInOrder == Spec => []InOrderOnce
<1>1. IInv => InOrderOnce
  BY DEF IInv, StreamInv, YieldedInv, InOrderOnce, OfTopic, Ordered
<1> QED
  BY <1>1, InvariantHolds, PTL

\* The queues registered for fan-out are those of the streams in the live loop.
THEOREM QueuesBelongToLiveStreams == Spec => []NoZombieQueues
<1>1. IInv => NoZombieQueues
  BY DEF IInv, StreamInv, RegisteredInv, NoZombieQueues
<1> QED
  BY <1>1, InvariantHolds, PTL

-----------------------------------------------------------------------------
(* No live stream misses an event. *)

Has(q, n) == \E i \in 1..Len(q) : q[i] = n

Caught(s) ==
  s \in subscribers =>
    \A n \in (joined[s] + 1)..Len(log) :
      log[n].problem = TopicOf[s] => Has(received[s], n) \/ Has(queue[s], n)

\* A longer list has what the list had, and its new end.
LEMMA HasAppend ==
  ASSUME NEW q \in Seq(Nat), NEW e \in Nat
  PROVE  /\ Has(Append(q, e), e)
         /\ \A n : Has(q, n) => Has(Append(q, e), n)
<1>1. /\ Len(Append(q, e)) = Len(q) + 1
      /\ Len(q) \in Nat
      /\ \A i \in 1..Len(q) : Append(q, e)[i] = q[i]
      /\ Append(q, e)[Len(q) + 1] = e
  BY AppendProperties, LenProperties
<1> QED
  BY <1>1 DEF Has

\* What a list has is its head or in its tail.
LEMMA HasTail ==
  ASSUME NEW q \in Seq(Nat), q # <<>>, NEW n, Has(q, n)
  PROVE  n = Head(q) \/ Has(Tail(q), n)
<1>1. PICK i \in 1..Len(q) : q[i] = n
  BY DEF Has
<1>2. CASE i = 1
  BY <1>1, <1>2, HeadTailNat
<1>3. CASE i # 1
  <2>1. i - 1 \in 1..Len(Tail(q)) /\ Tail(q)[i - 1] = q[i]
    BY <1>3, HeadTailNat
  <2> QED
    BY <1>1, <2>1 DEF Has
<1> QED
  BY <1>2, <1>3

\* Every step keeps a registered stream up with the events since it
\* registered.
LEMMA NextCaught ==
  ASSUME IInv, [Next]_vars, NEW s \in Subscribers, Caught(s)
  PROVE  Caught(s)'
<1>1. /\ received[s] \in Seq(Nat)
      /\ queue[s] \in Seq(Nat)
      /\ Len(log) \in Nat
      /\ joined[s] \in Nat
      /\ TypeOK
  BY LenProperties DEF IInv, TypeOK
<1>2. ASSUME NEW p \in Problems, NEW k \in Kinds, Publish(p, k)
      PROVE  Caught(s)'
  <2> DEFINE e == Len(log) + 1
  <2>1. /\ Len(log') = e
        /\ \A i \in 1..Len(log) : log'[i] = log[i]
        /\ log'[e].problem = p
    <3> DEFINE r == [problem |-> p, kind |-> k]
    <3>1. log \in Seq([problem : Problems, kind : Kinds]) /\ log' = Append(log, r)
      BY <1>1, <1>2 DEF Publish, TypeOK
    <3>2. r \in [problem : Problems, kind : Kinds] /\ r.problem = p
      OBVIOUS
    <3> HIDE DEF r
    <3> QED
      BY <3>1, <3>2, AppendProperties
  <2>2. /\ received' = received
        /\ joined' = joined
        /\ subscribers' = subscribers
        /\ queue'[s] = IF s \in QueuesOf(p) THEN Append(queue[s], e) ELSE queue[s]
    BY <1>2 DEF Publish, streams, PutInQueues
  <2>3. e \in Nat /\ Len(log) \in Nat /\ e > Len(log)
    BY <1>1
  <2>4. \A n \in Nat : n <= e => n <= Len(log) \/ n = e
    BY <1>1
  <2> HIDE DEF e
  <2>5. \A n : Has(queue[s], n) => Has(queue'[s], n)
    BY <1>1, <2>2, <2>3, HasAppend
  <2>6. ASSUME s \in subscribers, NEW n \in (joined[s] + 1)..e, log'[n].problem = TopicOf[s]
        PROVE  Has(received[s], n) \/ Has(queue'[s], n)
    <3>1. CASE n = e
      <4>1. s \in QueuesOf(p)
        BY <2>1, <2>6, <3>1 DEF QueuesOf
      <4> QED
        BY <1>1, <2>2, <2>3, <3>1, <4>1, HasAppend
    <3>2. CASE n # e
      <4>1. n \in (joined[s] + 1)..Len(log) /\ log'[n] = log[n]
        BY <1>1, <2>1, <2>3, <2>4, <3>2
      <4> QED
        BY <2>5, <2>6, <4>1 DEF Caught
    <3> QED
      BY <3>1, <3>2
  <2> QED
    BY <2>1, <2>2, <2>6 DEF Caught
<1>3. ASSUME NEW p \in Problems, Close(p)
      PROVE  Caught(s)'
  <2>1. \A n : Has(queue[s], n) => Has(queue'[s], n)
    BY <1>1, <1>3, HasAppend DEF Close, PutInQueues, None
  <2> QED
    BY <1>3, <2>1 DEF Close, streams, Caught
<1>4. ASSUME NEW t \in Subscribers, StreamStep(t) \/ Disconnect(t)
      PROVE  Caught(s)'
  <2>1. log' = log
    BY <1>4 DEF StreamStep, Subscribe, ReplayNext, FinishReplay, TakeSentinel, TakeEvent,
                Resume, Disconnect
  <2>2. CASE s = t /\ TakeEvent(t)
    <3>1. /\ subscribers' = subscribers
          /\ joined' = joined
          /\ queue[s] # <<>>
          /\ received'[s] = Append(received[s], Head(queue[s]))
          /\ queue'[s] = Tail(queue[s])
      BY <1>1, <2>2 DEF TakeEvent, Yield, TypeOK
    <3>2. Head(queue[s]) \in Nat
      BY <1>1, <3>1, HeadTailNat
    <3>3. \A n : Has(received[s], n) \/ Has(queue[s], n)
                   => Has(received'[s], n) \/ Has(queue'[s], n)
      BY <1>1, <3>1, <3>2, HasAppend, HasTail
    <3> QED
      BY <2>1, <3>1, <3>3 DEF Caught
  <2>3. CASE \/ s # t
             \/ Resume(t) /\ UNCHANGED subscribers
    <3>1. /\ s \in subscribers' => s \in subscribers
          /\ received'[s] = received[s]
          /\ joined'[s] = joined[s]
          /\ s \in subscribers' => queue'[s] = queue[s]
      BY <1>1, <1>4, <2>3
         DEF TypeOK, StreamStep, Subscribe, ReplayNext, FinishReplay, TakeSentinel, TakeEvent,
             Resume, Disconnect, Yield, Leave, EndReplay
    <3> QED
      BY <2>1, <3>1 DEF Caught
  <2>4. CASE s = t /\ (Subscribe(t) \/ ReplayNext(t) \/ FinishReplay(t))
    <3>1. phase[s] \in {"new", "replaying"}
      BY <2>4 DEF Subscribe, ReplayNext, FinishReplay
    <3>2. s \notin subscribers
      BY <3>1 DEF IInv, StreamInv, RegisteredInv
    <3>3. s \in subscribers' => joined'[s] = Len(log)
      BY <1>1, <2>4, <3>2 DEF Subscribe, ReplayNext, FinishReplay, EndReplay, Yield, TypeOK
    <3> QED
      BY <1>1, <2>1, <3>3 DEF Caught
  <2>5. CASE s = t /\ (TakeSentinel(t) \/ Disconnect(t) \/ Resume(t))
    <3>1. s \notin subscribers' \/ (Resume(t) /\ UNCHANGED subscribers)
      BY <2>5 DEF TakeSentinel, Disconnect, Resume, Leave
    <3> QED
      BY <2>3, <3>1 DEF Caught
  <2> QED
    BY <1>4, <2>2, <2>3, <2>4, <2>5 DEF StreamStep
<1>5. CASE UNCHANGED vars
  BY <1>5 DEF vars, streams, Caught
<1> QED
  BY <1>2, <1>3, <1>4, <1>5 DEF Next

\* After registration every event of its problem reaches a stream's queue, so
\* as long as it stays live it has yielded each one or is about to.
THEOREM LiveStreamsMissNothing == Spec => []LiveGapFree
<1> DEFINE AllCaught == \A s \in Subscribers : Caught(s)
<1>1. Init => AllCaught
  BY DEF Init, Caught
<1>2. IInv /\ AllCaught /\ [Next]_vars => AllCaught'
  BY NextCaught
<1>3. TypeOK /\ AllCaught => LiveGapFree
  BY DEF TypeOK, Caught, Has, LiveGapFree
<1> QED
  BY <1>1, <1>2, <1>3, InvariantHolds, TypeCorrect, PTL DEF Spec

-----------------------------------------------------------------------------
(* The bus implements EventFeed. *)

\* Yielding an event that lies after everything yielded is a Deliver.
LEMMA YieldDelivers ==
  ASSUME TypeOK, NEW s \in Subscribers, NEW e \in Nat,
         OfTopic(log, TopicOf[s], e), Below(received[s], e),
         phase[s] \notin {"done", "gone"},
         NEW where \in {"replaying", "delivering"}, Yield(s, e, where), log' = log
  PROVE  Feed!Deliver(s)
<1>1. received[s] \in Seq(Nat)
  BY DEF TypeOK
<1>2. Feed!Position(s) \in Nat /\ Feed!Position(s) < e
  <2>1. CASE received[s] = <<>>
    BY <2>1 DEF Feed!Position, OfTopic
  <2>2. CASE received[s] # <<>>
    <3>1. Len(received[s]) \in 1..Len(received[s])
      BY <1>1, <2>2, EmptySeq
    <3>2. received[s][Len(received[s])] \in Nat
      BY <1>1, <3>1, ElementOfSeq
    <3> QED
      BY <2>2, <3>1, <3>2 DEF Feed!Position, Below
  <2> QED
    BY <2>1, <2>2
<1>3. e \in (Feed!Position(s) + 1)..Len(log) /\ log[e].problem = TopicOf[s]
  BY <1>2, LenProperties DEF OfTopic, TypeOK
<1>4. received' = [received EXCEPT ![s] = Append(@, e)]
  BY DEF Yield
<1>5. {t \in Subscribers : phase'[t] \in {"done", "gone"}}
        = {t \in Subscribers : phase[t] \in {"done", "gone"}}
  BY DEF Yield, TypeOK
<1> QED
  BY <1>3, <1>4, <1>5 DEF Feed!Deliver

\* Leaving the generator is an End.
LEMMA LeaveEnds ==
  ASSUME TypeOK, NEW s \in Subscribers, NEW how \in {"done", "gone"},
         phase' = [phase EXCEPT ![s] = how],
         phase[s] \notin {"done", "gone"}, log' = log, received' = received
  PROVE  Feed!End(s)
<1>1. {t \in Subscribers : phase'[t] \in {"done", "gone"}}
        = {t \in Subscribers : phase[t] \in {"done", "gone"}} \cup {s}
  BY DEF TypeOK
<1> QED
  BY <1>1 DEF Feed!End

\* Moving between two suspension points without yielding is invisible.
LEMMA MoveStutters ==
  ASSUME TypeOK, NEW s \in Subscribers, NEW where \in Phases \ {"done", "gone"},
         phase' = [phase EXCEPT ![s] = where],
         phase[s] \notin {"done", "gone"}, log' = log, received' = received
  PROVE  UNCHANGED Feed!vars
<1>1. {t \in Subscribers : phase'[t] \in {"done", "gone"}}
        = {t \in Subscribers : phase[t] \in {"done", "gone"}}
  BY DEF TypeOK
<1> QED
  BY <1>1 DEF Feed!vars

\* Every step of the bus is a step of the feed or a stutter.
LEMMA StepImplements ==
  ASSUME IInv, NEW s \in Subscribers, StreamStep(s) \/ Disconnect(s)
  PROVE  [Feed!Next]_Feed!vars
<1>1. /\ TypeOK
      /\ StreamInv(s)
      /\ buffers[TopicOf[s]] \in Seq(Nat)
      /\ replay[s] \in Seq(Nat)
      /\ queue[s] \in Seq(Nat)
  BY ConstantsAssumption DEF IInv, TypeOK
<1>2. ASSUME NEW complete, EndReplay(s, complete), log' = log, received' = received,
             phase[s] \notin {"done", "gone"}
      PROVE  [Feed!Next]_Feed!vars
  <2>1. phase' = [phase EXCEPT ![s] = "done"] \/ phase' = [phase EXCEPT ![s] = "waiting"]
    BY <1>2 DEF EndReplay
  <2> QED
    BY <1>1, <1>2, <2>1, LeaveEnds, MoveStutters DEF Feed!Next, Phases
<1>3. CASE Subscribe(s)
  <2>1. /\ phase[s] = "new"
        /\ log' = log
    BY <1>3 DEF Subscribe
  <2>2. CASE buffers[TopicOf[s]] = <<>>
    <3> DEFINE complete == TopicOf[s] \in completed
    <3>1. EndReplay(s, complete) /\ received' = received
      BY <1>3, <2>2 DEF Subscribe
    <3> HIDE DEF complete
    <3> QED
      BY <1>2, <2>1, <3>1
  <2>3. CASE buffers[TopicOf[s]] # <<>>
    <3> DEFINE e == Head(buffers[TopicOf[s]])
    <3>1. e \in Nat /\ e = buffers[TopicOf[s]][1] /\ 1 \in 1..Len(buffers[TopicOf[s]])
      BY <1>1, <2>3, HeadTailNat
    <3>2. OfTopic(log, TopicOf[s], e) /\ Below(received[s], e)
      BY <1>1, <2>1, <3>1, ConstantsAssumption
         DEF IInv, RingInv, StreamInv, YieldedInv, Below
    <3>3. Yield(s, e, "replaying")
      BY <1>3, <2>3 DEF Subscribe
    <3> HIDE DEF e
    <3>4. Feed!Deliver(s)
      BY <1>1, <2>1, <3>1, <3>2, <3>3, YieldDelivers
    <3> QED
      BY <3>4 DEF Feed!Next
  <2> QED
    BY <2>2, <2>3
<1>4. CASE ReplayNext(s)
  <2> DEFINE e == Head(replay[s])
  <2>1. /\ phase[s] = "replaying"
        /\ replay[s] # <<>>
        /\ Yield(s, e, "replaying")
        /\ log' = log
    BY <1>4 DEF ReplayNext
  <2>2. e \in Nat /\ e = replay[s][1] /\ 1 \in 1..Len(replay[s])
    BY <1>1, <2>1, HeadTailNat
  <2>3. OfTopic(log, TopicOf[s], e) /\ Below(received[s], e)
    BY <1>1, <2>1, <2>2 DEF StreamInv, ReplayInv
  <2> HIDE DEF e
  <2>4. Feed!Deliver(s)
    BY <1>1, <2>1, <2>2, <2>3, YieldDelivers
  <2> QED
    BY <2>4 DEF Feed!Next
<1>5. CASE FinishReplay(s)
  BY <1>2, <1>5 DEF FinishReplay
<1>6. CASE TakeSentinel(s)
  <2>1. Feed!End(s)
    BY <1>1, <1>6, LeaveEnds DEF TakeSentinel, Leave
  <2> QED
    BY <2>1 DEF Feed!Next
<1>7. CASE TakeEvent(s)
  <2> DEFINE e == Head(queue[s])
  <2>1. /\ phase[s] = "waiting"
        /\ queue[s] # <<>>
        /\ e # None
        /\ Yield(s, e, "delivering")
        /\ log' = log
    BY <1>7 DEF TakeEvent
  <2>2. e \in Nat /\ e = queue[s][1] /\ 1 \in 1..Len(queue[s])
    BY <1>1, <2>1, HeadTailNat
  <2>3. OfTopic(log, TopicOf[s], e) /\ Below(received[s], e)
    BY <1>1, <2>1, <2>2 DEF StreamInv, QueueInv
  <2> HIDE DEF e
  <2>4. Feed!Deliver(s)
    BY <1>1, <2>1, <2>2, <2>3, YieldDelivers
  <2> QED
    BY <2>4 DEF Feed!Next
<1>8. CASE Resume(s)
  <2>1. /\ phase[s] = "delivering"
        /\ log' = log
        /\ received' = received
        /\ \/ phase' = [phase EXCEPT ![s] = "done"]
           \/ phase' = [phase EXCEPT ![s] = "waiting"]
    BY <1>8 DEF Resume, Leave
  <2> QED
    BY <1>1, <2>1, LeaveEnds, MoveStutters DEF Feed!Next, Phases
<1>9. CASE Disconnect(s)
  <2>1. Feed!End(s)
    BY <1>1, <1>9, LeaveEnds DEF Disconnect, Leave
  <2> QED
    BY <2>1 DEF Feed!Next
<1> QED
  BY <1>3, <1>4, <1>5, <1>6, <1>7, <1>8, <1>9 DEF StreamStep

\* Every behaviour of the bus, with its rings, queues, evictions, closes and
\* disconnections, is one of the abstract feed.
THEOREM BusImplementsEventFeed == Spec => ImplementsEventFeed
<1>1. Init => Feed!Init
  BY DEF Init, Feed!Init
<1>2. IInv /\ [Next]_vars => [Feed!Next]_Feed!vars
  <2> SUFFICES ASSUME IInv, [Next]_vars PROVE [Feed!Next]_Feed!vars
    OBVIOUS
  <2>1. ASSUME NEW p \in Problems, NEW k \in Kinds, Publish(p, k)
        PROVE  [Feed!Next]_Feed!vars
    BY <2>1 DEF Publish, streams, Feed!Next, Feed!Publish
  <2>2. ASSUME NEW p \in Problems, Close(p)
        PROVE  [Feed!Next]_Feed!vars
    BY <2>2 DEF Close, streams, Feed!vars
  <2>3. ASSUME NEW s \in Subscribers, StreamStep(s) \/ Disconnect(s)
        PROVE  [Feed!Next]_Feed!vars
    BY <2>3, StepImplements
  <2>4. CASE UNCHANGED vars
    BY <2>4 DEF vars, streams, Feed!vars
  <2> QED
    BY <2>1, <2>2, <2>3, <2>4 DEF Next
<1> QED
  BY <1>1, <1>2, InvariantHolds, PTL DEF Spec, ImplementsEventFeed, Feed!Spec

=============================================================================
