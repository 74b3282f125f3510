-------------------------- MODULE TraceBroadcaster --------------------------
(***************************************************************************)
(* The in-memory event bus behind the live trace page                      *)
(* (src/causal_oncall/trace_broadcaster.py).  Publishers call publish and  *)
(* close; each HTTP stream runs the async generator subscribe.  Everything *)
(* shares one event loop, so a call of publish or close is one step, and a *)
(* generator runs from one suspension point (a yield, or an await on an    *)
(* empty queue) to the next in one step.                                   *)
(*                                                                         *)
(* An event is its position in log, the history of every publish; buffers, *)
(* queues and deliveries therefore hold positions, and two events are the  *)
(* same event exactly when the positions are equal.                        *)
(***************************************************************************)
EXTENDS Naturals, Sequences, SequencesExt

CONSTANTS
  Problems,      \* problem ids
  Subscribers,   \* one per opened stream: one call of subscribe
  TopicOf,       \* the problem id each stream was opened for
  Kinds,         \* TraceEventKind
  TerminalKinds, \* _TERMINAL_KINDS
  BufferSize,    \* buffer_size: depth of a problem's replay ring
  MaxProblems,   \* max_problems: LRU cap on the rings kept
  MaxEvents,     \* bound of the model: publications in a behaviour
  MaxCloses      \* bound of the model: calls of close in a behaviour

ASSUME ConstantsAssumption ==
  /\ TopicOf \in [Subscribers -> Problems]
  /\ TerminalKinds \subseteq Kinds
  /\ BufferSize \in Nat \ {0}
  /\ MaxProblems \in Nat \ {0}
  /\ MaxEvents \in Nat
  /\ MaxCloses \in Nat

VARIABLES
  buffers,         \* _buffers: the ring of each problem, <<>> when it has none
  order,           \* the keys of _buffers, least recently touched first
  completed,       \* _completed
  subscribers,     \* _subscribers: the streams whose queue is registered
  queue,           \* the asyncio.Queue of each stream
  phase,           \* where each generator is suspended
  replay,          \* buffered, less what has been yielded of it
  alreadyComplete, \* already_complete
  log,             \* history: every event published
  received,        \* history: what each stream yielded
  joined,          \* history: Len(log) when the stream registered its queue
  closes           \* history: calls of close

bus     == <<buffers, order, completed>>
streams == <<phase, replay, alreadyComplete, received, joined>>
vars    == <<bus, subscribers, queue, streams, log, closes>>

None == 0   \* the sentinel close() puts in a queue

Phases == {"new", "replaying", "waiting", "delivering", "done", "gone"}

Init ==
  /\ buffers = [p \in Problems |-> <<>>]
  /\ order = <<>>
  /\ completed = {}
  /\ subscribers = {}
  /\ queue = [s \in Subscribers |-> <<>>]
  /\ phase = [s \in Subscribers |-> "new"]
  /\ replay = [s \in Subscribers |-> <<>>]
  /\ alreadyComplete = [s \in Subscribers |-> FALSE]
  /\ log = <<>>
  /\ received = [s \in Subscribers |-> <<>>]
  /\ joined = [s \in Subscribers |-> 0]
  /\ closes = 0

-----------------------------------------------------------------------------
(* Publishers. *)

\* Definitions whose name starts with Faulty are never used by the model: each
\* is a definition of it with a plausible bug, and the run's properties are
\* shown to notice the bug.

\* FAULT: appendleft instead of append.
FaultyRingAppendLeft(ring, e) ==
  IF Len(ring) < BufferSize THEN <<e>> \o ring ELSE <<e>> \o Tail(ring)

\* FAULT: a full ring refuses the newest event.
FaultyRingFull(ring, e) ==
  IF Len(ring) < BufferSize THEN Append(ring, e) ELSE ring

\* deque(maxlen=BufferSize).append
RingAppend(ring, e) ==
  IF Len(ring) < BufferSize THEN Append(ring, e) ELSE Append(Tail(ring), e)

\* FAULT: no move_to_end, so eviction is first in, first out.
FaultyTouch(p) == IF Contains(order, p) THEN order ELSE Append(order, p)

\* The keys after the write: a new key goes last, a known one moves to the end.
Touch(p) ==
  Append(IF Contains(order, p)
           THEN RemoveAt(order, CHOOSE i \in 1..Len(order) : order[i] = p)
           ELSE order, p)

\* The least recently used keys beyond the cap.
Overflow(keys) == {keys[i] : i \in 1..(Len(keys) - MaxProblems)}
Kept(keys) ==
  SubSeq(keys, IF Len(keys) > MaxProblems THEN Len(keys) - MaxProblems + 1 ELSE 1,
         Len(keys))

\* FAULT: completion is only marked when the ring is new.
FaultyBufferEvent(p, e, k) ==
  LET keys    == Touch(p)
      evicted == Overflow(keys)
  IN  /\ order' = Kept(keys)
      /\ buffers' = [q \in Problems |->
                       CASE q \in evicted -> <<>>
                         [] q = p /\ q \notin evicted -> RingAppend(buffers[q], e)
                         [] OTHER -> buffers[q]]
      /\ completed' = (completed \cup
            (IF k \in TerminalKinds /\ buffers[p] = <<>> THEN {p} ELSE {})) \ evicted

\* _buffer_event
BufferEvent(p, e, k) ==
  LET keys    == Touch(p)
      evicted == Overflow(keys)
  IN  /\ order' = Kept(keys)
      /\ buffers' = [q \in Problems |->
                       CASE q \in evicted -> <<>>
                         [] q = p /\ q \notin evicted -> RingAppend(buffers[q], e)
                         [] OTHER -> buffers[q]]
      /\ completed' = (completed \cup (IF k \in TerminalKinds THEN {p} ELSE {})) \ evicted

\* FAULT: fan-out ignores the problem id.
FaultyQueuesOfAll(p) == IF p \in Problems THEN subscribers ELSE {}

\* FAULT: only streams already blocked on their queue are served.
FaultyQueuesOfWaiting(p) ==
  {s \in subscribers : TopicOf[s] = p /\ phase[s] = "waiting"}

QueuesOf(p) == {s \in subscribers : TopicOf[s] = p}

\* FAULT: a slow stream's events are dropped.
FaultyPutInQueues(p, item) ==
  queue' = [s \in Subscribers |->
              IF s \in QueuesOf(p) /\ queue[s] = <<>> THEN <<item>> ELSE queue[s]]

PutInQueues(p, item) ==
  queue' = [s \in Subscribers |->
              IF s \in QueuesOf(p) THEN Append(queue[s], item) ELSE queue[s]]

Publish(p, k) ==
  /\ Len(log) < MaxEvents
  /\ log' = Append(log, [problem |-> p, kind |-> k])
  /\ BufferEvent(p, Len(log) + 1, k)
  /\ PutInQueues(p, Len(log) + 1)
  /\ UNCHANGED <<subscribers, streams, closes>>

Close(p) ==
  /\ closes < MaxCloses
  /\ closes' = closes + 1
  /\ PutInQueues(p, None)
  /\ UNCHANGED <<bus, subscribers, streams, log>>

-----------------------------------------------------------------------------
(* Streams. *)

Yield(s, e, suspendedIn) ==
  /\ received' = [received EXCEPT ![s] = Append(@, e)]
  /\ phase' = [phase EXCEPT ![s] = suspendedIn]

\* FAULT: no finally clause.
FaultyLeaveRegistered(s, how) ==
  /\ phase' = [phase EXCEPT ![s] = how]
  /\ UNCHANGED <<subscribers, queue>>

\* FAULT: the generator is left in a state nobody handles.
FaultyLeavePhase(s, how) ==
  /\ phase' = [phase EXCEPT ![s] = "closed " \o how]
  /\ subscribers' = subscribers \ {s}
  /\ queue' = [queue EXCEPT ![s] = <<>>]

\* The generator returns or is closed: the finally clause drops its queue.
Leave(s, how) ==
  /\ phase' = [phase EXCEPT ![s] = how]
  /\ subscribers' = subscribers \ {s}
  /\ queue' = [queue EXCEPT ![s] = <<>>]

\* FAULT: already_complete is ignored.
FaultyEndReplay(s, complete) ==
  /\ complete \in BOOLEAN
  /\ phase' = [phase EXCEPT ![s] = "waiting"]
  /\ subscribers' = subscribers \cup {s}
  /\ joined' = [joined EXCEPT ![s] = Len(log)]

\* Lines after the replay loop: return if the snapshot was complete, else
\* register a fresh queue and await it.
EndReplay(s, complete) ==
  IF complete
    THEN /\ phase' = [phase EXCEPT ![s] = "done"]
         /\ UNCHANGED <<subscribers, joined>>
    ELSE /\ phase' = [phase EXCEPT ![s] = "waiting"]
         /\ subscribers' = subscribers \cup {s}
         /\ joined' = [joined EXCEPT ![s] = Len(log)]

\* First resumption: snapshot, then run to the first yield or to the await.
Subscribe(s) ==
  LET buffered == buffers[TopicOf[s]]
      complete == TopicOf[s] \in completed
  IN  /\ phase[s] = "new"
      /\ alreadyComplete' = [alreadyComplete EXCEPT ![s] = complete]
      /\ IF buffered = <<>>
           THEN EndReplay(s, complete) /\ UNCHANGED <<replay, received>>
           ELSE /\ Yield(s, Head(buffered), "replaying")
                /\ replay' = [replay EXCEPT ![s] = Tail(buffered)]
                /\ UNCHANGED <<subscribers, joined>>
      /\ UNCHANGED <<bus, queue, log, closes>>

ReplayNext(s) ==
  /\ phase[s] = "replaying"
  /\ replay[s] # <<>>
  /\ Yield(s, Head(replay[s]), "replaying")
  /\ replay' = [replay EXCEPT ![s] = Tail(@)]
  /\ UNCHANGED <<bus, subscribers, queue, alreadyComplete, joined, log, closes>>

FinishReplay(s) ==
  /\ phase[s] = "replaying"
  /\ replay[s] = <<>>
  /\ EndReplay(s, alreadyComplete[s])
  /\ UNCHANGED <<bus, queue, replay, alreadyComplete, received, log, closes>>

TakeSentinel(s) ==
  /\ phase[s] = "waiting"
  /\ queue[s] # <<>>
  /\ Head(queue[s]) = None
  /\ Leave(s, "done")
  /\ UNCHANGED <<bus, replay, alreadyComplete, received, joined, log, closes>>

TakeEvent(s) ==
  /\ phase[s] = "waiting"
  /\ queue[s] # <<>>
  /\ Head(queue[s]) # None
  /\ Yield(s, Head(queue[s]), "delivering")
  /\ queue' = [queue EXCEPT ![s] = Tail(@)]
  /\ UNCHANGED <<bus, subscribers, replay, alreadyComplete, joined, log, closes>>

\* Resumed after a live yield: stop on a terminal event, else await again.
Resume(s) ==
  /\ phase[s] = "delivering"
  /\ IF log[Last(received[s])].kind \in TerminalKinds
       THEN Leave(s, "done")
       ELSE /\ phase' = [phase EXCEPT ![s] = "waiting"]
            /\ UNCHANGED <<subscribers, queue>>
  /\ UNCHANGED <<bus, replay, alreadyComplete, received, joined, log, closes>>

\* The client goes away: GeneratorExit or cancellation at a suspension point.
Disconnect(s) ==
  /\ phase[s] \in {"replaying", "waiting", "delivering"}
  /\ Leave(s, "gone")
  /\ UNCHANGED <<bus, replay, alreadyComplete, received, joined, log, closes>>

\* What the event loop runs when it resumes stream s.
StreamStep(s) ==
  \/ Subscribe(s)
  \/ ReplayNext(s)
  \/ FinishReplay(s)
  \/ TakeSentinel(s)
  \/ TakeEvent(s)
  \/ Resume(s)

Next ==
  \/ \E p \in Problems, k \in Kinds : Publish(p, k)
  \/ \E p \in Problems : Close(p)
  \/ \E s \in Subscribers : StreamStep(s)
  \/ \E s \in Subscribers : Disconnect(s)

Spec == Init /\ [][Next]_vars

\* The loop resumes every ready coroutine of a client that keeps reading.
\* Nothing obliges a publisher to publish or a client to leave.
FairSpec == Spec /\ \A s \in Subscribers : WF_vars(StreamStep(s))

-----------------------------------------------------------------------------
(* Properties. *)

\* Every variable has the shape of the field or local it stands for.
TypeOK ==
  /\ buffers \in [Problems -> Seq(Nat)]
  /\ order \in Seq(Problems)
  /\ completed \subseteq Problems
  /\ subscribers \subseteq Subscribers
  /\ queue \in [Subscribers -> Seq(Nat)]
  /\ phase \in [Subscribers -> Phases]
  /\ replay \in [Subscribers -> Seq(Nat)]
  /\ alreadyComplete \in [Subscribers -> BOOLEAN]
  /\ log \in Seq([problem : Problems, kind : Kinds])
  /\ received \in [Subscribers -> Seq(Nat)]
  /\ joined \in [Subscribers -> Nat]
  /\ closes \in Nat

\* Across the replay and the live part of a stream, and whatever is published
\* meanwhile, a stream yields events of its own problem only, in the order
\* they were published and none of them twice (the boundary event that
\* the comment in subscribe worries about).
InOrderOnce ==
  \A s \in Subscribers :
    /\ \A i \in 1..Len(received[s]) :
         /\ received[s][i] \in 1..Len(log)
         /\ log[received[s][i]].problem = TopicOf[s]
    /\ \A i, j \in 1..Len(received[s]) : i < j => received[s][i] < received[s][j]

\* From the moment its queue is registered a stream misses nothing: every later
\* event of its problem has been yielded or waits in the queue.
LiveGapFree ==
  \A s \in subscribers : \A n \in (joined[s] + 1)..Len(log) :
    log[n].problem = TopicOf[s] =>
      \/ \E i \in 1..Len(received[s]) : received[s][i] = n
      \/ \E i \in 1..Len(queue[s]) : queue[s][i] = n

\* A ring holds the latest events of its problem: bounded, in order, ending in
\* the last one published, with no hole between its oldest and newest event.
RingIsLatest ==
  \A p \in Problems : LET ring == buffers[p] IN ring # <<>> =>
    /\ Len(ring) <= BufferSize
    /\ \A i, j \in 1..Len(ring) : i < j => ring[i] < ring[j]
    /\ \A n \in ring[1]..Len(log) :
         log[n].problem = p => \E i \in 1..Len(ring) : ring[i] = n

\* The tracked problems are the ones with a ring, at most max_problems of them,
\* kept in the order of their last publication, so that what is evicted is the
\* least recently published problem; completion marks survive only with a ring.
TrackedByRecency ==
  /\ Len(order) <= MaxProblems
  /\ \A p \in Problems : buffers[p] # <<>> <=> Contains(order, p)
  /\ \A i, j \in 1..Len(order) : i < j => Last(buffers[order[i]]) < Last(buffers[order[j]])
  /\ \A p \in completed : Contains(order, p)

\* A queue is registered exactly while its stream is in the live loop: nothing
\* leaks after an end or a disconnection, and nothing is dropped while live.
NoZombieQueues ==
  \A s \in Subscribers : s \in subscribers <=> phase[s] \in {"waiting", "delivering"}

\* What a caller sees of the bus is an EventFeed: streams read their problem's
\* log strictly forward and yield nothing after they ended.
Feed == INSTANCE EventFeed WITH
          ended <- {s \in Subscribers : phase[s] \in {"done", "gone"}}

ImplementsEventFeed == Feed!Spec

\* A stream that has something to end it in what it has already been handed: a
\* complete snapshot, or a sentinel or a terminal event in its queue or just
\* yielded.
Ending(s) ==
  \/ phase[s] = "replaying" /\ alreadyComplete[s]
  \/ /\ s \in subscribers
     /\ \E i \in 1..Len(queue[s]) :
          queue[s][i] = None \/ log[queue[s][i]].kind \in TerminalKinds
  \/ phase[s] = "delivering" /\ log[Last(received[s])].kind \in TerminalKinds

\* Such a stream does end, so the browser is not left idling.
EndingStreamsEnd ==
  \A s \in Subscribers : Ending(s) ~> phase[s] \in {"done", "gone"}
=============================================================================
