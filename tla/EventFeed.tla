----------------------------- MODULE EventFeed ------------------------------
(***************************************************************************)
(* What TraceBroadcaster promises its callers, without rings, queues or    *)
(* generators: a log that only grows, and streams that each read their     *)
(* problem's part of it strictly forward.  A stream may skip events (a     *)
(* ring forgets, an eviction forgets more), never goes back, never repeats *)
(* an event, and yields nothing once it has ended.                         *)
(***************************************************************************)
EXTENDS Naturals, Sequences

CONSTANTS Problems, Subscribers, TopicOf, Kinds

VARIABLES
  log,       \* every event published
  received,  \* the events each stream yielded, as positions in log
  ended      \* the streams that are over

vars == <<log, received, ended>>

Init ==
  /\ log = <<>>
  /\ received = [s \in Subscribers |-> <<>>]
  /\ ended = {}

Publish ==
  /\ \E p \in Problems, k \in Kinds :
       log' = Append(log, [problem |-> p, kind |-> k])
  /\ UNCHANGED <<received, ended>>

\* The position stream s has read up to.
Position(s) == IF received[s] = <<>> THEN 0 ELSE received[s][Len(received[s])]

Deliver(s) ==
  /\ s \notin ended
  /\ \E n \in (Position(s) + 1)..Len(log) :
       /\ log[n].problem = TopicOf[s]
       /\ received' = [received EXCEPT ![s] = Append(@, n)]
  /\ UNCHANGED <<log, ended>>

End(s) ==
  /\ s \notin ended
  /\ ended' = ended \cup {s}
  /\ UNCHANGED <<log, received>>

Next ==
  \/ Publish
  \/ \E s \in Subscribers : Deliver(s) \/ End(s)

Spec == Init /\ [][Next]_vars
=============================================================================
