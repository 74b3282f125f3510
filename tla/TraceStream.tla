---------------------------- MODULE TraceStream -----------------------------
(***************************************************************************)
(* The event bus under the one publisher the program has: the orchestrator *)
(* called synchronously by the webhook coroutine (app.py).  handle never   *)
(* awaits, so from its first event to its return or its exception it keeps *)
(* the event loop and no stream is resumed.  A run that succeeds publishes *)
(* brief-ready and closes the streams; a run that raises does neither.     *)
(***************************************************************************)
EXTENDS TraceBroadcaster

VARIABLES
  running,  \* the problem whose handle holds the event loop, or NoRun
  stage,    \* how far that handle got
  outcome   \* how the last handle of each problem ended

NoRun == "no run"

\* Events one handle can publish in this model: started, one of the events of
\* the investigation, brief-ready.
RunLength == 3

ASSUME StreamAssumption ==
  /\ {"orchestrator-started", "specialist-completed"} \subseteq Kinds
  /\ "brief-ready" \in TerminalKinds
  /\ NoRun \notin Problems

streamVars == <<vars, running, stage, outcome>>

StreamInit ==
  /\ Init
  /\ running = NoRun
  /\ stage = "idle"
  /\ outcome = [p \in Problems |-> "none"]

\* Entry of handle: the first event.
BeginRun(p) ==
  /\ running = NoRun
  /\ Len(log) + RunLength <= MaxEvents
  /\ Publish(p, "orchestrator-started")
  /\ running' = p
  /\ stage' = "investigating"
  /\ UNCHANGED outcome

\* A specialist reports.
ReportRun(p) ==
  /\ running = p
  /\ stage = "investigating"
  /\ Publish(p, "specialist-completed")
  /\ stage' = "composing"
  /\ UNCHANGED <<running, outcome>>

\* FAULT: an exception handler that closes the streams without an answer.
FaultyFailRun(p) ==
  /\ running = p
  /\ stage \in {"investigating", "composing"}
  /\ Close(p)
  /\ running' = NoRun
  /\ stage' = "idle"
  /\ outcome' = [outcome EXCEPT ![p] = "failed"]

\* Any exception handle lets through.
FailRun(p) ==
  /\ running = p
  /\ stage \in {"investigating", "composing"}
  /\ running' = NoRun
  /\ stage' = "idle"
  /\ outcome' = [outcome EXCEPT ![p] = "failed"]
  /\ UNCHANGED vars

\* _emit_brief_ready_and_close, first half; a memory short-circuit comes here
\* straight from "investigating".
AnswerRun(p) ==
  /\ running = p
  /\ stage \in {"investigating", "composing"}
  /\ Publish(p, "brief-ready")
  /\ stage' = "closing"
  /\ UNCHANGED <<running, outcome>>

\* Second half: close, and handle returns.
CloseRun(p) ==
  /\ running = p
  /\ stage = "closing"
  /\ Close(p)
  /\ running' = NoRun
  /\ stage' = "idle"
  /\ outcome' = [outcome EXCEPT ![p] = "answered"]

RunStep(p) == ReportRun(p) \/ FailRun(p) \/ AnswerRun(p) \/ CloseRun(p)

\* The event loop serves streams only between handles.
ServeStream(s) ==
  /\ running = NoRun
  /\ StreamStep(s)
  /\ UNCHANGED <<running, stage, outcome>>

DropStream(s) ==
  /\ running = NoRun
  /\ Disconnect(s)
  /\ UNCHANGED <<running, stage, outcome>>

StreamNext ==
  \/ \E p \in Problems : BeginRun(p) \/ RunStep(p)
  \/ \E s \in Subscribers : ServeStream(s) \/ DropStream(s)

\* A handle that began returns or raises (it is synchronous, and the calls it
\* makes are assumed to end), and the loop then resumes the ready streams.
\* Nothing makes a webhook come.
StreamSpec ==
  /\ StreamInit
  /\ [][StreamNext]_streamVars
  /\ \A p \in Problems : WF_streamVars(RunStep(p))
  /\ \A s \in Subscribers : WF_streamVars(ServeStream(s))

-----------------------------------------------------------------------------
\* A stream that ended by itself has delivered a brief-ready event, as long as
\* the ring is deep enough to keep it: the viewer is never shown an end without
\* an answer, however many runs failed before.
EndedStreamsSawBrief ==
  \A s \in Subscribers : phase[s] = "done" =>
    \E i \in 1..Len(received[s]) : log[received[s][i]].kind \in TerminalKinds

\* Between handles, a problem whose last run was answered and whose ring is
\* still kept is marked complete and its ring ends in the answer, so a viewer
\* who comes late replays up to the brief and is let go.
AnsweredRingIsTerminal ==
  \A p \in Problems :
    running = NoRun /\ outcome[p] = "answered" /\ buffers[p] # <<>> =>
      p \in completed /\ log[Last(buffers[p])].kind \in TerminalKinds

\* A live stream of a problem that is being answered ends, once the handle
\* lets go of the loop.
LiveViewersAreReleased ==
  \A s \in Subscribers :
    (s \in subscribers /\ stage = "closing" /\ running = TopicOf[s])
      ~> phase[s] \in {"done", "gone"}

\* What the comment in subscribe says of the snapshot: whatever is published
\* between the snapshot and the registration is delivered through the queue, so
\* a live stream has missed nothing since the first event it replayed.
NothingLostBeforeRegistration ==
  \A s \in subscribers : received[s] # <<>> =>
    \A n \in received[s][1]..Len(log) :
      log[n].problem = TopicOf[s] =>
        \/ \E i \in 1..Len(received[s]) : received[s][i] = n
        \/ \E i \in 1..Len(queue[s]) : queue[s][i] = n
=============================================================================
