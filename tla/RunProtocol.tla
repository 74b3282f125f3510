----------------------------- MODULE RunProtocol ----------------------------
(***************************************************************************)
(* What an investigation promises whoever watches its trace: one run at a  *)
(* time; a run reports any number of events after its start; a run that is *)
(* answered says so in its last event and then closes the stream; a run    *)
(* that fails says nothing more.  Orchestrator implements this.            *)
(***************************************************************************)
EXTENDS Sequences

CONSTANTS
  Problems,
  NoProblem,  \* no run is under way
  Reports     \* the kinds of event between the first and the answer

VARIABLES
  job,     \* the problem under investigation, or NoProblem
  trace,   \* the kinds of event the latest run has published
  closed   \* whether the stream of the latest run was closed

Answered == trace # <<>> /\ trace[Len(trace)] = "brief-ready"

Init == job = NoProblem /\ trace = <<>> /\ closed = FALSE

Open(p) ==
  /\ job = NoProblem
  /\ job' = p
  /\ trace' = <<"orchestrator-started">>
  /\ closed' = FALSE

Report(kind) ==
  /\ job # NoProblem
  /\ ~Answered
  /\ trace' = Append(trace, kind)
  /\ UNCHANGED <<job, closed>>

Answer ==
  /\ job # NoProblem
  /\ ~Answered
  /\ trace' = Append(trace, "brief-ready")
  /\ UNCHANGED <<job, closed>>

Close ==
  /\ job # NoProblem
  /\ Answered
  /\ closed' = TRUE
  /\ job' = NoProblem
  /\ UNCHANGED trace

Fail ==
  /\ job # NoProblem
  /\ ~Answered
  /\ job' = NoProblem
  /\ UNCHANGED <<trace, closed>>

Next ==
  \/ \E p \in Problems : Open(p)
  \/ \E kind \in Reports : Report(kind)
  \/ Answer
  \/ Close
  \/ Fail

Spec == Init /\ [][Next]_<<job, trace, closed>>
=============================================================================
