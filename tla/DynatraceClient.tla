-------------------------- MODULE DynatraceClient ---------------------------
(***************************************************************************)
(* DynatraceClient (dynatrace_client.py): each public method is one or     *)
(* more tool calls of the MCP server, one after the other, each with its   *)
(* own retry budget; what a method read or sent is remembered when all of  *)
(* its tool calls have succeeded.                                          *)
(*                                                                         *)
(* A problem context is the sequence of the states of the problem its      *)
(* three reads saw; a brief is its text, so equal briefs have equal hashes. *)
(* Shapes and parsing of the responses are left out.                       *)
(***************************************************************************)
EXTENDS Naturals, Sequences

CONSTANTS
  Problems,
  Briefs,       \* rendered briefs
  MaxRetries,   \* max_retries
  Allowlists,   \* the tool_allowlists it may be configured with
  MaxChanges    \* bound of the model: changes of problems at Dynatrace

ASSUME ClientAssumption ==
  /\ MaxRetries \in Nat
  /\ MaxChanges \in Nat
  /\ Allowlists \subseteq SUBSET {"list_problems", "execute_dql", "send_event"}

\* The tools a method calls, in order (get_topology_neighbors is an
\* execute_dql as far as the client's state goes).
ToolsOf(method) ==
  CASE method = "get_problem_context" -> <<"list_problems", "execute_dql", "execute_dql">>
    [] method = "execute_dql" -> <<"execute_dql">>
    [] method = "send_investigation_event" -> <<"send_event">>

VARIABLES
  allowlist, \* tool_allowlist; the empty one allows every tool
  call,      \* the method call in progress, if any
  left,      \* attempts_remaining of its current tool call
  returned,  \* how the latest method call ended
  contexts,  \* _problem_context_cache, <<>> where there is none
  sent,      \* the keys of _sent_events
  tries,     \* history: attempts made of the current tool call
  state,     \* Dynatrace: the current state of each problem
  ingested,  \* Grail: how many events carry a problem and a brief
  lost       \* history: how many of those ingestions were answered with an error

client       == <<call, left, returned, contexts, sent, tries>>
dynatrace    == <<ingested, lost>>
clientVars   == <<allowlist, client, state, dynatrace>>

NoCall == [method |-> "none", problem |-> "none", brief |-> 0, reads |-> <<>>]
Idle   == call.method = "none"

\* _check_allowed looks at one tool per method.
Allowed(method) ==
  \/ allowlist = {}
  \/ (IF method = "send_investigation_event" THEN "send_event" ELSE "execute_dql")
       \in allowlist

Return(outcome, context) == returned' = [outcome |-> outcome, context |-> context]

ClientInit ==
  /\ allowlist \in Allowlists
  /\ call = NoCall
  /\ left = 0
  /\ returned = [outcome |-> "none", context |-> <<>>]
  /\ contexts = [p \in Problems |-> <<>>]
  /\ sent = {}
  /\ tries = 0
  /\ state = [p \in Problems |-> 1]
  /\ ingested = [e \in Problems \X Briefs |-> 0]
  /\ lost = [e \in Problems \X Briefs |-> 0]

-----------------------------------------------------------------------------
(* Entry of a method *)

Refuse(method) ==
  /\ ~Allowed(method)
  /\ Return("not_allowed", <<>>)
  /\ UNCHANGED <<call, left, contexts, sent, tries>>

Start(method, p, b) ==
  /\ Allowed(method)
  /\ call' = [method |-> method, problem |-> p, brief |-> b, reads |-> <<>>]
  /\ left' = MaxRetries
  /\ tries' = 0
  /\ Return("none", <<>>)
  /\ UNCHANGED <<contexts, sent>>

\* The context is cached, and the call is over ...
CachedContext(p) ==
  /\ Allowed("get_problem_context")
  /\ contexts[p] # <<>>
  /\ Return("value", contexts[p])
  /\ UNCHANGED <<call, left, contexts, sent, tries>>

\* ... or has to be hydrated.
GetProblemContext(p) ==
  /\ Idle
  /\ \/ Refuse("get_problem_context")
     \/ CachedContext(p)
     \/ contexts[p] = <<>> /\ Start("get_problem_context", p, 0)
  /\ UNCHANGED <<allowlist, state, dynatrace>>

ExecuteDql ==
  /\ Idle
  /\ Refuse("execute_dql") \/ Start("execute_dql", "none", 0)
  /\ UNCHANGED <<allowlist, state, dynatrace>>

\* The brief was sent before by this client.
AlreadySent(p, b) ==
  /\ Allowed("send_investigation_event")
  /\ <<p, b>> \in sent
  /\ Return("value", <<>>)
  /\ UNCHANGED <<call, left, contexts, sent, tries>>

SendInvestigationEvent(p, b) ==
  /\ Idle
  /\ \/ Refuse("send_investigation_event")
     \/ AlreadySent(p, b)
     \/ <<p, b>> \notin sent /\ Start("send_investigation_event", p, b)
  /\ UNCHANGED <<allowlist, state, dynatrace>>

-----------------------------------------------------------------------------
(* _call_tool_with_retry, one attempt at a time *)

Tool == ToolsOf(call.method)[Len(call.reads) + 1]
Sending == ~Idle /\ Tool = "send_event"
Event == <<call.problem, call.brief>>

Attempt == ~Idle /\ tries' = tries + 1

\* The effect of send_event, if that is what the attempt was.
Ingest ==
  ingested' = IF Sending THEN [ingested EXCEPT ![Event] = @ + 1] ELSE ingested

\* What the tool returned: the state of the problem, for a read of it.
Response == IF call.method = "get_problem_context" THEN state[call.problem] ELSE 0

\* FAULT: the next tool call inherits what is left of the budget.
FaultyNextTool ==
  /\ call' = [call EXCEPT !.reads = Append(@, Response)]
  /\ tries' = 0
  /\ Return("none", <<>>)
  /\ UNCHANGED <<left, contexts, sent>>

\* FAULT: the context is cached as it is being read.
EagerNextTool ==
  /\ call' = [call EXCEPT !.reads = Append(@, Response)]
  /\ contexts' = [contexts EXCEPT ![call.problem] = call'.reads]
  /\ left' = MaxRetries
  /\ tries' = 0
  /\ Return("none", <<>>)
  /\ UNCHANGED sent

\* One more tool call to make: a new retry budget.
NextTool ==
  /\ call' = [call EXCEPT !.reads = Append(@, Response)]
  /\ left' = MaxRetries
  /\ tries' = 0
  /\ Return("none", <<>>)
  /\ UNCHANGED <<contexts, sent>>

\* FAULT: what was sent is not remembered.
FaultyRemember(reads) ==
  /\ contexts' = IF call.method = "get_problem_context"
                   THEN [contexts EXCEPT ![call.problem] = reads] ELSE contexts
  /\ UNCHANGED sent

\* The caches, written when the last tool call of a method has succeeded.
Remember(reads) ==
  /\ contexts' = IF call.method = "get_problem_context"
                   THEN [contexts EXCEPT ![call.problem] = reads] ELSE contexts
  /\ sent' = IF call.method = "send_investigation_event"
               THEN sent \cup {Event} ELSE sent

Finish ==
  LET reads == Append(call.reads, Response)
  IN  /\ Remember(reads)
      /\ call' = NoCall
      /\ tries' = tries + 1
      /\ Return("value", IF call.method = "get_problem_context" THEN reads ELSE <<>>)
      /\ UNCHANGED left

Raise(outcome) ==
  /\ call' = NoCall
  /\ Return(outcome, <<>>)
  /\ UNCHANGED <<left, contexts, sent>>

ToolAnswers ==
  /\ ~Idle
  /\ IF Len(call.reads) + 1 < Len(ToolsOf(call.method)) THEN NextTool ELSE Finish
  /\ Ingest
  /\ UNCHANGED <<allowlist, state, lost>>

\* RateLimited: again while the budget lasts, else the exception goes on.
RateLimited ==
  /\ Attempt
  /\ IF left > 0
       THEN left' = left - 1 /\ UNCHANGED <<call, returned, contexts, sent>>
       ELSE Raise("rate_limited")
  /\ UNCHANGED <<allowlist, state, dynatrace>>

\* DynatraceUnavailable, or any other exception turned into it, no retry.
ToolFails ==
  /\ Attempt
  /\ Raise("unavailable")
  /\ UNCHANGED <<allowlist, state, dynatrace>>

\* The same, but the event was ingested and only the answer was lost.
AnswerIsLost ==
  /\ Sending
  /\ Attempt
  /\ Raise("unavailable")
  /\ Ingest
  /\ lost' = [lost EXCEPT ![Event] = @ + 1]
  /\ UNCHANGED <<allowlist, state>>

ToolStep == ToolAnswers \/ RateLimited \/ ToolFails \/ AnswerIsLost

-----------------------------------------------------------------------------
\* close: the contexts go, unless the MCP process refuses to be closed; what
\* was sent stays remembered.
Close ==
  /\ Idle
  /\ contexts' \in {contexts, [p \in Problems |-> <<>>]}
  /\ UNCHANGED <<call, left, returned, sent, tries, allowlist, state, dynatrace>>

\* Meanwhile the problem goes on at Dynatrace.
ProblemChanges(p) ==
  /\ state[p] <= MaxChanges
  /\ state' = [state EXCEPT ![p] = @ + 1]
  /\ UNCHANGED <<allowlist, client, dynatrace>>

-----------------------------------------------------------------------------
\* RateLimited reaches the caller of a method only when one tool call was
\* attempted max_retries times more than once, whatever the earlier tool calls
\* of the method had used up; no tool call is attempted more often.
RetryBudgetIsPerToolCall ==
  /\ tries <= MaxRetries + 1
  /\ returned.outcome = "rate_limited" => tries = MaxRetries + 1

\* A context is cached whole, by the call that read all of it, or not at all: a
\* hydration that fails half way leaves nothing behind that a later specialist
\* could take for the problem's context.
HydrationIsAllOrNothing ==
  [][\A p \in Problems : contexts'[p] \notin {contexts[p], <<>>} =>
       /\ Len(contexts'[p]) = Len(ToolsOf("get_problem_context"))
       /\ returned'.outcome = "value"
       /\ returned'.context = contexts'[p]]_clientVars

\* The same brief of the same problem is ingested once, plus once for each time
\* Grail took the event and the client was told otherwise.
EventsAreSentOnce ==
  \A e \in Problems \X Briefs : ingested[e] <= 1 + lost[e]
=============================================================================
