--------------------------- MODULE DeliveryProofs ---------------------------
(***************************************************************************)
(* What is proved of Delivery, and of DynatraceClient under it, for every  *)
(* set of problems, retry budget, allow-list and wiring, and any number of *)
(* webhooks, retries, restarts and crashes.                                *)
(*                                                                         *)
(* The invariant follows a brief through its deliveries.  ClientInv is the *)
(* client's own: the shape of its state and what a call has used of its    *)
(* budget.  CallInv says which call a stage has under way.  EventInv,      *)
(* FileInv and PostInv say for each place a brief goes to what is there    *)
(* before the stage that delivers it and what is there from that stage on; *)
(* AnswerInv collects them for the requests that were answered.            *)
(***************************************************************************)
EXTENDS Delivery, SequenceTheorems, TLAPS

-----------------------------------------------------------------------------
(* The client *)

ReadMethods == {"get_problem_context", "execute_dql"}

Calls ==
  {NoCall}
  \cup [method : {"get_problem_context"}, problem : Problems, brief : {0}, reads : Seq(Nat)]
  \cup [method : {"execute_dql"}, problem : {"none"}, brief : {0}, reads : {<<>>}]
  \cup [method : {"send_investigation_event"}, problem : Problems, brief : Briefs,
        reads : {<<>>}]

MethodOutcomes == {"none", "value", "not_allowed", "rate_limited", "unavailable"}

ClientShape ==
  /\ call \in Calls
  /\ call.method = "get_problem_context" => Len(call.reads) <= 2
  /\ left \in Nat
  /\ tries \in Nat
  /\ returned \in [outcome : MethodOutcomes, context : Seq(Nat)]
  /\ contexts \in [Problems -> Seq(Nat)]
  /\ sent \subseteq Problems \X Briefs
  /\ state \in [Problems -> Nat]
  /\ ingested \in [Problems \X Briefs -> Nat]
  /\ lost \in [Problems \X Briefs -> Nat]

\* What was tried of a tool call and what is left of its budget add up.
Budget ==
  /\ ~Idle => tries + left = MaxRetries /\ returned.outcome = "none"
  /\ RetryBudgetIsPerToolCall

ClientInv == ClientShape /\ Budget

\* The number of tool calls of each method.
LEMMA ToolCounts ==
  /\ ToolsOf("get_problem_context") = <<"list_problems", "execute_dql", "execute_dql">>
  /\ ToolsOf("execute_dql") = <<"execute_dql">>
  /\ ToolsOf("send_investigation_event") = <<"send_event">>
  /\ Len(ToolsOf("get_problem_context")) = 3
  /\ Len(ToolsOf("execute_dql")) = 1
  /\ Len(ToolsOf("send_investigation_event")) = 1
  /\ \A i \in 1..3 : ToolsOf("get_problem_context")[i] # "send_event"
  /\ ToolsOf("execute_dql")[1] = "execute_dql"
  /\ ToolsOf("send_investigation_event")[1] = "send_event"
PROOF
  BY DEF ToolsOf

\* While a call is under way it is a read or the sending of an event.
LEMMA CallsUnderWay ==
  ASSUME ClientShape, ~Idle
  PROVE  /\ \/ /\ call.method = "get_problem_context"
               /\ call.problem \in Problems /\ call.reads \in Seq(Nat)
               /\ Len(call.reads) \in Nat /\ Len(call.reads) <= 2
            \/ call.method = "execute_dql" /\ call.reads = <<>>
            \/ /\ call.method = "send_investigation_event"
               /\ call.problem \in Problems /\ call.brief \in Briefs
               /\ call.reads = <<>>
         /\ call = [method |-> call.method, problem |-> call.problem,
                    brief |-> call.brief, reads |-> call.reads]
         /\ Response \in Nat
PROOF
<1>1. call \in Calls \ {NoCall} /\ state \in [Problems -> Nat]
  BY DEF ClientShape, Idle, NoCall
<1>2. CASE call \in [method : {"get_problem_context"}, problem : Problems,
                     brief : {0}, reads : Seq(Nat)]
  <2>1. Len(call.reads) \in Nat /\ Len(call.reads) <= 2
    BY <1>2, LenProperties DEF ClientShape
  <2>2. call.method = "get_problem_context" /\ call.problem \in Problems
    BY <1>2
  <2>3. Response \in Nat
    BY <1>1, <2>2 DEF Response
  <2>4. call = [method |-> call.method, problem |-> call.problem,
                brief |-> call.brief, reads |-> call.reads]
        /\ call.reads \in Seq(Nat)
    BY <1>2
  <2>. QED
    BY <2>1, <2>2, <2>3, <2>4
<1>3. CASE call \in [method : {"execute_dql"}, problem : {"none"}, brief : {0},
                     reads : {<<>>}]
  BY <1>3 DEF Response
<1>4. CASE call \in [method : {"send_investigation_event"}, problem : Problems,
                     brief : Briefs, reads : {<<>>}]
  BY <1>4 DEF Response
<1>. QED
  BY <1>1, <1>2, <1>3, <1>4 DEF Calls

\* What the next tool call is.
LEMMA NextToolCall ==
  ASSUME ClientShape, ~Idle
  PROVE  /\ Sending <=> call.method = "send_investigation_event"
         /\ Len(call.reads) + 1 < Len(ToolsOf(call.method)) <=>
              call.method = "get_problem_context" /\ Len(call.reads) < 2
PROOF
<1>. Len(<<>>) = 0
  OBVIOUS
<1>1. CASE call.method = "get_problem_context"
  <2>1. Len(call.reads) \in Nat /\ Len(call.reads) <= 2
    BY <1>1, CallsUnderWay
  <2>2. Tool # "send_event"
    <3>. Len(call.reads) + 1 \in 1..3
      BY <2>1
    <3>. QED
      BY <1>1, ToolCounts DEF Tool
  <2>3. Len(ToolsOf(call.method)) = 3
    BY <1>1, ToolCounts
  <2>4. ~Sending
    BY <2>2 DEF Sending
  <2>5. Len(call.reads) + 1 < Len(ToolsOf(call.method)) <=> Len(call.reads) < 2
    BY <2>1, <2>3
  <2>. QED
    BY <1>1, <2>4, <2>5
<1>2. CASE call.method = "execute_dql"
  <2>1. Len(call.reads) \in Nat /\ Len(call.reads) = 0 /\ Tool = "execute_dql"
    BY <1>2, CallsUnderWay, ToolCounts DEF Tool
  <2>2. Len(ToolsOf(call.method)) = 1
    BY <1>2, ToolCounts
  <2>3. ~Sending
    BY <2>1 DEF Sending
  <2>4. ~(Len(call.reads) + 1 < Len(ToolsOf(call.method)))
    BY <2>1, <2>2
  <2>. QED
    BY <1>2, <2>3, <2>4
<1>3. CASE call.method = "send_investigation_event"
  <2>1. Len(call.reads) \in Nat /\ Len(call.reads) = 0 /\ Tool = "send_event"
    BY <1>3, CallsUnderWay, ToolCounts DEF Tool
  <2>2. Len(ToolsOf(call.method)) = 1
    BY <1>3, ToolCounts
  <2>3. Sending
    BY <2>1 DEF Sending
  <2>4. ~(Len(call.reads) + 1 < Len(ToolsOf(call.method)))
    BY <2>1, <2>2
  <2>. QED
    BY <1>3, <2>3, <2>4
<1>. QED
  BY <1>1, <1>2, <1>3, CallsUnderWay

\* What a method returns or raises is an outcome.
LEMMA Outcomes ==
  /\ <<>> \in Seq(Nat)
  /\ \A outcome \in MethodOutcomes, context \in Seq(Nat) :
       [outcome |-> outcome, context |-> context]
         \in [outcome : MethodOutcomes, context : Seq(Nat)]
PROOF
  OBVIOUS

\* A client that has just been made.
LEMMA InitClientInv ==
  ASSUME ClientAssumption, ClientInit
  PROVE  ClientInv
PROOF
<1>1. ClientShape
  BY DEF ClientInit, ClientShape, Calls, NoCall, MethodOutcomes
<1>2. Budget
  BY DEF ClientInit, Budget, Idle, NoCall, RetryBudgetIsPerToolCall, ClientAssumption
<1>. QED
  BY <1>1, <1>2 DEF ClientInv

\* A method that is refused or answered from a cache makes no call.
LEMMA AnswerWithoutCall ==
  ASSUME ClientInv, Idle, NEW outcome \in {"not_allowed", "value"}, NEW context \in Seq(Nat),
         Return(outcome, context),
         UNCHANGED <<call, left, contexts, sent, tries, state, ingested, lost>>
  PROVE  ClientInv'
PROOF
<1>1. returned' = [outcome |-> outcome, context |-> context]
  BY DEF Return
<1>2. ClientShape'
  BY <1>1 DEF ClientInv, ClientShape, MethodOutcomes
<1>3. Budget'
  BY <1>1 DEF ClientInv, Budget, Idle, RetryBudgetIsPerToolCall
<1>. QED
  BY <1>2, <1>3 DEF ClientInv

\* A method that calls a tool starts with a whole budget.
LEMMA StartKeeps ==
  ASSUME ClientAssumption, ClientInv, NEW method, NEW p, NEW b,
         [method |-> method, problem |-> p, brief |-> b, reads |-> <<>>] \in Calls,
         Start(method, p, b),
         UNCHANGED <<state, ingested, lost>>
  PROVE  ClientInv'
PROOF
<1>1. /\ call' = [method |-> method, problem |-> p, brief |-> b, reads |-> <<>>]
      /\ left' = MaxRetries /\ tries' = 0
      /\ returned' = [outcome |-> "none", context |-> <<>>]
      /\ UNCHANGED <<contexts, sent>>
  BY DEF Start, Return
<1>2. call'.reads = <<>> /\ Len(<<>>) = 0
  BY <1>1
<1>3. ClientShape'
  <2>1. call' \in Calls /\ Len(call'.reads) <= 2
    BY <1>1, <1>2
  <2>2. returned' \in [outcome : MethodOutcomes, context : Seq(Nat)]
    BY <1>1, Outcomes DEF MethodOutcomes
  <2>3. left' \in Nat /\ tries' \in Nat
    BY <1>1 DEF ClientAssumption
  <2>. QED
    BY <1>1, <2>1, <2>2, <2>3 DEF ClientInv, ClientShape
<1>4. Budget'
  BY <1>1 DEF Budget, RetryBudgetIsPerToolCall, ClientAssumption
<1>. QED
  BY <1>3, <1>4 DEF ClientInv

\* A read is refused, answered from the cache or begun.
LEMMA ReadEntryKeeps ==
  ASSUME ClientAssumption, ClientInv, NEW p \in Problems,
         GetProblemContext(p) \/ ExecuteDql
  PROVE  /\ ClientInv'
         /\ Idle
         /\ UNCHANGED <<sent, ingested, lost>>
         /\ call' = call \/ call'.method \in {"get_problem_context", "execute_dql"}
PROOF
<1>1. Idle /\ UNCHANGED <<state, ingested, lost>>
  BY DEF GetProblemContext, ExecuteDql, dynatrace
<1>2. ASSUME NEW method, Refuse(method)
      PROVE  ClientInv' /\ call' = call /\ sent' = sent
  <2>1. ClientInv'
    BY <1>1, <1>2, AnswerWithoutCall, Outcomes DEF Refuse
  <2>. QED
    BY <1>2, <2>1 DEF Refuse
<1>3. CASE CachedContext(p)
  <2>1. contexts[p] \in Seq(Nat)
    BY DEF ClientInv, ClientShape
  <2>2. ClientInv'
    BY <1>1, <1>3, <2>1, AnswerWithoutCall DEF CachedContext
  <2>. QED
    BY <1>1, <1>3, <2>2 DEF CachedContext
<1>4. CASE Start("get_problem_context", p, 0)
  <2>1. [method |-> "get_problem_context", problem |-> p, brief |-> 0, reads |-> <<>>] \in Calls
    BY DEF Calls
  <2>2. ClientInv'
    BY <1>1, <1>4, <2>1, StartKeeps
  <2>. QED
    BY <1>1, <1>4, <2>2 DEF Start
<1>5. CASE Start("execute_dql", "none", 0)
  <2>1. [method |-> "execute_dql", problem |-> "none", brief |-> 0, reads |-> <<>>] \in Calls
    BY DEF Calls
  <2>2. ClientInv'
    BY <1>1, <1>5, <2>1, StartKeeps
  <2>. QED
    BY <1>1, <1>5, <2>2 DEF Start
<1>. QED
  BY <1>1, <1>2, <1>3, <1>4, <1>5 DEF GetProblemContext, ExecuteDql

\* A sending is refused, known to the client or begun.
LEMMA SendEntryKeeps ==
  ASSUME ClientAssumption, ClientInv, NEW p \in Problems, NEW b \in Briefs,
         SendInvestigationEvent(p, b)
  PROVE  /\ ClientInv'
         /\ Idle
         /\ UNCHANGED <<sent, ingested, lost>>
         /\ \/ call' = call /\ returned'.outcome = "not_allowed"
            \/ call' = call /\ <<p, b>> \in sent
            \/ /\ <<p, b>> \notin sent
               /\ call' = [method |-> "send_investigation_event", problem |-> p,
                           brief |-> b, reads |-> <<>>]
PROOF
<1>1. Idle /\ UNCHANGED <<state, ingested, lost>>
  BY DEF SendInvestigationEvent, dynatrace
<1>2. CASE Refuse("send_investigation_event")
  <2>1. ClientInv'
    BY <1>1, <1>2, AnswerWithoutCall, Outcomes DEF Refuse
  <2>2. returned'.outcome = "not_allowed" /\ call' = call /\ sent' = sent
    BY <1>2 DEF Refuse, Return
  <2>. QED
    BY <1>1, <2>1, <2>2
<1>3. CASE AlreadySent(p, b)
  <2>1. ClientInv'
    BY <1>1, <1>3, AnswerWithoutCall, Outcomes DEF AlreadySent
  <2>. QED
    BY <1>1, <1>3, <2>1 DEF AlreadySent
<1>4. CASE <<p, b>> \notin sent /\ Start("send_investigation_event", p, b)
  <2>1. [method |-> "send_investigation_event", problem |-> p, brief |-> b,
         reads |-> <<>>] \in Calls
    BY DEF Calls
  <2>2. ClientInv'
    BY <1>1, <1>4, <2>1, StartKeeps
  <2>. QED
    BY <1>1, <1>4, <2>2 DEF Start
<1>. QED
  BY <1>2, <1>3, <1>4 DEF SendInvestigationEvent

\* An exception ends the call; a rate limit does so only once the budget is
\* used up.
LEMMA RaiseKeeps ==
  ASSUME ClientAssumption, ClientInv, ~Idle,
         NEW outcome \in {"rate_limited", "unavailable"},
         outcome = "rate_limited" => left = 0,
         call' = NoCall, tries' = tries + 1, left' = left,
         returned' = [outcome |-> outcome, context |-> <<>>],
         UNCHANGED <<contexts, sent, state>>,
         ingested' \in [Problems \X Briefs -> Nat],
         lost' \in [Problems \X Briefs -> Nat]
  PROVE  ClientInv'
PROOF
<1>2. ClientShape'
  <2>1. call' \in Calls /\ call'.method # "get_problem_context"
    BY DEF Calls, NoCall
  <2>2. returned' \in [outcome : MethodOutcomes, context : Seq(Nat)]
    BY Outcomes DEF MethodOutcomes
  <2>3. left' \in Nat /\ tries' \in Nat
    BY DEF ClientInv, ClientShape
  <2>. QED
    BY <2>1, <2>2, <2>3 DEF ClientInv, ClientShape
<1>3. tries + left = MaxRetries /\ tries \in Nat /\ left \in Nat
  BY DEF ClientInv, ClientShape, Budget
<1>4. Budget'
  <2>1. Idle'
    BY DEF Idle, NoCall
  <2>2. returned'.outcome = "rate_limited" => left = 0
    OBVIOUS
  <2>. QED
    <3>1. RetryBudgetIsPerToolCall'
      BY <1>3, <2>2 DEF RetryBudgetIsPerToolCall, ClientAssumption
    <3>. QED
      BY <2>1, <3>1 DEF Budget
<1>. QED
  BY <1>2, <1>4 DEF ClientInv

\* The effect of an attempt to send is counted at its event and no other.
LEMMA IngestCounts ==
  ASSUME ClientShape, Ingest
  PROVE  /\ ingested' \in [Problems \X Briefs -> Nat]
         /\ ~Sending => ingested' = ingested
         /\ Sending => /\ Event \in Problems \X Briefs
                      /\ ingested' = [ingested EXCEPT ![Event] = @ + 1]
PROOF
<1>1. CASE ~Sending
  BY <1>1 DEF Ingest, ClientShape
<1>2. CASE Sending
  <2>1. Event \in Problems \X Briefs
    BY <1>2, CallsUnderWay, NextToolCall DEF Sending, Event
  <2>2. ingested' = [ingested EXCEPT ![Event] = @ + 1]
    BY <1>2 DEF Ingest
  <2>3. ingested[Event] \in Nat
    BY <2>1 DEF ClientShape
  <2>4. ingested' \in [Problems \X Briefs -> Nat]
    BY <2>1, <2>2, <2>3 DEF ClientShape
  <2>. QED
    BY <1>2, <2>1, <2>2, <2>4
<1>. QED
  BY <1>1, <1>2

\* A tool call that succeeds is followed by the next one, with a budget of its
\* own, or ends the method.
LEMMA ToolAnswersKeeps ==
  ASSUME ClientAssumption, ClientInv, ToolAnswers
  PROVE  ClientInv'
PROOF
<1>1. /\ ~Idle /\ UNCHANGED <<state, lost>>
      /\ ingested' \in [Problems \X Briefs -> Nat]
  BY IngestCounts DEF ToolAnswers, ClientInv
<1>2. /\ call = [method |-> call.method, problem |-> call.problem,
                brief |-> call.brief, reads |-> call.reads]
      /\ Response \in Nat
  BY <1>1, CallsUnderWay DEF ClientInv
<1>3. CASE call.method = "get_problem_context" /\ Len(call.reads) < 2 /\ NextTool
  <2>1. call' = [call EXCEPT !.reads = Append(call.reads, Response)]
    BY <1>3 DEF NextTool
  <2>2. call \in [method : {"get_problem_context"}, problem : Problems,
                 brief : {0}, reads : Seq(Nat)]
    BY <1>3 DEF ClientInv, ClientShape, Calls, NoCall
  <2>3. /\ Append(call.reads, Response) \in Seq(Nat)
        /\ Len(Append(call.reads, Response)) = Len(call.reads) + 1
        /\ Len(call.reads) \in Nat
    BY <1>2, <2>2, AppendProperties, LenProperties
  <2>4. call' \in Calls /\ Len(call'.reads) <= 2 /\ call'.method # "none"
    <3>1. call'.reads = Append(call.reads, Response)
      BY <2>1, <2>2
    <3>2. call' \in [method : {"get_problem_context"}, problem : Problems,
                    brief : {0}, reads : Seq(Nat)]
      BY <2>1, <2>2, <2>3
    <3>. QED
      BY <1>3, <2>3, <3>1, <3>2 DEF Calls
  <2>5. /\ left' = MaxRetries /\ tries' = 0
        /\ returned' = [outcome |-> "none", context |-> <<>>]
        /\ UNCHANGED <<contexts, sent>>
    BY <1>3 DEF NextTool, Return
  <2>6. returned' \in [outcome : MethodOutcomes, context : Seq(Nat)]
    BY <2>5, Outcomes DEF MethodOutcomes
  <2>7. left' \in Nat /\ tries' \in Nat
    BY <2>5 DEF ClientAssumption
  <2>8. ClientShape'
    BY <1>1, <2>4, <2>5, <2>6, <2>7 DEF ClientInv, ClientShape
  <2>9. Budget'
    BY <2>5 DEF Budget, RetryBudgetIsPerToolCall, ClientAssumption
  <2>. QED
    BY <2>8, <2>9 DEF ClientInv
<1>4. CASE Finish
  <2>. DEFINE reads == Append(call.reads, Response)
  <2>1. /\ Remember(reads)
        /\ call' = NoCall
        /\ tries' = tries + 1
        /\ left' = left
        /\ returned' = [outcome |-> "value", context |->
             IF call.method = "get_problem_context" THEN reads ELSE <<>>]
    BY <1>4 DEF Finish, Return
  <2>2. reads \in Seq(Nat)
    <3>1. call.reads \in Seq(Nat)
      BY <1>1, CallsUnderWay, Outcomes DEF ClientInv
    <3>. QED
      BY <1>2, <3>1, AppendProperties
  <2>3. contexts' \in [Problems -> Seq(Nat)]
    <3>1. contexts \in [Problems -> Seq(Nat)]
      BY DEF ClientInv, ClientShape
    <3>. HIDE DEF reads
    <3>. QED
      BY <2>1, <2>2, <3>1 DEF Remember
  <2>4. sent' \subseteq Problems \X Briefs
    <3>1. call.method = "send_investigation_event" => Event \in Problems \X Briefs
      BY <1>1, CallsUnderWay DEF ClientInv, Event
    <3>. QED
      BY <2>1, <3>1 DEF Remember, ClientInv, ClientShape
  <2>5. returned' \in [outcome : MethodOutcomes, context : Seq(Nat)]
    <3>. HIDE DEF reads
    <3>. QED
      BY <2>1, <2>2, Outcomes DEF MethodOutcomes
  <2>6. left' \in Nat /\ tries' \in Nat
    BY <2>1 DEF ClientInv, ClientShape
  <2>7. call' \in Calls /\ call'.method # "get_problem_context" /\ Idle'
    BY <2>1 DEF Calls, NoCall, Idle
  <2>8. ClientShape'
    BY <1>1, <2>3, <2>4, <2>5, <2>6, <2>7 DEF ClientInv, ClientShape
  <2>9. tries + left = MaxRetries /\ tries \in Nat /\ left \in Nat
    BY <1>1 DEF ClientInv, ClientShape, Budget
  <2>10. returned'.outcome = "value" /\ tries' = tries + 1
    BY <2>1
  <2>11. RetryBudgetIsPerToolCall'
    BY <2>9, <2>10 DEF RetryBudgetIsPerToolCall, ClientAssumption
  <2>. QED
    BY <2>7, <2>8, <2>11 DEF ClientInv, Budget
<1>. QED
  BY <1>1, <1>3, <1>4, NextToolCall DEF ToolAnswers, ClientInv

\* What an attempt of a tool call may do: the method goes on or is over, and
\* only an event on its way is ingested, remembered or lost.
LEMMA ToolStepKeeps ==
  ASSUME ClientAssumption, ClientInv, ToolStep
  PROVE  /\ ClientInv'
         /\ ~Idle
         /\ \/ call' = NoCall
            \/ /\ call'.method = call.method /\ call'.problem = call.problem
               /\ call'.brief = call.brief
         /\ ~Sending => UNCHANGED <<sent, ingested, lost>>
         /\ Sending =>
              \/ /\ UNCHANGED <<sent, ingested, lost>>
                 /\ \/ call' = call
                    \/ call' = NoCall /\ returned'.outcome # "value"
              \/ /\ call' = NoCall
                 /\ sent' = sent \cup {Event}
                 /\ ingested' = [ingested EXCEPT ![Event] = @ + 1]
                 /\ lost' = lost
              \/ /\ call' = NoCall /\ returned'.outcome # "value"
                 /\ sent' = sent
                 /\ ingested' = [ingested EXCEPT ![Event] = @ + 1]
                 /\ lost' = [lost EXCEPT ![Event] = @ + 1]
PROOF
<1>0. ~Idle
  BY DEF ToolStep, ToolAnswers, RateLimited, ToolFails, AnswerIsLost, Attempt
<1>1. CASE ToolAnswers
  <2>1. ClientInv'
    BY <1>1, ToolAnswersKeeps
  <2>2. lost' = lost /\ Ingest
    BY <1>1 DEF ToolAnswers
  <2>3. CASE call.method = "get_problem_context" /\ Len(call.reads) < 2 /\ NextTool
    <3>1. ~Sending
      BY <1>0, <2>3, NextToolCall DEF ClientInv
    <3>2. ingested' = ingested
      BY <2>2, <3>1, IngestCounts DEF ClientInv
    <3>3. sent' = sent /\ call' = [call EXCEPT !.reads = Append(call.reads, Response)]
      BY <2>3 DEF NextTool
    <3>4. call'.method = call.method /\ call'.problem = call.problem
          /\ call'.brief = call.brief
      <4>1. call = [method |-> call.method, problem |-> call.problem,
                    brief |-> call.brief, reads |-> call.reads]
        BY <1>0, CallsUnderWay DEF ClientInv
      <4>. QED
        BY <3>3, <4>1
    <3>. QED
      BY <1>0, <2>1, <2>2, <3>1, <3>2, <3>3, <3>4
  <2>4. CASE Finish
    <3>1. call' = NoCall
      BY <2>4 DEF Finish
    <3>2. sent' = IF call.method = "send_investigation_event"
                    THEN sent \cup {Event} ELSE sent
      BY <2>4 DEF Finish, Remember
    <3>3. CASE Sending
      <4>1. call.method = "send_investigation_event"
        BY <1>0, <3>3, NextToolCall DEF ClientInv
      <4>2. ingested' = [ingested EXCEPT ![Event] = @ + 1]
        BY <2>2, <3>3, IngestCounts DEF ClientInv
      <4>. QED
        BY <1>0, <2>1, <2>2, <3>1, <3>2, <3>3, <4>1, <4>2
    <3>4. CASE ~Sending
      <4>1. call.method # "send_investigation_event"
        BY <1>0, <3>4, NextToolCall DEF ClientInv
      <4>2. ingested' = ingested
        BY <2>2, <3>4, IngestCounts DEF ClientInv
      <4>. QED
        BY <1>0, <2>1, <2>2, <3>1, <3>2, <3>4, <4>1, <4>2
    <3>. QED
      BY <3>3, <3>4
  <2>. QED
    BY <1>0, <1>1, <2>3, <2>4, NextToolCall DEF ToolAnswers, ClientInv
<1>2. CASE RateLimited
  <2>1. UNCHANGED <<state, ingested, lost>> /\ tries' = tries + 1
    BY <1>2 DEF RateLimited, Attempt, dynatrace
  <2>2. CASE left > 0 /\ left' = left - 1 /\ UNCHANGED <<call, returned, contexts, sent>>
    <3>1. tries + left = MaxRetries /\ returned.outcome = "none" /\ left \in Nat /\ tries \in Nat
      BY <1>0 DEF ClientInv, Budget, ClientShape
    <3>2. tries' + left' = MaxRetries /\ left' \in Nat /\ tries' \in Nat
      BY <2>1, <2>2, <3>1
    <3>3. ClientShape'
      BY <2>1, <2>2, <3>2 DEF ClientInv, ClientShape
    <3>4. RetryBudgetIsPerToolCall'
      <4>1. returned'.outcome = "none"
        BY <2>2, <3>1
      <4>2. /\ MaxRetries \in Nat /\ tries' \in Nat
            /\ tries' <= MaxRetries + 1
        BY <1>0, <2>1, <2>2, <3>1 DEF ClientAssumption
      <4>. QED
        BY <4>1, <4>2 DEF RetryBudgetIsPerToolCall
    <3>5. Budget'
      BY <2>2, <3>1, <3>2, <3>4 DEF Budget
    <3>6. ClientInv' /\ call' = call /\ UNCHANGED <<sent, ingested, lost>>
      BY <2>1, <2>2, <3>3, <3>5 DEF ClientInv
    <3>7. CASE Sending
      BY <1>0, <3>6, <3>7
    <3>8. CASE ~Sending
      BY <1>0, <3>6, <3>8
    <3>. QED
      BY <3>7, <3>8
  <2>3. CASE ~(left > 0) /\ Raise("rate_limited")
    <3>1. left = 0
      BY <2>3 DEF ClientInv, ClientShape
    <3>2. /\ call' = NoCall /\ left' = left
          /\ returned' = [outcome |-> "rate_limited", context |-> <<>>]
          /\ UNCHANGED <<contexts, sent>>
      BY <2>3 DEF Raise, Return
    <3>3. /\ ingested' \in [Problems \X Briefs -> Nat]
          /\ lost' \in [Problems \X Briefs -> Nat]
      BY <2>1 DEF ClientInv, ClientShape
    <3>4. ClientInv'
      BY <1>0, <2>1, <3>1, <3>2, <3>3, RaiseKeeps
    <3>. QED
      BY <1>0, <2>1, <3>2, <3>4
  <2>. QED
    BY <1>2, <2>2, <2>3 DEF RateLimited
<1>3. CASE ToolFails
  <2>1. /\ UNCHANGED <<state, ingested, lost>>
        /\ tries' = tries + 1 /\ call' = NoCall /\ left' = left
        /\ returned' = [outcome |-> "unavailable", context |-> <<>>]
        /\ UNCHANGED <<contexts, sent>>
    BY <1>3 DEF ToolFails, Attempt, Raise, Return, dynatrace
  <2>2. /\ ingested' \in [Problems \X Briefs -> Nat]
        /\ lost' \in [Problems \X Briefs -> Nat]
    BY <2>1 DEF ClientInv, ClientShape
  <2>3. ClientInv'
    BY <1>0, <2>1, <2>2, RaiseKeeps
  <2>. QED
    BY <1>0, <2>1, <2>3
<1>4. CASE AnswerIsLost
  <2>1. /\ Sending /\ Ingest
        /\ lost' = [lost EXCEPT ![Event] = @ + 1]
        /\ state' = state
        /\ tries' = tries + 1 /\ call' = NoCall /\ left' = left
        /\ returned' = [outcome |-> "unavailable", context |-> <<>>]
        /\ UNCHANGED <<contexts, sent>>
    BY <1>4 DEF AnswerIsLost, Attempt, Raise, Return
  <2>2. /\ Event \in Problems \X Briefs
        /\ ingested' \in [Problems \X Briefs -> Nat]
        /\ ingested' = [ingested EXCEPT ![Event] = @ + 1]
    BY <2>1, IngestCounts DEF ClientInv
  <2>3. lost' \in [Problems \X Briefs -> Nat]
    BY <2>1, <2>2 DEF ClientInv, ClientShape
  <2>4. ClientInv'
    BY <1>0, <2>1, <2>2, <2>3, RaiseKeeps
  <2>. QED
    BY <1>0, <2>1, <2>2, <2>4
<1>. QED
  BY <1>1, <1>2, <1>3, <1>4 DEF ToolStep

-----------------------------------------------------------------------------
(* A request on its way through the endpoint *)

Briefed == {"writing_back", "written_back", "filing", "posting", "sending", "sent",
            "responding"}
Unposted == {"writing_back", "written_back", "filing", "posting"}
Filed    == {"posting", "sending", "sent", "responding"}
Posted   == {"sending", "sent", "responding"}

RequestInv ==
  /\ wiring \in [slack : BOOLEAN, client : {"none", "endpoint", "both"}, demo : BOOLEAN]
  /\ stage \in {"idle", "investigating"} \cup Briefed
  /\ topic \in Problems
  /\ brief \in Nat
  /\ stops \in Nat
  /\ ~up => stage = "idle"
  /\ stage # "idle" => failure = "none"
  /\ stage = "investigating" => brief + 1 \in Briefs
  /\ stage \in Briefed => brief \in Briefs
  /\ stage = "responding" => wiring.client = "none"

\* The call under way is one the current stage makes.
CallInv ==
  ~Idle =>
    \/ stage = "investigating" /\ call.method \in {"get_problem_context", "execute_dql"}
    \/ /\ stage \in {"written_back", "sent"}
       /\ call.method = "send_investigation_event"
       /\ call.problem = topic /\ call.brief = brief
       /\ <<topic, brief>> \notin sent

\* An event the client does not remember was never ingested unless the answer
\* was lost, while its brief is the current one; briefs to come have no events.
EventInv ==
  /\ EventsAreSentOnce
  /\ \A p \in Problems, b \in Briefs :
       b > brief => ingested[<<p, b>>] <= lost[<<p, b>>]
  /\ stage \in Briefed /\ <<topic, brief>> \notin sent =>
       ingested[<<topic, brief>>] <= lost[<<topic, brief>>]
  /\ \A e \in sent : ingested[e] >= 1
  /\ stage = "sent" /\ Idle /\ returned.outcome = "value" => <<topic, brief>> \in sent

\* From the file on, the file holds the current brief.
FileInv ==
  /\ files \in [Problems -> Nat]
  /\ stage \in Filed => files[topic] = brief /\ topic \notin torn
  /\ SlackNeverRunsAhead

\* Posts are of briefs in order, the current one comes last; a problem that is
\* not in the notifier's cache owes its posts to lost answers and to stops.
PostInv ==
  /\ posted \in [Problems -> Seq(Nat)]
  /\ unheard \in [Problems -> Nat]
  /\ cached \subseteq Problems
  /\ \A p \in Problems : \A i \in 1..Len(posted[p]) :
       posted[p][i] <= brief /\ (stage \in Unposted => posted[p][i] # brief)
  /\ \A p \in Problems : \A i, j \in 1..Len(posted[p]) :
       i < j => posted[p][i] < posted[p][j]
  /\ \A p \in Problems : ~wiring.demo =>
       Len(posted[p]) <= unheard[p] + stops + (IF up /\ p \in cached THEN 1 ELSE 0)
  /\ \A p \in cached : posted[p] # <<>>
  /\ stage \in Posted /\ wiring.slack =>
       /\ posted[topic] # <<>>
       /\ wiring.demo => \E i \in 1..Len(posted[topic]) : posted[topic][i] = brief
  /\ DynatraceNeverBlocksSlack

AnswerInv ==
  /\ \A e \in answered : e \in Problems \X Briefs /\ e[2] <= brief
  /\ AnsweredIsDelivered

IInv ==
  /\ ClientInv /\ RequestInv /\ CallInv
  /\ EventInv /\ FileInv /\ PostInv /\ AnswerInv

\* The briefs are numbered from one.
LEMMA BriefNumbers ==
  /\ MaxRequests \in Nat
  /\ \A b : b \in Briefs <=> b \in Nat /\ 1 <= b /\ b <= MaxRequests
PROOF
  BY DeliveryAssumption

\* Nothing is delivered at the start.
LEMMA InitDelivery == DeliveryInit => IInv
PROOF
<1>. SUFFICES ASSUME DeliveryInit PROVE IInv
  OBVIOUS
<1>. /\ ClientInit /\ wiring \in Wirings /\ up = TRUE /\ stage = "idle"
     /\ topic \in Problems /\ brief = 0 /\ failure = "none"
     /\ files = [p \in Problems |-> 0] /\ torn = {}
     /\ posted = [p \in Problems |-> <<>>] /\ unheard = [p \in Problems |-> 0]
     /\ cached = {} /\ answered = {} /\ stops = 0
  BY DEF DeliveryInit
<1>1. ClientInv
  BY InitClientInv, ClientAssumption
<1>2. RequestInv
  BY DeliveryAssumption DEF RequestInv, Briefed
<1>3. call = NoCall /\ sent = {} /\ ingested = [e \in Problems \X Briefs |-> 0]
      /\ lost = [e \in Problems \X Briefs |-> 0]
  BY DEF ClientInit
<1>4. CallInv
  BY <1>3 DEF CallInv, Idle, NoCall
<1>5. EventInv
  BY <1>3 DEF EventInv, EventsAreSentOnce, Briefed
<1>6. FileInv
  BY DEF FileInv, SlackNeverRunsAhead, Filed
<1>7. PostInv
  <2>1. \A p \in Problems : posted[p] = <<>> /\ Len(posted[p]) = 0 /\ unheard[p] = 0
    OBVIOUS
  <2>2. posted \in [Problems -> Seq(Nat)] /\ unheard \in [Problems -> Nat]
    OBVIOUS
  <2>. QED
    BY <2>1, <2>2 DEF PostInv, Unposted, Posted, DynatraceNeverBlocksSlack
<1>8. AnswerInv
  BY DEF AnswerInv, AnsweredIsDelivered
<1>. QED
  BY <1>1, <1>2, <1>4, <1>5, <1>6, <1>7, <1>8 DEF IInv

\* A step that delivers nothing: the file, Slack and the answers stay, the
\* request has not moved past a delivery, and it fails for Dynatrace only after
\* its post.
LEMMA QuietKeeps ==
  ASSUME IInv,
         UNCHANGED <<wiring, topic, brief, up, stops>>,
         UNCHANGED <<files, torn, posted, unheard, cached, answered>>,
         stage' \in Filed => stage \in Filed,
         stage' \in Unposted => stage \in Unposted,
         stage' \in Posted => stage \in Posted,
         stage' = "idle" /\ failure' = "dynatrace" =>
           stage \in Posted \/ (stage = "idle" /\ failure = "dynatrace"),
         \A e \in Problems \X Briefs : ingested'[e] >= ingested[e],
         ingested' \in [Problems \X Briefs -> Nat]
  PROVE  FileInv' /\ PostInv' /\ AnswerInv'
PROOF
<1>1. FileInv'
  BY DEF IInv, FileInv, SlackNeverRunsAhead
<1>2. PostInv'
  BY DEF IInv, PostInv, DynatraceNeverBlocksSlack
<1>3. \A p \in Problems, b \in Briefs : ingested[<<p, b>>] >= 1 => ingested'[<<p, b>>] >= 1
  BY DEF IInv, ClientInv, ClientShape
<1>4. AnswerInv'
  BY <1>3 DEF IInv, AnswerInv, AnsweredIsDelivered
<1>. QED
  BY <1>1, <1>2, <1>4

\* Events are as before if the client's memory and Grail are.
LEMMA EventsKeep ==
  ASSUME IInv, UNCHANGED <<brief, topic, sent, ingested, lost>>,
         stage' \in Briefed => stage \in Briefed,
         stage' = "sent" /\ Idle' /\ returned'.outcome = "value" =>
           <<topic, brief>> \in sent
  PROVE  EventInv'
PROOF
  BY DEF IInv, EventInv, EventsAreSentOnce

\* Grail as it was has no fewer events than before.
LEMMA NothingIngested ==
  ASSUME IInv, UNCHANGED ingested
  PROVE  /\ \A e \in Problems \X Briefs : ingested'[e] >= ingested[e]
         /\ ingested' \in [Problems \X Briefs -> Nat]
PROOF
  BY DEF IInv, ClientInv, ClientShape

\* The client is as it was.
LEMMA ClientUntouched ==
  ASSUME IInv, UNCHANGED clientVars
  PROVE  /\ ClientInv'
         /\ Idle' <=> Idle
         /\ UNCHANGED <<call, returned, sent, ingested, lost, state, contexts>>
PROOF
<1>1. UNCHANGED <<call, left, tries, returned, sent, ingested, lost, state, contexts>>
  BY DEF clientVars, client, dynatrace
<1>2. ClientShape' /\ Budget' /\ (Idle' <=> Idle)
  BY <1>1 DEF IInv, ClientInv, ClientShape, Budget, Idle, RetryBudgetIsPerToolCall
<1>. QED
  BY <1>1, <1>2 DEF ClientInv

-----------------------------------------------------------------------------
(* The investigation *)

\* The steps of the investigation: a webhook comes ...
LEMMA ReceiveKeeps ==
  ASSUME IInv, NEW p \in Problems, Receive(p)
  PROVE  IInv'
PROOF
<1>1. /\ stage = "idle" /\ stage' = "investigating" /\ topic' = p /\ up
      /\ brief < MaxRequests /\ failure' = "none"
      /\ returned' = [outcome |-> "none", context |-> <<>>]
      /\ UNCHANGED <<wiring, up, brief, stops>>
      /\ UNCHANGED <<call, left, contexts, sent, tries, state, ingested, lost>>
      /\ UNCHANGED <<files, torn, posted, unheard, cached, answered>>
  BY DEF Receive, Return, dynatrace, disk, slack, history
<1>2. Idle /\ Idle'
  BY <1>1 DEF IInv, CallInv, Idle
<1>3. ClientInv'
  <2>1. returned' \in [outcome : MethodOutcomes, context : Seq(Nat)]
    BY <1>1, Outcomes DEF MethodOutcomes
  <2>2. ClientShape'
    BY <1>1, <2>1 DEF IInv, ClientInv, ClientShape
  <2>3. Budget'
    BY <1>1, <1>2 DEF IInv, ClientInv, Budget, RetryBudgetIsPerToolCall
  <2>. QED
    BY <2>2, <2>3 DEF ClientInv
<1>4. RequestInv'
  BY <1>1, BriefNumbers DEF IInv, RequestInv, Briefed
<1>5. CallInv'
  BY <1>2 DEF CallInv
<1>6. EventInv'
  BY <1>1 DEF IInv, EventInv, EventsAreSentOnce, Briefed
<1>7. FileInv'
  BY <1>1 DEF IInv, FileInv, SlackNeverRunsAhead, Filed
<1>8. PostInv'
  BY <1>1 DEF IInv, PostInv, DynatraceNeverBlocksSlack, Unposted, Posted
<1>9. AnswerInv'
  BY <1>1 DEF IInv, AnswerInv, AnsweredIsDelivered
<1>. QED
  BY <1>3, <1>4, <1>5, <1>6, <1>7, <1>8, <1>9 DEF IInv

\* ... a problem changes at Dynatrace ...
LEMMA ChangeKeeps ==
  ASSUME IInv, NEW p \in Problems, Change(p)
  PROVE  IInv'
PROOF
<1>1. /\ state' = [state EXCEPT ![p] = @ + 1]
      /\ UNCHANGED <<wiring, up, stage, topic, brief, failure, stops>>
      /\ UNCHANGED <<call, left, returned, contexts, sent, tries, ingested, lost>>
      /\ UNCHANGED <<files, torn, posted, unheard, cached, answered>>
  BY DEF Change, ProblemChanges, client, dynatrace, request, disk, slack, history
<1>2. ClientInv'
  <2>1. state' \in [Problems -> Nat]
    BY <1>1 DEF IInv, ClientInv, ClientShape
  <2>2. ClientShape'
    BY <1>1, <2>1 DEF IInv, ClientInv, ClientShape
  <2>3. Budget'
    BY <1>1 DEF IInv, ClientInv, Budget, Idle, RetryBudgetIsPerToolCall
  <2>. QED
    BY <2>2, <2>3 DEF ClientInv
<1>3. RequestInv' /\ CallInv' /\ (Idle' <=> Idle)
  BY <1>1 DEF IInv, RequestInv, CallInv, Idle
<1>4. EventInv'
  BY <1>1, <1>3 DEF IInv, EventInv, EventsAreSentOnce
<1>5. FileInv' /\ PostInv' /\ AnswerInv'
  BY <1>1, QuietKeeps, NothingIngested
<1>. QED
  BY <1>2, <1>3, <1>4, <1>5 DEF IInv

\* ... a specialist asks ...
LEMMA InvestigateKeeps ==
  ASSUME IInv, Investigate
  PROVE  IInv'
PROOF
<1>1. /\ stage = "investigating"
      /\ GetProblemContext(topic) \/ ExecuteDql
      /\ UNCHANGED <<wiring, up, stage, topic, brief, failure, stops>>
      /\ UNCHANGED <<files, torn, posted, unheard, cached, answered>>
  BY DEF Investigate, request, disk, slack, history
<1>2. topic \in Problems
  BY DEF IInv, RequestInv
<1>3. /\ ClientInv' /\ Idle
      /\ UNCHANGED <<sent, ingested, lost>>
      /\ call' = call \/ call'.method \in {"get_problem_context", "execute_dql"}
  BY <1>1, <1>2, ReadEntryKeeps, ClientAssumption DEF IInv
<1>4. RequestInv'
  BY <1>1 DEF IInv, RequestInv
<1>5. CallInv'
  BY <1>1, <1>3 DEF CallInv, Idle
<1>6. EventInv'
  BY <1>1, <1>3, EventsKeep
<1>7. FileInv' /\ PostInv' /\ AnswerInv'
  BY <1>1, <1>3, QuietKeeps, NothingIngested
<1>. QED
  BY <1>3, <1>4, <1>5, <1>6, <1>7 DEF IInv

\* ... handle raises.
LEMMA HandleFailsKeeps ==
  ASSUME IInv, HandleFails
  PROVE  IInv'
PROOF
<1>1. /\ stage = "investigating" /\ stage' = "idle" /\ failure' = "handle" /\ Idle
      /\ UNCHANGED <<wiring, up, topic, brief, stops>>
      /\ UNCHANGED <<files, torn, posted, unheard, cached, answered>>
      /\ UNCHANGED clientVars
  BY DEF HandleFails, Fail, disk, slack, history
<1>2. /\ ClientInv' /\ Idle'
      /\ UNCHANGED <<call, returned, sent, ingested, lost>>
  BY <1>1, ClientUntouched
<1>3. RequestInv'
  BY <1>1 DEF IInv, RequestInv, Briefed
<1>4. CallInv'
  BY <1>2 DEF CallInv
<1>5. EventInv'
  BY <1>1, <1>2, EventsKeep DEF Briefed
<1>6. FileInv' /\ PostInv' /\ AnswerInv'
  BY <1>1, <1>2, QuietKeeps, NothingIngested DEF Filed, Posted, Unposted
<1>. QED
  BY <1>2, <1>3, <1>4, <1>5, <1>6 DEF IInv

\* The brief gets a number that no event and no post has.
LEMMA HandleComposesKeeps ==
  ASSUME IInv, HandleComposes
  PROVE  IInv'
PROOF
<1>1. /\ stage = "investigating" /\ stage' \in {"writing_back", "filing"} /\ Idle
      /\ brief' = brief + 1
      /\ UNCHANGED <<wiring, up, topic, failure, stops>>
      /\ UNCHANGED <<files, torn, posted, unheard, cached, answered>>
      /\ UNCHANGED clientVars
  BY DEF HandleComposes, disk, slack, history
<1>2. /\ ClientInv' /\ Idle'
      /\ UNCHANGED <<call, returned, sent, ingested, lost>>
  BY <1>1, ClientUntouched
<1>3. brief \in Nat /\ brief' \in Briefs /\ topic \in Problems
  BY <1>1 DEF IInv, RequestInv
<1>4. RequestInv'
  BY <1>1, <1>3 DEF IInv, RequestInv, Briefed
<1>5. CallInv'
  BY <1>2 DEF CallInv
<1>6. EventInv'
  <2>1. ingested[<<topic, brief'>>] <= lost[<<topic, brief'>>]
    BY <1>1, <1>3, BriefNumbers DEF IInv, EventInv
  <2>2. \A p \in Problems, b \in Briefs :
          b > brief' => ingested[<<p, b>>] <= lost[<<p, b>>]
    BY <1>1, <1>3, BriefNumbers DEF IInv, EventInv
  <2>. QED
    BY <1>1, <1>2, <2>1, <2>2 DEF IInv, EventInv, EventsAreSentOnce
<1>7. FileInv'
  BY <1>1 DEF IInv, FileInv, SlackNeverRunsAhead, Filed
<1>8. PostInv'
  <2>1. \A p \in Problems : \A i \in 1..Len(posted[p]) :
          posted[p][i] \in Nat /\ posted[p][i] <= brief
    <3>1. \A p \in Problems : \A i \in 1..Len(posted[p]) : posted[p][i] \in Nat
      BY ElementOfSeq DEF IInv, PostInv
    <3>. QED
      BY <3>1 DEF IInv, PostInv
  <2>2. \A p \in Problems : \A i \in 1..Len(posted[p]) :
          posted[p][i] <= brief' /\ posted[p][i] # brief'
    BY <1>1, <1>3, <2>1
  <2>. QED
    BY <1>1, <2>2 DEF IInv, PostInv, DynatraceNeverBlocksSlack, Posted
<1>9. AnswerInv'
  <2>1. \A e \in answered : e[2] <= brief'
    BY <1>1, <1>3, BriefNumbers DEF IInv, AnswerInv
  <2>. QED
    BY <1>1, <1>2, <2>1 DEF IInv, AnswerInv, AnsweredIsDelivered
<1>. QED
  BY <1>2, <1>4, <1>5, <1>6, <1>7, <1>8, <1>9 DEF IInv

\* The event is handed to the client, by the orchestrator or by the endpoint.
LEMMA SendEntryInStage ==
  ASSUME IInv, NEW from \in {"writing_back", "sending"}, NEW to \in {"written_back", "sent"},
         from = "writing_back" <=> to = "written_back",
         SendInvestigationEvent(topic, brief), Move(from, to),
         UNCHANGED <<disk, slack, history>>
  PROVE  IInv'
PROOF
<1>1. /\ stage = from /\ stage' = to
      /\ UNCHANGED <<wiring, up, topic, brief, failure, stops>>
      /\ UNCHANGED <<files, torn, posted, unheard, cached, answered>>
  BY DEF Move, disk, slack, history
<1>2. topic \in Problems /\ brief \in Briefs
  BY <1>1 DEF IInv, RequestInv, Briefed
<1>3. /\ ClientInv' /\ Idle
      /\ UNCHANGED <<sent, ingested, lost>>
      /\ \/ call' = call /\ returned'.outcome = "not_allowed"
         \/ call' = call /\ <<topic, brief>> \in sent
         \/ /\ <<topic, brief>> \notin sent
            /\ call' = [method |-> "send_investigation_event", problem |-> topic,
                        brief |-> brief, reads |-> <<>>]
  BY <1>2, SendEntryKeeps, ClientAssumption DEF IInv
<1>4. RequestInv'
  BY <1>1 DEF IInv, RequestInv, Briefed
<1>5. CallInv'
  BY <1>1, <1>3 DEF CallInv, Idle
<1>6. Idle' /\ returned'.outcome = "value" => <<topic, brief>> \in sent
  BY <1>3 DEF Idle
<1>7. EventInv'
  BY <1>1, <1>3, <1>6, EventsKeep DEF Briefed
<1>8. FileInv' /\ PostInv' /\ AnswerInv'
  <2>1. /\ stage' \in Filed => stage \in Filed
        /\ stage' \in Unposted => stage \in Unposted
        /\ stage' \in Posted => stage \in Posted
        /\ stage' # "idle"
    BY <1>1 DEF Filed, Posted, Unposted
  <2>. QED
    BY <1>1, <1>3, <2>1, QuietKeeps, NothingIngested
<1>. QED
  BY <1>3, <1>4, <1>5, <1>7, <1>8 DEF IInv

\* The write-back is over, in whichever way.
LEMMA WrittenBackKeeps ==
  ASSUME IInv, WrittenBack
  PROVE  IInv'
PROOF
<1>1. /\ stage = "written_back" /\ Idle
      /\ \/ stage' = "idle" /\ failure' = "refused"
         \/ stage' = "filing" /\ failure' = failure
      /\ UNCHANGED <<wiring, up, topic, brief, stops>>
      /\ UNCHANGED <<files, torn, posted, unheard, cached, answered>>
      /\ UNCHANGED clientVars
  BY DEF WrittenBack, Move, Fail, disk, slack, history
<1>2. /\ ClientInv' /\ Idle'
      /\ UNCHANGED <<call, returned, sent, ingested, lost>>
  BY <1>1, ClientUntouched
<1>3. RequestInv'
  BY <1>1 DEF IInv, RequestInv, Briefed
<1>4. CallInv'
  BY <1>2 DEF CallInv
<1>5. EventInv'
  BY <1>1, <1>2, EventsKeep DEF Briefed
<1>6. FileInv' /\ PostInv' /\ AnswerInv'
  BY <1>1, <1>2, QuietKeeps, NothingIngested DEF Filed, Posted, Unposted
<1>. QED
  BY <1>2, <1>3, <1>4, <1>5, <1>6 DEF IInv

-----------------------------------------------------------------------------
(* The deliveries *)

\* The stages that follow the file and the post.
LEMMA NextStages ==
  /\ AfterSlack \in {"sending", "responding"}
  /\ AfterSlack = "responding" <=> wiring.client = "none"
  /\ AfterFile \in {"posting", "sending", "responding"}
  /\ AfterFile = "responding" => wiring.client = "none"
  /\ AfterFile \in Posted => ~wiring.slack
PROOF
  BY DEF AfterSlack, AfterFile, Posted

\* The file takes the current brief, which no earlier post is ahead of.
LEMMA WriteFileKeeps ==
  ASSUME IInv, WriteFile
  PROVE  IInv'
PROOF
<1>1. /\ stage = "filing" /\ stage' = AfterFile
      /\ files' = [files EXCEPT ![topic] = brief]
      /\ torn' = torn \ {topic}
      /\ UNCHANGED <<wiring, up, topic, brief, failure, stops>>
      /\ UNCHANGED <<posted, unheard, cached, answered>>
      /\ UNCHANGED clientVars
  BY DEF WriteFile, Move, slack, history
<1>2. /\ ClientInv' /\ (Idle' <=> Idle)
      /\ UNCHANGED <<call, returned, sent, ingested, lost>>
  BY <1>1, ClientUntouched
<1>3. Idle
  BY <1>1 DEF IInv, CallInv
<1>4. topic \in Problems /\ brief \in Nat /\ brief \in Briefs
  BY <1>1 DEF IInv, RequestInv, Briefed
<1>5. RequestInv'
  BY <1>1, NextStages DEF IInv, RequestInv, Briefed
<1>6. CallInv'
  BY <1>2, <1>3 DEF CallInv
<1>7. EventInv'
  <2>1. stage' # "sent"
    BY <1>1, NextStages
  <2>. QED
    BY <1>1, <1>2, <2>1, EventsKeep DEF Briefed
<1>8. FileInv'
  <2>1. files' \in [Problems -> Nat] /\ files'[topic] = brief /\ topic \notin torn'
    BY <1>1, <1>4 DEF IInv, FileInv
  <2>2. \A p \in Problems \ torn' : p = topic \/ (p \notin torn /\ files'[p] = files[p])
    BY <1>1, <1>4 DEF IInv, FileInv
  <2>3. \A p \in Problems : DOMAIN posted[p] = 1..Len(posted[p])
    <3>1. \A p \in Problems : posted[p] \in Seq(Nat)
      BY DEF IInv, PostInv
    <3>. QED
      BY <3>1, LenProperties
  <2>4. SlackNeverRunsAhead'
    BY <1>1, <2>1, <2>2, <2>3 DEF IInv, FileInv, PostInv, SlackNeverRunsAhead
  <2>. QED
    BY <1>1, <2>1, <2>4 DEF FileInv
<1>9. PostInv'
  <2>1. /\ stage' \in Unposted => stage \in Unposted
        /\ stage' \in Posted => ~wiring.slack
        /\ stage' # "idle"
    BY <1>1, NextStages DEF Unposted, Posted
  <2>. QED
    BY <1>1, <2>1 DEF IInv, PostInv, DynatraceNeverBlocksSlack
<1>10. AnswerInv'
  <2>1. \A p \in Problems, b \in Briefs : <<p, b>> \in answered =>
          p \in torn' \/ files'[p] >= b
    <3>. SUFFICES ASSUME NEW p \in Problems, NEW b \in Briefs, <<p, b>> \in answered
                  PROVE  p \in torn' \/ files'[p] >= b
      OBVIOUS
    <3>1. b <= brief
      BY DEF IInv, AnswerInv
    <3>2. CASE p = topic
      BY <1>1, <1>4, <3>1, <3>2, BriefNumbers DEF IInv, FileInv
    <3>3. CASE p # topic
      <4>1. files'[p] = files[p] /\ (p \in torn => p \in torn')
        BY <1>1, <3>3 DEF IInv, FileInv
      <4>. QED
        BY <4>1 DEF IInv, AnswerInv, AnsweredIsDelivered
    <3>. QED
      BY <3>2, <3>3
  <2>. QED
    BY <1>1, <1>2, <2>1 DEF IInv, AnswerInv, AnsweredIsDelivered
<1>. QED
  BY <1>2, <1>5, <1>6, <1>7, <1>8, <1>9, <1>10 DEF IInv

\* A file half written is no promise to Slack.
LEMMA WriteFileFailsKeeps ==
  ASSUME IInv, WriteFileFails
  PROVE  IInv'
PROOF
<1>1. /\ stage = "filing" /\ stage' = "idle" /\ failure' = "file"
      /\ torn \subseteq torn'
      /\ UNCHANGED <<wiring, up, topic, brief, stops>>
      /\ UNCHANGED <<files, posted, unheard, cached, answered>>
      /\ UNCHANGED clientVars
  BY DEF WriteFileFails, CutOff, Fail, slack, history
<1>2. /\ ClientInv' /\ (Idle' <=> Idle)
      /\ UNCHANGED <<call, returned, sent, ingested, lost>>
  BY <1>1, ClientUntouched
<1>3. Idle
  BY <1>1 DEF IInv, CallInv
<1>4. RequestInv'
  BY <1>1 DEF IInv, RequestInv, Briefed
<1>5. CallInv'
  BY <1>2, <1>3 DEF CallInv
<1>6. EventInv'
  BY <1>1, <1>2, EventsKeep DEF Briefed
<1>7. FileInv'
  BY <1>1 DEF IInv, FileInv, SlackNeverRunsAhead, Filed
<1>8. PostInv'
  BY <1>1 DEF IInv, PostInv, DynatraceNeverBlocksSlack, Unposted, Posted
<1>9. AnswerInv'
  BY <1>1, <1>2 DEF IInv, AnswerInv, AnsweredIsDelivered
<1>. QED
  BY <1>2, <1>4, <1>5, <1>6, <1>7, <1>8, <1>9 DEF IInv

\* One more post: the earlier ones keep their places, the new one comes last.
LEMMA PostAppended ==
  ASSUME IInv, posted' = [posted EXCEPT ![topic] = Append(@, brief)]
  PROVE  /\ posted' \in [Problems -> Seq(Nat)]
         /\ \A p \in Problems \ {topic} : posted'[p] = posted[p]
         /\ Len(posted'[topic]) = Len(posted[topic]) + 1
         /\ Len(posted[topic]) \in Nat
         /\ \A i \in 1..Len(posted[topic]) : posted'[topic][i] = posted[topic][i]
         /\ posted'[topic][Len(posted[topic]) + 1] = brief
         /\ posted'[topic] # <<>>
         /\ \A p \in Problems : DOMAIN posted'[p] = 1..Len(posted'[p])
         /\ \A p \in Problems : \A i \in 1..Len(posted[p]) : posted[p][i] \in Nat
         /\ \A p \in Problems : DOMAIN posted[p] = 1..Len(posted[p])
PROOF
<1>1. topic \in Problems /\ brief \in Nat /\ posted \in [Problems -> Seq(Nat)]
  BY DEF IInv, RequestInv, PostInv
<1>. DEFINE old == posted[topic]
<1>2. old \in Seq(Nat) /\ posted'[topic] = Append(old, brief)
  BY <1>1
<1>3. /\ Append(old, brief) \in Seq(Nat)
      /\ Append(old, brief) # <<>>
      /\ Len(Append(old, brief)) = Len(old) + 1
      /\ \A i \in 1..Len(old) : Append(old, brief)[i] = old[i]
      /\ Append(old, brief)[Len(old) + 1] = brief
      /\ Len(old) \in Nat
  BY <1>1, <1>2, AppendProperties, LenProperties
<1>4. posted' \in [Problems -> Seq(Nat)]
  BY <1>1, <1>2, <1>3
<1>5. \A p \in Problems : posted'[p] \in Seq(Nat) /\ posted[p] \in Seq(Nat)
  BY <1>1, <1>4
<1>6. \A p \in Problems : \A i \in 1..Len(posted[p]) : posted[p][i] \in Nat
  BY <1>5, ElementOfSeq
<1>. QED
  BY <1>1, <1>2, <1>3, <1>4, <1>5, <1>6, LenProperties

\* The part of PostInv that speaks of the posts' order, and Slack's lead over
\* the files, after one more post by a request that comes from its file.
LEMMA PostsStayInOrder ==
  ASSUME IInv, stage = "posting", UNCHANGED <<topic, brief, files>>,
         torn \subseteq torn',
         posted' = [posted EXCEPT ![topic] = Append(@, brief)]
  PROVE  /\ \A p \in Problems : \A i \in 1..Len(posted'[p]) : posted'[p][i] <= brief
         /\ \A p \in Problems : \A i, j \in 1..Len(posted'[p]) :
              i < j => posted'[p][i] < posted'[p][j]
         /\ SlackNeverRunsAhead'
PROOF
<1>1. topic \in Problems /\ brief \in Nat
  BY DEF IInv, RequestInv
<1>2. \A p \in Problems : \A i \in 1..Len(posted[p]) :
        posted[p][i] \in Nat /\ posted[p][i] < brief
  <2>1. \A p \in Problems : \A i \in 1..Len(posted[p]) :
          posted[p][i] <= brief /\ posted[p][i] # brief
    BY DEF IInv, PostInv, Unposted
  <2>. QED
    BY <1>1, <2>1, PostAppended
<1>3. \A i \in 1..Len(posted'[topic]) :
        \/ i \in 1..Len(posted[topic]) /\ posted'[topic][i] = posted[topic][i]
        \/ i = Len(posted[topic]) + 1 /\ posted'[topic][i] = brief
  BY PostAppended
<1>4. \A p \in Problems : \A i \in 1..Len(posted'[p]) : posted'[p][i] <= brief
  <2>. SUFFICES ASSUME NEW p \in Problems, NEW i \in 1..Len(posted'[p])
                PROVE  posted'[p][i] <= brief
    OBVIOUS
  <2>1. CASE p = topic
    BY <1>1, <1>2, <1>3, <2>1
  <2>2. CASE p # topic
    BY <1>1, <1>2, <2>2, PostAppended
  <2>. QED
    BY <2>1, <2>2
<1>5. \A p \in Problems : \A i, j \in 1..Len(posted'[p]) :
        i < j => posted'[p][i] < posted'[p][j]
  <2>. SUFFICES ASSUME NEW p \in Problems, NEW i \in 1..Len(posted'[p]),
                       NEW j \in 1..Len(posted'[p]), i < j
                PROVE  posted'[p][i] < posted'[p][j]
    OBVIOUS
  <2>1. \A k, l \in 1..Len(posted[p]) : k < l => posted[p][k] < posted[p][l]
    BY DEF IInv, PostInv
  <2>2. CASE p = topic
    <3>1. i \in 1..Len(posted[topic]) /\ posted'[topic][i] = posted[topic][i]
      BY <1>3, <2>2, PostAppended
    <3>. QED
      BY <1>1, <1>2, <1>3, <2>1, <2>2, <3>1
  <2>3. CASE p # topic
    BY <2>1, <2>3, PostAppended
  <2>. QED
    BY <2>2, <2>3
<1>6. SlackNeverRunsAhead'
  <2>1. files[topic] = brief
    BY DEF IInv, FileInv, Filed
  <2>. SUFFICES ASSUME NEW p \in Problems \ torn', NEW i \in 1..Len(posted'[p])
                PROVE  posted'[p][i] <= files[p]
    BY PostAppended DEF SlackNeverRunsAhead
  <2>2. CASE p = topic
    BY <1>4, <2>1, <2>2
  <2>3. CASE p # topic
    BY <2>3, PostAppended DEF IInv, FileInv, SlackNeverRunsAhead
  <2>. QED
    BY <2>2, <2>3
<1>. QED
  BY <1>4, <1>5, <1>6

\* The brief is posted, or was posted before: either way its problem has a post.
LEMMA PostBriefKeeps ==
  ASSUME IInv, PostBrief
  PROVE  IInv'
PROOF
<1>1. /\ stage = "posting" /\ stage' = AfterSlack
      /\ cached' = cached \cup {topic}
      /\ \/ Reused /\ posted' = posted
         \/ ~Reused /\ posted' = [posted EXCEPT ![topic] = Append(@, brief)]
      /\ UNCHANGED <<wiring, up, topic, brief, failure, stops>>
      /\ UNCHANGED <<files, torn, unheard, answered>>
      /\ UNCHANGED clientVars
  BY DEF PostBrief, Move, disk, history
<1>2. /\ ClientInv' /\ (Idle' <=> Idle)
      /\ UNCHANGED <<call, returned, sent, ingested, lost>>
  BY <1>1, ClientUntouched
<1>3. Idle
  BY <1>1 DEF IInv, CallInv
<1>4. /\ topic \in Problems /\ brief \in Nat /\ stops \in Nat /\ up
      /\ wiring.demo \in BOOLEAN
  BY <1>1 DEF IInv, RequestInv
<1>5. RequestInv'
  BY <1>1, NextStages DEF IInv, RequestInv, Briefed
<1>6. CallInv'
  BY <1>2, <1>3 DEF CallInv
<1>7. stage' # "idle" /\ stage' # "sent" /\ stage' \notin Unposted
  BY <1>1, NextStages DEF Unposted
<1>8. EventInv'
  BY <1>1, <1>2, <1>7, EventsKeep DEF Briefed
<1>9. stage \in Filed /\ files[topic] = brief /\ topic \notin torn
  BY <1>1 DEF Filed, IInv, FileInv
<1>10. CASE Reused /\ posted' = posted
  <2>1. topic \in cached /\ ~wiring.demo /\ cached' = cached
    BY <1>1, <1>10 DEF Reused
  <2>2. posted[topic] # <<>>
    BY <2>1 DEF IInv, PostInv
  <2>3. FileInv'
    BY <1>1, <1>9, <1>10 DEF IInv, FileInv, SlackNeverRunsAhead
  <2>4. PostInv'
    BY <1>1, <1>7, <1>10, <2>1, <2>2 DEF IInv, PostInv, DynatraceNeverBlocksSlack
  <2>5. AnswerInv'
    BY <1>1, <1>2, <1>10 DEF IInv, AnswerInv, AnsweredIsDelivered
  <2>. QED
    BY <1>2, <1>5, <1>6, <1>8, <2>3, <2>4, <2>5 DEF IInv
<1>11. CASE ~Reused /\ posted' = [posted EXCEPT ![topic] = Append(@, brief)]
  <2>1. /\ \A p \in Problems : \A i \in 1..Len(posted'[p]) : posted'[p][i] <= brief
        /\ \A p \in Problems : \A i, j \in 1..Len(posted'[p]) :
             i < j => posted'[p][i] < posted'[p][j]
        /\ SlackNeverRunsAhead'
    BY <1>1, <1>11, PostsStayInOrder
  <2>2. FileInv'
    BY <1>1, <1>9, <2>1 DEF IInv, FileInv
  <2>3. \A p \in Problems : ~wiring.demo =>
          Len(posted'[p]) <= unheard[p] + stops + (IF p \in cached' THEN 1 ELSE 0)
    <3>. SUFFICES ASSUME NEW p \in Problems, ~wiring.demo
                  PROVE  Len(posted'[p]) <=
                           unheard[p] + stops + (IF p \in cached' THEN 1 ELSE 0)
      OBVIOUS
    <3>1. Len(posted[p]) <= unheard[p] + stops + (IF p \in cached THEN 1 ELSE 0)
      BY <1>4 DEF IInv, PostInv
    <3>2. CASE p = topic
      <4>1. topic \notin cached /\ topic \in cached'
        BY <1>1, <1>11 DEF Reused
      <4>2. unheard[topic] \in Nat
        BY <1>4 DEF IInv, PostInv
      <4>. QED
        BY <1>4, <1>11, <3>1, <3>2, <4>1, <4>2, PostAppended
    <3>3. CASE p # topic
      BY <1>1, <1>11, <3>1, <3>3, PostAppended
    <3>. QED
      BY <3>2, <3>3
  <2>4. /\ \A p \in cached' : posted'[p] # <<>>
        /\ \E i \in 1..Len(posted'[topic]) : posted'[topic][i] = brief
    <3>1. Len(posted[topic]) + 1 \in 1..Len(posted'[topic])
      BY <1>11, PostAppended
    <3>2. \A p \in cached' : posted'[p] # <<>>
      BY <1>1, <1>11, PostAppended DEF IInv, PostInv
    <3>. QED
      BY <1>11, <3>1, <3>2, PostAppended
  <2>5. PostInv'
    <3>1. posted' \in [Problems -> Seq(Nat)] /\ posted'[topic] # <<>>
      BY <1>11, PostAppended
    <3>2. unheard' \in [Problems -> Nat] /\ cached' \subseteq Problems
      BY <1>1, <1>4 DEF IInv, PostInv
    <3>3. DynatraceNeverBlocksSlack'
      BY <1>7 DEF DynatraceNeverBlocksSlack
    <3>. QED
      BY <1>1, <1>4, <1>7, <2>1, <2>3, <2>4, <3>1, <3>2, <3>3 DEF PostInv
  <2>6. AnswerInv'
    <3>. SUFFICES ASSUME NEW p \in Problems, NEW b \in Briefs, <<p, b>> \in answered
                  PROVE  /\ wiring.slack => posted'[p] # <<>>
                         /\ wiring.slack /\ wiring.demo =>
                              \E i \in DOMAIN posted'[p] : posted'[p][i] = b
      BY <1>1, <1>2 DEF IInv, AnswerInv, AnsweredIsDelivered
    <3>1. /\ wiring.slack => posted[p] # <<>>
          /\ wiring.slack /\ wiring.demo =>
               \E i \in 1..Len(posted[p]) : posted[p][i] = b
      BY <1>11, PostAppended DEF IInv, AnswerInv, AnsweredIsDelivered
    <3>2. \A i \in 1..Len(posted[p]) :
            i \in 1..Len(posted'[p]) /\ posted'[p][i] = posted[p][i]
      BY <1>11, PostAppended
    <3>3. wiring.slack => posted'[p] # <<>>
      BY <1>11, <3>1, PostAppended
    <3>. QED
      BY <1>11, <3>1, <3>2, <3>3, PostAppended
  <2>. QED
    BY <1>2, <1>5, <1>6, <1>8, <2>2, <2>5, <2>6 DEF IInv
<1>. QED
  BY <1>1, <1>10, <1>11

\* Slack refuses, and has no more posts than before.
LEMMA PostFailsKeeps ==
  ASSUME IInv, PostFails
  PROVE  IInv'
PROOF
<1>1. /\ stage = "posting" /\ stage' = "idle" /\ failure' = "slack"
      /\ UNCHANGED <<wiring, up, topic, brief, stops>>
      /\ UNCHANGED <<files, torn, posted, unheard, cached, answered>>
      /\ UNCHANGED clientVars
  BY DEF PostFails, Fail, disk, slack, history
<1>2. /\ ClientInv' /\ (Idle' <=> Idle)
      /\ UNCHANGED <<call, returned, sent, ingested, lost>>
  BY <1>1, ClientUntouched
<1>3. Idle
  BY <1>1 DEF IInv, CallInv
<1>4. RequestInv'
  BY <1>1 DEF IInv, RequestInv, Briefed
<1>5. CallInv'
  BY <1>2, <1>3 DEF CallInv
<1>6. EventInv'
  BY <1>1, <1>2, EventsKeep DEF Briefed
<1>7. FileInv' /\ PostInv' /\ AnswerInv'
  BY <1>1, <1>2, QuietKeeps, NothingIngested DEF Filed, Posted, Unposted
<1>. QED
  BY <1>2, <1>4, <1>5, <1>6, <1>7 DEF IInv

\* One more post that nobody was told of: Slack and the answers, when the
\* request is over and the post is counted as unheard.
LEMMA UnheardPostKeeps ==
  ASSUME IInv, stage = "posting", ~Reused,
         posted' = [posted EXCEPT ![topic] = Append(@, brief)],
         unheard' = [unheard EXCEPT ![topic] = @ + 1],
         stage' = "idle", failure' # "dynatrace",
         stops' \in Nat, stops' = stops + (IF up' THEN 0 ELSE 1),
         UNCHANGED <<wiring, topic, brief, files, torn, cached, answered, ingested>>
  PROVE  FileInv' /\ PostInv' /\ AnswerInv'
PROOF
<1>1. /\ topic \in Problems /\ brief \in Nat /\ stops \in Nat /\ up
      /\ wiring.demo \in BOOLEAN
  BY DEF IInv, RequestInv
<1>2. /\ \A p \in Problems : \A i \in 1..Len(posted'[p]) : posted'[p][i] <= brief
      /\ \A p \in Problems : \A i, j \in 1..Len(posted'[p]) :
           i < j => posted'[p][i] < posted'[p][j]
      /\ SlackNeverRunsAhead'
  BY PostsStayInOrder
<1>3. FileInv'
  BY <1>2 DEF IInv, FileInv, Filed
<1>4. /\ unheard' \in [Problems -> Nat] /\ unheard'[topic] = unheard[topic] + 1
      /\ \A p \in Problems : unheard[p] \in Nat
      /\ \A p \in Problems : p # topic => unheard'[p] = unheard[p]
  BY <1>1 DEF IInv, PostInv
<1>5. \A p \in Problems : ~wiring.demo =>
        Len(posted'[p]) <= unheard'[p] + stops' + (IF up' /\ p \in cached THEN 1 ELSE 0)
  <2>. SUFFICES ASSUME NEW p \in Problems, ~wiring.demo
                PROVE  Len(posted'[p]) <=
                         unheard'[p] + stops' + (IF up' /\ p \in cached THEN 1 ELSE 0)
    OBVIOUS
  <2>1. Len(posted[p]) <= unheard[p] + stops + (IF p \in cached THEN 1 ELSE 0)
    BY <1>1 DEF IInv, PostInv
  <2>2. CASE p = topic
    <3>1. topic \notin cached
      BY DEF Reused
    <3>. QED
      BY <1>1, <1>4, <2>1, <2>2, <3>1, PostAppended
  <2>3. CASE p # topic
    <3>1. Len(posted'[p]) = Len(posted[p]) /\ unheard'[p] = unheard[p]
      BY <1>4, <2>3, PostAppended
    <3>. QED
      BY <1>1, <1>4, <2>1, <3>1, PostAppended
  <2>. QED
    BY <2>2, <2>3
<1>6. \A p \in cached : posted'[p] # <<>>
  BY PostAppended DEF IInv, PostInv
<1>7. PostInv'
  <2>1. posted' \in [Problems -> Seq(Nat)] /\ cached' \subseteq Problems
    BY PostAppended DEF IInv, PostInv
  <2>2. DynatraceNeverBlocksSlack'
    BY DEF DynatraceNeverBlocksSlack
  <2>. QED
    BY <1>2, <1>4, <1>5, <1>6, <2>1, <2>2 DEF PostInv, Unposted, Posted
<1>8. AnswerInv'
  <2>. SUFFICES ASSUME NEW p \in Problems, NEW b \in Briefs, <<p, b>> \in answered
                PROVE  /\ wiring.slack => posted'[p] # <<>>
                       /\ wiring.slack /\ wiring.demo =>
                            \E i \in DOMAIN posted'[p] : posted'[p][i] = b
    BY DEF IInv, AnswerInv, AnsweredIsDelivered
  <2>1. /\ wiring.slack => posted[p] # <<>>
        /\ wiring.slack /\ wiring.demo =>
             \E i \in 1..Len(posted[p]) : posted[p][i] = b
    BY PostAppended DEF IInv, AnswerInv, AnsweredIsDelivered
  <2>2. \A i \in 1..Len(posted[p]) :
          i \in 1..Len(posted'[p]) /\ posted'[p][i] = posted[p][i]
    BY PostAppended
  <2>3. wiring.slack => posted'[p] # <<>>
    BY <2>1, PostAppended
  <2>. QED
    BY <2>1, <2>2, <2>3, PostAppended
<1>. QED
  BY <1>3, <1>7, <1>8

\* Slack takes the post and the notifier is not told.
LEMMA PostIsUnheardKeeps ==
  ASSUME IInv, PostIsUnheard
  PROVE  IInv'
PROOF
<1>1. /\ stage = "posting" /\ stage' = "idle" /\ failure' = "slack" /\ ~Reused
      /\ posted' = [posted EXCEPT ![topic] = Append(@, brief)]
      /\ unheard' = [unheard EXCEPT ![topic] = @ + 1]
      /\ UNCHANGED <<wiring, up, topic, brief, stops>>
      /\ UNCHANGED <<files, torn, cached, answered>>
      /\ UNCHANGED clientVars
  BY DEF PostIsUnheard, Fail, disk, history
<1>2. /\ ClientInv' /\ (Idle' <=> Idle)
      /\ UNCHANGED <<call, returned, sent, ingested, lost>>
  BY <1>1, ClientUntouched
<1>3. Idle /\ up /\ stops \in Nat
  BY <1>1 DEF IInv, CallInv, RequestInv
<1>4. RequestInv'
  BY <1>1 DEF IInv, RequestInv, Briefed
<1>5. CallInv'
  BY <1>2, <1>3 DEF CallInv
<1>6. EventInv'
  BY <1>1, <1>2, EventsKeep DEF Briefed
<1>7. FileInv' /\ PostInv' /\ AnswerInv'
  <2>1. stops' \in Nat /\ stops' = stops + (IF up' THEN 0 ELSE 1)
    BY <1>1, <1>3
  <2>. QED
    BY <1>1, <1>2, <2>1, UnheardPostKeeps
<1>. QED
  BY <1>2, <1>4, <1>5, <1>6, <1>7 DEF IInv

\* A call under way that sends an event sends the one of the current brief,
\* which the client does not remember.
LEMMA EventUnderWay ==
  ASSUME IInv, ~Idle
  PROVE  /\ stage \in {"investigating", "written_back", "sent"}
         /\ stage = "sent" => Sending
         /\ Sending => /\ stage \in {"written_back", "sent"}
                       /\ Event = <<topic, brief>>
                       /\ <<topic, brief>> \in Problems \X Briefs
                       /\ <<topic, brief>> \notin sent
                       /\ ingested[<<topic, brief>>] <= lost[<<topic, brief>>]
PROOF
<1>1. Sending <=> call.method = "send_investigation_event"
  BY NextToolCall DEF IInv, ClientInv
<1>2. \/ stage = "investigating" /\ call.method \in {"get_problem_context", "execute_dql"}
      \/ /\ stage \in {"written_back", "sent"}
         /\ call.method = "send_investigation_event"
         /\ call.problem = topic /\ call.brief = brief
         /\ <<topic, brief>> \notin sent
  BY DEF IInv, CallInv
<1>3. stage \in Briefed => brief \in Briefs
  BY DEF IInv, RequestInv
<1>4. topic \in Problems
  BY DEF IInv, RequestInv
<1>5. Sending => ingested[<<topic, brief>>] <= lost[<<topic, brief>>]
  BY <1>1, <1>2 DEF IInv, EventInv, Briefed
<1>6. Sending => Event = <<topic, brief>>
  BY <1>1, <1>2 DEF Event
<1>. QED
  BY <1>1, <1>2, <1>3, <1>4, <1>5, <1>6 DEF Briefed

\* One more event of the current brief: what Grail then has.
LEMMA EventCounts ==
  ASSUME IInv, ~Idle, Sending,
         ingested' = [ingested EXCEPT ![Event] = @ + 1]
  PROVE  /\ ingested' \in [Problems \X Briefs -> Nat]
         /\ ingested'[<<topic, brief>>] = ingested[<<topic, brief>>] + 1
         /\ \A e \in Problems \X Briefs :
              e # <<topic, brief>> => ingested'[e] = ingested[e]
         /\ \A e \in Problems \X Briefs :
              /\ ingested[e] \in Nat /\ lost[e] \in Nat
              /\ ingested'[e] >= ingested[e]
PROOF
<1>1. Event = <<topic, brief>> /\ <<topic, brief>> \in Problems \X Briefs
  BY EventUnderWay
<1>2. ingested \in [Problems \X Briefs -> Nat] /\ lost \in [Problems \X Briefs -> Nat]
  BY DEF IInv, ClientInv, ClientShape
<1>. QED
  BY <1>1, <1>2

\* The event got there and the client was told, or was not: nothing was sent
\* of the brief that no answer was lost for.
LEMMA EventArrives ==
  ASSUME IInv, ~Idle, Sending,
         ingested' = [ingested EXCEPT ![Event] = @ + 1],
         UNCHANGED <<topic, brief>>,
         \/ sent' = sent \cup {Event} /\ lost' = lost
         \/ /\ sent' = sent /\ lost' = [lost EXCEPT ![Event] = @ + 1]
            /\ ~(stage' = "sent" /\ returned'.outcome = "value")
  PROVE  EventInv'
PROOF
<1>1. /\ Event = <<topic, brief>> /\ <<topic, brief>> \in Problems \X Briefs
      /\ ingested[<<topic, brief>>] <= lost[<<topic, brief>>]
  BY EventUnderWay
<1>2. /\ ingested'[<<topic, brief>>] = ingested[<<topic, brief>>] + 1
      /\ \A e \in Problems \X Briefs :
           e # <<topic, brief>> => ingested'[e] = ingested[e]
      /\ \A e \in Problems \X Briefs : ingested[e] \in Nat /\ lost[e] \in Nat
  BY EventCounts
<1>3. lost \in [Problems \X Briefs -> Nat] /\ brief \in Nat /\ sent \subseteq Problems \X Briefs
  BY DEF IInv, ClientInv, ClientShape, RequestInv
<1>4. \A p \in Problems, b \in Briefs :
        b > brief => <<p, b>> \in Problems \X Briefs /\ <<p, b>> # <<topic, brief>>
  BY <1>3, BriefNumbers
<1>5. /\ \A e \in Problems \X Briefs : ingested[e] <= 1 + lost[e]
      /\ \A p \in Problems, b \in Briefs :
           b > brief => ingested[<<p, b>>] <= lost[<<p, b>>]
      /\ \A e \in sent : ingested[e] >= 1
  BY DEF IInv, EventInv, EventsAreSentOnce
<1>6. CASE sent' = sent \cup {Event} /\ lost' = lost
  <2>1. \A e \in Problems \X Briefs : ingested'[e] <= 1 + lost'[e]
    BY <1>1, <1>2, <1>5, <1>6
  <2>2. \A p \in Problems, b \in Briefs :
          b > brief => ingested'[<<p, b>>] <= lost'[<<p, b>>]
    BY <1>2, <1>4, <1>5, <1>6
  <2>3. \A e \in sent' : ingested'[e] >= 1
    BY <1>1, <1>2, <1>3, <1>5, <1>6
  <2>. QED
    BY <1>1, <1>6, <2>1, <2>2, <2>3 DEF EventInv, EventsAreSentOnce
<1>7. CASE /\ sent' = sent /\ lost' = [lost EXCEPT ![Event] = @ + 1]
           /\ ~(stage' = "sent" /\ returned'.outcome = "value")
  <2>0. /\ lost'[<<topic, brief>>] = lost[<<topic, brief>>] + 1
        /\ \A e \in Problems \X Briefs : e # <<topic, brief>> => lost'[e] = lost[e]
    BY <1>1, <1>3, <1>7
  <2>1. \A e \in Problems \X Briefs : ingested'[e] <= 1 + lost'[e]
    BY <1>1, <1>2, <1>5, <2>0
  <2>2. \A p \in Problems, b \in Briefs :
          b > brief => ingested'[<<p, b>>] <= lost'[<<p, b>>]
    BY <1>2, <1>4, <1>5, <2>0
  <2>3. \A e \in sent' : ingested'[e] >= 1
    BY <1>1, <1>2, <1>3, <1>5, <1>7
  <2>4. ingested'[<<topic, brief>>] <= lost'[<<topic, brief>>]
    BY <1>1, <1>2, <2>0
  <2>. QED
    BY <1>1, <1>7, <2>1, <2>2, <2>3, <2>4 DEF EventInv, EventsAreSentOnce
<1>. QED
  BY <1>6, <1>7

\* An attempt of a tool call, with what it may do to the events.
LEMMA CallToolKeeps ==
  ASSUME IInv, CallTool
  PROVE  IInv'
PROOF
<1>1. /\ ToolStep
      /\ UNCHANGED <<wiring, up, stage, topic, brief, failure, stops>>
      /\ UNCHANGED <<files, torn, posted, unheard, cached, answered>>
  BY DEF CallTool, request, disk, slack, history
<1>2. /\ ClientInv'
      /\ ~Idle
      /\ \/ call' = NoCall
         \/ /\ call'.method = call.method /\ call'.problem = call.problem
            /\ call'.brief = call.brief
      /\ ~Sending => UNCHANGED <<sent, ingested, lost>>
      /\ Sending =>
           \/ /\ UNCHANGED <<sent, ingested, lost>>
              /\ \/ call' = call
                 \/ call' = NoCall /\ returned'.outcome # "value"
           \/ /\ call' = NoCall
              /\ sent' = sent \cup {Event}
              /\ ingested' = [ingested EXCEPT ![Event] = @ + 1]
              /\ lost' = lost
           \/ /\ call' = NoCall /\ returned'.outcome # "value"
              /\ sent' = sent
              /\ ingested' = [ingested EXCEPT ![Event] = @ + 1]
              /\ lost' = [lost EXCEPT ![Event] = @ + 1]
  BY <1>1, ToolStepKeeps, ClientAssumption DEF IInv
<1>3. RequestInv'
  BY <1>1 DEF IInv, RequestInv
<1>4. call' = NoCall => Idle'
  BY DEF Idle, NoCall
<1>5. CASE UNCHANGED <<sent, ingested, lost>>
  <2>1. CallInv'
    BY <1>1, <1>2, <1>4, <1>5 DEF IInv, CallInv
  <2>2. stage' = "sent" /\ Idle' => returned'.outcome # "value"
    <3>. SUFFICES ASSUME stage' = "sent", Idle' PROVE returned'.outcome # "value"
      OBVIOUS
    <3>1. Sending
      BY <1>1, <1>2, EventUnderWay
    <3>2. call' # call
      BY <1>2 DEF Idle
    <3>3. sent' = sent /\ ingested' = ingested
      BY <1>5
    <3>4. ingested' # [ingested EXCEPT ![Event] = @ + 1]
      <4>. SUFFICES ASSUME ingested' = [ingested EXCEPT ![Event] = @ + 1] PROVE FALSE
        OBVIOUS
      <4>1. ingested'[<<topic, brief>>] = ingested[<<topic, brief>>] + 1
            /\ ingested[<<topic, brief>>] \in Nat
        BY <1>2, <3>1, EventCounts, EventUnderWay
      <4>. QED
        BY <3>3, <4>1
    <3>. QED
      BY <1>2, <3>1, <3>2, <3>4
  <2>3. EventInv'
    BY <1>1, <1>5, <2>2, EventsKeep
  <2>4. FileInv' /\ PostInv' /\ AnswerInv'
    BY <1>1, <1>5, QuietKeeps, NothingIngested, <1>2, EventUnderWay DEF Filed, Posted
  <2>. QED
    BY <1>2, <1>3, <2>1, <2>3, <2>4 DEF IInv
<1>6. CASE /\ Sending /\ call' = NoCall
           /\ ingested' = [ingested EXCEPT ![Event] = @ + 1]
           /\ \/ sent' = sent \cup {Event} /\ lost' = lost
              \/ /\ sent' = sent /\ lost' = [lost EXCEPT ![Event] = @ + 1]
                 /\ returned'.outcome # "value"
  <2>1. CallInv'
    BY <1>4, <1>6 DEF CallInv
  <2>2. EventInv'
    BY <1>1, <1>2, <1>6, EventArrives
  <2>3. /\ \A e \in Problems \X Briefs : ingested'[e] >= ingested[e]
        /\ ingested' \in [Problems \X Briefs -> Nat]
    BY <1>2, <1>6, EventCounts
  <2>4. stage \in {"written_back", "sent"} /\ stage # "idle"
    BY <1>2, <1>6, EventUnderWay
  <2>5. FileInv' /\ PostInv' /\ AnswerInv'
    BY <1>1, <2>3, <2>4, QuietKeeps
  <2>. QED
    BY <1>2, <1>3, <2>1, <2>2, <2>5 DEF IInv
<1>. QED
  BY <1>2, <1>5, <1>6

\* A request is over that went through its deliveries: what they left stays,
\* and the answer, if there is one, is of a brief that was delivered.
LEMMA AnswerKeeps ==
  ASSUME IInv, stage \in Posted, stage' = "idle",
         UNCHANGED <<wiring, up, topic, brief, stops>>,
         UNCHANGED <<files, torn, posted, unheard, cached>>,
         UNCHANGED clientVars,
         \/ answered' = answered
         \/ /\ answered' = answered \cup {<<topic, brief>>}
            /\ wiring.client # "none" => ingested[<<topic, brief>>] >= 1
  PROVE  /\ RequestInv' /\ FileInv' /\ PostInv' /\ AnswerInv'
PROOF
<1>1. /\ brief \in Briefs /\ topic \in Problems /\ brief \in Nat
      /\ wiring \in [slack : BOOLEAN, client : {"none", "endpoint", "both"},
                     demo : BOOLEAN]
  BY DEF IInv, RequestInv, Posted, Briefed
<1>2. RequestInv'
  BY DEF IInv, RequestInv, Posted, Briefed
<1>3. files[topic] = brief /\ topic \notin torn
  BY DEF IInv, FileInv, Posted, Filed
<1>4. wiring.slack => /\ posted[topic] # <<>>
                      /\ wiring.demo => \E i \in 1..Len(posted[topic]) :
                                          posted[topic][i] = brief
  BY DEF IInv, PostInv
<1>5. FileInv'
  BY DEF IInv, FileInv, SlackNeverRunsAhead, Filed
<1>6. PostInv'
  BY <1>4 DEF IInv, PostInv, DynatraceNeverBlocksSlack, Unposted, Posted
<1>7. ingested' = ingested
  BY ClientUntouched
<1>8. /\ \A e \in answered : e \in Problems \X Briefs /\ e[2] <= brief
      /\ \A p \in Problems, b \in Briefs : <<p, b>> \in answered =>
           /\ wiring.client # "none" => ingested[<<p, b>>] >= 1
           /\ wiring.slack => posted[p] # <<>>
           /\ wiring.slack /\ wiring.demo => \E i \in DOMAIN posted[p] : posted[p][i] = b
           /\ p \in torn \/ files[p] >= b
  BY DEF IInv, AnswerInv, AnsweredIsDelivered
<1>9. CASE answered' = answered
  BY <1>2, <1>5, <1>6, <1>7, <1>8, <1>9 DEF AnswerInv, AnsweredIsDelivered
<1>10. CASE /\ answered' = answered \cup {<<topic, brief>>}
            /\ wiring.client # "none" => ingested[<<topic, brief>>] >= 1
  <2>1. \A e \in answered' : e \in Problems \X Briefs /\ e[2] <= brief
    BY <1>1, <1>8, <1>10
  <2>2. AnsweredIsDelivered'
    <3>. SUFFICES ASSUME NEW p \in Problems, NEW b \in Briefs, <<p, b>> \in answered'
                  PROVE  /\ wiring.client # "none" => ingested[<<p, b>>] >= 1
                         /\ wiring.slack => posted[p] # <<>>
                         /\ wiring.slack /\ wiring.demo =>
                              \E i \in DOMAIN posted[p] : posted[p][i] = b
                         /\ p \in torn \/ files[p] >= b
      BY <1>7 DEF AnsweredIsDelivered
    <3>1. CASE <<p, b>> \in answered
      BY <1>8, <3>1
    <3>2. CASE p = topic /\ b = brief
      <4>1. posted[topic] \in Seq(Nat)
        BY <1>1 DEF IInv, PostInv
      <4>2. DOMAIN posted[topic] = 1..Len(posted[topic])
        BY <4>1
      <4>3. files[p] >= b
        BY <1>1, <1>3, <3>2
      <4>. QED
        BY <1>4, <1>10, <3>2, <4>2, <4>3
    <3>. QED
      BY <1>10, <3>1, <3>2
  <2>. QED
    BY <1>2, <1>5, <1>6, <2>1, <2>2 DEF AnswerInv
<1>. QED
  BY <1>9, <1>10

\* The response, with the event's id or with the client's exception ...
LEMMA RespondKeeps ==
  ASSUME IInv, Respond
  PROVE  IInv'
PROOF
<1>1. /\ Idle /\ stage = "sent" /\ stage' = "idle"
      /\ \/ /\ returned.outcome = "value"
            /\ answered' = answered \cup {<<topic, brief>>}
         \/ answered' = answered
      /\ UNCHANGED <<wiring, up, topic, brief, stops>>
      /\ UNCHANGED <<files, torn, posted, unheard, cached>>
      /\ UNCHANGED clientVars
  BY DEF Respond, Move, Fail, disk, slack
<1>2. /\ ClientInv' /\ (Idle' <=> Idle)
      /\ UNCHANGED <<call, returned, sent, ingested, lost>>
  BY <1>1, ClientUntouched
<1>3. CallInv'
  BY <1>1, <1>2 DEF CallInv
<1>4. EventInv'
  BY <1>1, <1>2, EventsKeep DEF Briefed
<1>5. returned.outcome = "value" => ingested[<<topic, brief>>] >= 1
  BY <1>1 DEF IInv, EventInv
<1>6. RequestInv' /\ FileInv' /\ PostInv' /\ AnswerInv'
  BY <1>1, <1>5, AnswerKeeps DEF Posted
<1>. QED
  BY <1>2, <1>3, <1>4, <1>6 DEF IInv

\* ... or without an event, where there is no client.
LEMMA RespondWithoutEventKeeps ==
  ASSUME IInv, RespondWithoutEvent
  PROVE  IInv'
PROOF
<1>1. /\ stage = "responding" /\ stage' = "idle"
      /\ answered' = answered \cup {<<topic, brief>>}
      /\ UNCHANGED <<wiring, up, topic, brief, stops>>
      /\ UNCHANGED <<files, torn, posted, unheard, cached>>
      /\ UNCHANGED clientVars
  BY DEF RespondWithoutEvent, Move, disk, slack
<1>2. /\ ClientInv' /\ (Idle' <=> Idle)
      /\ UNCHANGED <<call, returned, sent, ingested, lost>>
  BY <1>1, ClientUntouched
<1>3. Idle /\ wiring.client = "none"
  BY <1>1 DEF IInv, CallInv, RequestInv
<1>4. CallInv'
  BY <1>2, <1>3 DEF CallInv
<1>5. EventInv'
  BY <1>1, <1>2, EventsKeep DEF Briefed
<1>6. RequestInv' /\ FileInv' /\ PostInv' /\ AnswerInv'
  BY <1>1, <1>3, AnswerKeeps DEF Posted
<1>. QED
  BY <1>2, <1>4, <1>5, <1>6 DEF IInv

-----------------------------------------------------------------------------
(* The process *)

\* Nothing is posted, and the process is one stop older or has just begun: no
\* problem needs its place in the notifier's cache any more.
LEMMA RestartKeeps ==
  ASSUME IInv,
         UNCHANGED <<wiring, topic, brief, files, posted, unheard, answered>>,
         torn \subseteq torn', stage' = "idle",
         failure' = "dynatrace" => stage = "idle" /\ failure = "dynatrace",
         cached' \subseteq cached,
         stops' \in Nat,
         \/ ~up' /\ up /\ stops' = stops + 1
         \/ up' /\ ~up /\ stops' = stops /\ cached' = {},
         \A e \in Problems \X Briefs : ingested'[e] >= ingested[e],
         ingested' \in [Problems \X Briefs -> Nat]
  PROVE  FileInv' /\ PostInv' /\ AnswerInv'
PROOF
<1>1. /\ stops \in Nat /\ topic \in Problems
      /\ wiring \in [slack : BOOLEAN, client : {"none", "endpoint", "both"},
                     demo : BOOLEAN]
  BY DEF IInv, RequestInv
<1>2. FileInv'
  BY DEF IInv, FileInv, SlackNeverRunsAhead, Filed
<1>3. \A p \in Problems : Len(posted[p]) \in Nat /\ unheard[p] \in Nat
  BY DEF IInv, PostInv
<1>4. \A p \in Problems : ~wiring.demo =>
        Len(posted[p]) <= unheard[p] + stops' + (IF up' /\ p \in cached' THEN 1 ELSE 0)
  <2>. SUFFICES ASSUME NEW p \in Problems, ~wiring.demo
                PROVE  Len(posted[p]) <=
                         unheard[p] + stops' + (IF up' /\ p \in cached' THEN 1 ELSE 0)
    OBVIOUS
  <2>1. Len(posted[p]) <= unheard[p] + stops + (IF up /\ p \in cached THEN 1 ELSE 0)
    BY DEF IInv, PostInv
  <2>. QED
    BY <1>1, <1>3, <2>1
<1>5. PostInv'
  <2>1. DynatraceNeverBlocksSlack'
    BY DEF DynatraceNeverBlocksSlack, IInv, PostInv
  <2>. QED
    BY <1>4, <2>1 DEF IInv, PostInv, Unposted, Posted
<1>6. \A p \in Problems, b \in Briefs : ingested[<<p, b>>] >= 1 => ingested'[<<p, b>>] >= 1
  BY DEF IInv, ClientInv, ClientShape
<1>7. AnswerInv'
  BY <1>6 DEF IInv, AnswerInv, AnsweredIsDelivered
<1>. QED
  BY <1>2, <1>5, <1>7

\* The client is reset: the caches, or some of them, are emptied.
LEMMA ClientReset ==
  ASSUME IInv, Idle,
         contexts' = contexts \/ contexts' = [p \in Problems |-> <<>>],
         sent' = sent \/ sent' = {},
         UNCHANGED <<call, left, returned, tries, state, ingested, lost>>
  PROVE  ClientInv' /\ Idle'
PROOF
<1>1. contexts' \in [Problems -> Seq(Nat)]
  <2>1. <<>> \in Seq(Nat)
    OBVIOUS
  <2>. QED
    BY <2>1 DEF IInv, ClientInv, ClientShape
<1>2. ClientShape'
  BY <1>1 DEF IInv, ClientInv, ClientShape
<1>3. Budget' /\ Idle'
  BY DEF IInv, ClientInv, Budget, RetryBudgetIsPerToolCall, Idle
<1>. QED
  BY <1>2, <1>3 DEF ClientInv

\* The process stops between requests ...
LEMMA ShutdownKeeps ==
  ASSUME IInv, Shutdown
  PROVE  IInv'
PROOF
<1>1. /\ up /\ stage = "idle" /\ ~up' /\ stage' = "idle" /\ stops' = stops + 1
      /\ Idle
      /\ contexts' = contexts \/ contexts' = [p \in Problems |-> <<>>]
      /\ UNCHANGED <<call, left, returned, sent, tries, state, ingested, lost>>
      /\ UNCHANGED <<wiring, topic, brief, failure, files, torn>>
      /\ UNCHANGED <<posted, unheard, cached, answered>>
  BY DEF Shutdown, Close, disk, slack, dynatrace
<1>2. ClientInv' /\ Idle'
  BY <1>1, ClientReset
<1>3. stops' \in Nat
  BY <1>1 DEF IInv, RequestInv
<1>4. RequestInv'
  BY <1>1, <1>3 DEF IInv, RequestInv, Briefed
<1>5. CallInv'
  BY <1>2 DEF CallInv
<1>6. EventInv'
  BY <1>1, EventsKeep DEF Briefed
<1>7. FileInv' /\ PostInv' /\ AnswerInv'
  BY <1>1, <1>3, RestartKeeps, NothingIngested
<1>. QED
  BY <1>2, <1>4, <1>5, <1>6, <1>7 DEF IInv

\* ... starts with empty caches ...
LEMMA StartupKeeps ==
  ASSUME IInv, Startup
  PROVE  IInv'
PROOF
<1>1. /\ ~up /\ up' = TRUE /\ stage' = stage
      /\ contexts' = [p \in Problems |-> <<>>] /\ sent' = {} /\ cached' = {}
      /\ UNCHANGED <<call, left, returned, tries, state, ingested, lost>>
      /\ UNCHANGED <<wiring, topic, brief, failure, files, torn>>
      /\ UNCHANGED <<posted, unheard, answered, stops>>
  BY DEF Startup, disk, history, dynatrace
<1>2. stage = "idle" /\ stops \in Nat
  BY <1>1 DEF IInv, RequestInv
<1>3. Idle
  BY <1>2 DEF IInv, CallInv
<1>4. ClientInv' /\ Idle'
  BY <1>1, <1>3, ClientReset
<1>5. RequestInv'
  BY <1>1, <1>2 DEF IInv, RequestInv, Briefed
<1>6. CallInv'
  BY <1>4 DEF CallInv
<1>7. EventInv'
  BY <1>1, <1>2 DEF IInv, EventInv, EventsAreSentOnce, Briefed
<1>8. FileInv' /\ PostInv' /\ AnswerInv'
  BY <1>1, <1>2, RestartKeeps, NothingIngested
<1>. QED
  BY <1>4, <1>5, <1>6, <1>7, <1>8 DEF IInv

\* ... or dies within a request, with what it was delivering there or not.
LEMMA CrashKeeps ==
  ASSUME IInv, Crash
  PROVE  IInv'
PROOF
<1>1. /\ up /\ stage # "idle" /\ ~up' /\ stage' = "idle" /\ stops' = stops + 1
      /\ failure' = "crash" /\ call' = NoCall
      /\ torn \subseteq torn' /\ (stage # "filing" => torn' = torn)
      /\ UNCHANGED <<wiring, topic, brief, left, returned, contexts, sent, tries>>
      /\ UNCHANGED <<state, files, cached, answered>>
  BY DEF Crash, CutOff
<1>2. \/ UNCHANGED <<posted, unheard, ingested, lost>>
      \/ /\ stage = "posting" /\ ~Reused
         /\ posted' = [posted EXCEPT ![topic] = Append(@, brief)]
         /\ unheard' = [unheard EXCEPT ![topic] = @ + 1]
         /\ UNCHANGED <<ingested, lost>>
      \/ /\ Sending /\ Ingest
         /\ lost' = [lost EXCEPT ![Event] = @ + 1]
         /\ UNCHANGED <<posted, unheard>>
  BY DEF Crash
<1>3. stops' \in Nat /\ stops \in Nat
  BY <1>1 DEF IInv, RequestInv
<1>4. RequestInv'
  BY <1>1, <1>3 DEF IInv, RequestInv, Briefed
<1>5. Idle' /\ CallInv'
  BY <1>1 DEF CallInv, Idle, NoCall
<1>6. ASSUME ingested' \in [Problems \X Briefs -> Nat],
             lost' \in [Problems \X Briefs -> Nat]
      PROVE  ClientInv'
  <2>1. ClientShape'
    BY <1>1, <1>6 DEF IInv, ClientInv, ClientShape, Calls, NoCall
  <2>2. RetryBudgetIsPerToolCall'
    BY <1>1 DEF IInv, ClientInv, Budget, RetryBudgetIsPerToolCall
  <2>. QED
    BY <1>5, <2>1, <2>2 DEF ClientInv, Budget
<1>7. ASSUME UNCHANGED <<ingested, lost>>
      PROVE  /\ ClientInv' /\ EventInv'
             /\ \A e \in Problems \X Briefs : ingested'[e] >= ingested[e]
             /\ ingested' \in [Problems \X Briefs -> Nat]
  <2>1. /\ \A e \in Problems \X Briefs : ingested'[e] >= ingested[e]
        /\ ingested' \in [Problems \X Briefs -> Nat]
        /\ lost' \in [Problems \X Briefs -> Nat]
    BY <1>7, NothingIngested DEF IInv, ClientInv, ClientShape
  <2>2. EventInv'
    BY <1>1, <1>7, EventsKeep DEF Briefed
  <2>. QED
    BY <1>6, <2>1, <2>2
<1>8. CASE UNCHANGED <<posted, unheard, ingested, lost>>
  <2>1. FileInv' /\ PostInv' /\ AnswerInv'
    BY <1>1, <1>3, <1>7, <1>8, RestartKeeps
  <2>. QED
    BY <1>4, <1>5, <1>7, <1>8, <2>1 DEF IInv
<1>9. CASE /\ stage = "posting" /\ ~Reused
           /\ posted' = [posted EXCEPT ![topic] = Append(@, brief)]
           /\ unheard' = [unheard EXCEPT ![topic] = @ + 1]
           /\ UNCHANGED <<ingested, lost>>
  <2>1. FileInv' /\ PostInv' /\ AnswerInv'
    <3>1. torn' = torn
      BY <1>1, <1>9
    <3>2. stops' = stops + (IF up' THEN 0 ELSE 1)
      BY <1>1
    <3>. QED
      BY <1>1, <1>3, <1>9, <3>1, <3>2, UnheardPostKeeps
  <2>. QED
    BY <1>4, <1>5, <1>7, <1>9, <2>1 DEF IInv
<1>10. CASE /\ Sending /\ Ingest
            /\ lost' = [lost EXCEPT ![Event] = @ + 1]
            /\ UNCHANGED <<posted, unheard>>
  <2>1. ~Idle
    BY <1>10 DEF Sending
  <2>2. ingested' = [ingested EXCEPT ![Event] = @ + 1]
    BY <1>10, <2>1, IngestCounts DEF IInv, ClientInv
  <2>3. /\ \A e \in Problems \X Briefs : ingested'[e] >= ingested[e]
        /\ ingested' \in [Problems \X Briefs -> Nat]
    BY <1>10, <2>1, <2>2, EventCounts
  <2>4. lost' \in [Problems \X Briefs -> Nat]
    <3>1. Event \in Problems \X Briefs
      BY <1>10, <2>1, EventUnderWay
    <3>. QED
      BY <1>10, <3>1 DEF IInv, ClientInv, ClientShape
  <2>5. ClientInv'
    BY <1>6, <2>3, <2>4
  <2>6. EventInv'
    BY <1>1, <1>10, <2>1, <2>2, EventArrives
  <2>7. FileInv' /\ PostInv' /\ AnswerInv'
    BY <1>1, <1>3, <1>10, <2>3, RestartKeeps
  <2>. QED
    BY <1>4, <1>5, <2>5, <2>6, <2>7 DEF IInv
<1>. QED
  BY <1>2, <1>8, <1>9, <1>10

\* Every step keeps the invariant.
LEMMA NextKeepsIInv ==
  ASSUME IInv, [DeliveryNext]_deliveryVars
  PROVE  IInv'
PROOF
<1>1. CASE \E p \in Problems : Receive(p) \/ Change(p)
  BY <1>1, ReceiveKeeps, ChangeKeeps
<1>2. CASE Deliver
  <2>1. CASE Investigate \/ HandleFails \/ HandleComposes
    BY <2>1, InvestigateKeeps, HandleFailsKeeps, HandleComposesKeeps
  <2>2. CASE WriteBack
    BY <2>2, SendEntryInStage DEF WriteBack
  <2>3. CASE WrittenBack
    BY <2>3, WrittenBackKeeps
  <2>4. CASE WriteFile \/ WriteFileFails
    BY <2>4, WriteFileKeeps, WriteFileFailsKeeps
  <2>5. CASE PostBrief \/ PostFails \/ PostIsUnheard
    BY <2>5, PostBriefKeeps, PostFailsKeeps, PostIsUnheardKeeps
  <2>6. CASE SendEvent
    BY <2>6, SendEntryInStage DEF SendEvent
  <2>7. CASE CallTool
    BY <2>7, CallToolKeeps
  <2>8. CASE Respond \/ RespondWithoutEvent
    BY <2>8, RespondKeeps, RespondWithoutEventKeeps
  <2>. QED
    BY <1>2, <2>1, <2>2, <2>3, <2>4, <2>5, <2>6, <2>7, <2>8 DEF Deliver
<1>3. CASE Shutdown \/ Crash \/ Startup
  BY <1>3, ShutdownKeeps, CrashKeeps, StartupKeeps
<1>4. CASE UNCHANGED deliveryVars
  <2>1. /\ UNCHANGED <<wiring, up, stage, topic, brief, failure, stops>>
        /\ UNCHANGED <<files, torn, posted, unheard, cached, answered>>
        /\ UNCHANGED clientVars
    BY <1>4 DEF deliveryVars, request, disk, slack, history
  <2>2. /\ ClientInv' /\ (Idle' <=> Idle)
        /\ UNCHANGED <<call, returned, sent, ingested, lost>>
    BY <2>1, ClientUntouched
  <2>3. RequestInv' /\ CallInv'
    BY <2>1, <2>2 DEF IInv, RequestInv, CallInv
  <2>4. EventInv'
    BY <2>1, <2>2 DEF IInv, EventInv, EventsAreSentOnce
  <2>5. FileInv' /\ PostInv' /\ AnswerInv'
    BY <2>1, <2>2, QuietKeeps, NothingIngested
  <2>. QED
    BY <2>2, <2>3, <2>4, <2>5 DEF IInv
<1>. QED
  BY <1>1, <1>2, <1>3, <1>4 DEF DeliveryNext

-----------------------------------------------------------------------------
(* The theorems *)

\* The invariant holds for every set of problems, retry budget, allow-list and
\* wiring, and any number of webhooks and stops of the process.
THEOREM DeliveryInvariantHolds == DeliverySpec => []IInv
PROOF
<1>1. DeliveryInit => IInv
  BY InitDelivery
<1>2. IInv /\ [DeliveryNext]_deliveryVars => IInv'
  BY NextKeepsIInv
<1>. QED
  BY <1>1, <1>2, PTL DEF DeliverySpec

\* However often a method was rate limited before, its current tool call has
\* max_retries retries and the caller hears of the limit only when they are
\* used up.
THEOREM RetriesAreBounded == DeliverySpec => []RetryBudgetIsPerToolCall
PROOF
<1>1. IInv => RetryBudgetIsPerToolCall
  BY DEF IInv, ClientInv, Budget
<1>. QED
  BY <1>1, DeliveryInvariantHolds, PTL

\* Grail has no event of a brief twice but for lost answers, with any mix of
\* write-backs by the orchestrator and the endpoint, retries and restarts.
THEOREM GrailHasNoDuplicates == DeliverySpec => []EventsAreSentOnce
PROOF
<1>1. IInv => EventsAreSentOnce
  BY DEF IInv, EventInv
<1>. QED
  BY <1>1, DeliveryInvariantHolds, PTL

\* What Slack links to is in the file, however often the request before failed
\* and whatever the process was doing when it stopped.
THEOREM FilesPrecedePosts == DeliverySpec => []SlackNeverRunsAhead
PROOF
<1>1. IInv => SlackNeverRunsAhead
  BY DEF IInv, FileInv
<1>. QED
  BY <1>1, DeliveryInvariantHolds, PTL

\* Every repeated post is owed to an unheard answer or a stop of the process.
THEOREM RepostsAreAccountedFor == DeliverySpec => []RepostsHaveAReason
PROOF
<1>1. IInv => RepostsHaveAReason
  <2>. SUFFICES ASSUME IInv, NEW p \in Problems
                PROVE  /\ \A i, j \in DOMAIN posted[p] :
                            i < j => posted[p][i] < posted[p][j]
                       /\ ~wiring.demo => Len(posted[p]) <= 1 + unheard[p] + stops
    BY DEF RepostsHaveAReason
  <2>1. posted[p] \in Seq(Nat) /\ unheard[p] \in Nat /\ stops \in Nat
    BY DEF IInv, PostInv, RequestInv
  <2>2. ~wiring.demo =>
          Len(posted[p]) <= unheard[p] + stops + (IF up /\ p \in cached THEN 1 ELSE 0)
    BY DEF IInv, PostInv
  <2>3. ~wiring.demo => Len(posted[p]) <= 1 + unheard[p] + stops
    BY <2>1, <2>2
  <2>4. \A i, j \in 1..Len(posted[p]) : i < j => posted[p][i] < posted[p][j]
    BY DEF IInv, PostInv
  <2>. QED
    BY <2>1, <2>3, <2>4
<1>. QED
  BY <1>1, DeliveryInvariantHolds, PTL

\* A response with a brief means a file, a post and an event, in every wiring.
THEOREM AnswersMeanDelivery == DeliverySpec => []AnsweredIsDelivered
PROOF
<1>1. IInv => AnsweredIsDelivered
  BY DEF IInv, AnswerInv
<1>. QED
  BY <1>1, DeliveryInvariantHolds, PTL

\* A request that failed for Dynatrace alone has posted its problem.
THEOREM SlackHearsDespiteDynatrace == DeliverySpec => []DynatraceNeverBlocksSlack
PROOF
<1>1. IInv => DynatraceNeverBlocksSlack
  BY DEF IInv, PostInv
<1>. QED
  BY <1>1, DeliveryInvariantHolds, PTL

\* A context that comes into the cache comes from the last of the three reads
\* of a call, and is what the call returns.
LEMMA ContextsComeWhole ==
  ASSUME IInv, [DeliveryNext]_deliveryVars, NEW p \in Problems,
         contexts'[p] \notin {contexts[p], <<>>}
  PROVE  /\ Len(contexts'[p]) = Len(ToolsOf("get_problem_context"))
         /\ returned'.outcome = "value"
         /\ returned'.context = contexts'[p]
PROOF
<1>1. ~(contexts' = contexts) /\ ~(contexts' = [q \in Problems |-> <<>>])
  OBVIOUS
<1>2. CallTool
  <2>1. ~(\E q \in Problems : Receive(q) \/ Change(q))
    BY <1>1 DEF Receive, Change, ProblemChanges, client
  <2>2. ~(Shutdown \/ Crash \/ Startup)
    BY <1>1 DEF Shutdown, Close, Crash, Startup
  <2>3. ~UNCHANGED clientVars
    BY <1>1 DEF clientVars, client
  <2>4. ~(HandleFails \/ HandleComposes \/ WrittenBack \/ WriteFile \/ WriteFileFails)
    BY <2>3 DEF HandleFails, HandleComposes, WrittenBack, WriteFile, WriteFileFails
  <2>5. ~(PostBrief \/ PostFails \/ PostIsUnheard \/ Respond \/ RespondWithoutEvent)
    BY <2>3 DEF PostBrief, PostFails, PostIsUnheard, Respond, RespondWithoutEvent
  <2>6. ~Investigate
    BY <1>1 DEF Investigate, GetProblemContext, ExecuteDql, Refuse, CachedContext, Start
  <2>7. ~(WriteBack \/ SendEvent)
    BY <1>1 DEF WriteBack, SendEvent, SendInvestigationEvent, Refuse, AlreadySent, Start
  <2>8. ~UNCHANGED deliveryVars
    BY <2>3 DEF deliveryVars
  <2>. QED
    BY <2>1, <2>2, <2>4, <2>5, <2>6, <2>7, <2>8 DEF DeliveryNext, Deliver
<1>3. ToolAnswers
  BY <1>1, <1>2 DEF CallTool, ToolStep, RateLimited, ToolFails, AnswerIsLost, Raise
<1>4. ~Idle /\ ClientShape
  BY <1>3 DEF ToolAnswers, IInv, ClientInv
<1>5. Finish /\ ~(Len(call.reads) + 1 < Len(ToolsOf(call.method)))
  BY <1>1, <1>3 DEF ToolAnswers, NextTool
<1>. DEFINE reads == Append(call.reads, Response)
<1>6. /\ Remember(reads)
      /\ returned' = [outcome |-> "value", context |->
           IF call.method = "get_problem_context" THEN reads ELSE <<>>]
  BY <1>5 DEF Finish, Return
<1>7. /\ call.method = "get_problem_context"
      /\ contexts' = [contexts EXCEPT ![call.problem] = reads]
  BY <1>1, <1>6 DEF Remember
<1>8. call.reads \in Seq(Nat) /\ Len(call.reads) = 2 /\ Response \in Nat
  <2>1. /\ call.reads \in Seq(Nat) /\ Len(call.reads) \in Nat /\ Len(call.reads) <= 2
        /\ Response \in Nat
    BY <1>4, <1>7, CallsUnderWay
  <2>2. ~(Len(call.reads) < 2)
    BY <1>4, <1>5, <1>7, NextToolCall
  <2>3. \A n \in Nat : n <= 2 /\ ~(n < 2) => n = 2
    OBVIOUS
  <2>4. Len(call.reads) = 2
    <3>. HIDE DEF reads
    <3>. QED
      BY <2>1, <2>2, <2>3
  <2>. QED
    BY <2>1, <2>4
<1>9. Len(reads) = 3
  <2>1. ASSUME NEW s \in Seq(Nat), NEW n \in Nat
        PROVE  Len(Append(s, n)) = Len(s) + 1
    <3>. HIDE DEF reads
    <3>. QED
      BY AppendProperties
  <2>2. Len(reads) = Len(call.reads) + 1
    BY <1>8, <2>1
  <2>. QED
    BY <1>8, <2>2
<1>10. contexts'[p] = reads
  <2>1. contexts \in [Problems -> Seq(Nat)]
    BY <1>4 DEF ClientShape
  <2>. HIDE DEF reads
  <2>. QED
    BY <1>7, <2>1
<1>. HIDE DEF reads
<1>. QED
  BY <1>6, <1>7, <1>9, <1>10, ToolCounts

\* No failure, rate limit, crash or restart leaves half a context behind.
THEOREM ContextsAreWhole == DeliverySpec => HydrationIsAllOrNothing
PROOF
<1>1. IInv /\ [DeliveryNext]_deliveryVars =>
        [\A p \in Problems : contexts'[p] \notin {contexts[p], <<>>} =>
           /\ Len(contexts'[p]) = Len(ToolsOf("get_problem_context"))
           /\ returned'.outcome = "value"
           /\ returned'.context = contexts'[p]]_clientVars
  BY ContextsComeWhole
<1>. QED
  BY <1>1, DeliveryInvariantHolds, PTL DEF DeliverySpec, HydrationIsAllOrNothing
=============================================================================
