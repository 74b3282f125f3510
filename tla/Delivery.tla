------------------------------ MODULE Delivery ------------------------------
(***************************************************************************)
(* The webhook handler from the payload to its response (app.py), with the *)
(* Slack notifier and the Dynatrace client it delivers the brief through.  *)
(* A request investigates, writes the brief's file, posts it to Slack and  *)
(* ingests it into Grail, in this order; what raises in between is the     *)
(* server's error, and whoever sent the webhook may send it again.  The    *)
(* process can stop at any point; the files, Slack and Grail stay, the     *)
(* caches of the client and the notifier do not.                           *)
(*                                                                         *)
(* The brief carries the time it was generated at, so no two briefs are    *)
(* equal: a brief is its number.  handle is taken as a whole (Orchestrator *)
(* has its stages): it reads Dynatrace through the client, as often as it  *)
(* wants, and fails or returns a brief.                                    *)
(***************************************************************************)
EXTENDS DynatraceClient

CONSTANTS
  MaxRequests,      \* bound of the model: webhooks
  MaxStops,         \* bound of the model: stops of the process
  Wirings           \* what the program may be started with

ASSUME DeliveryAssumption ==
  /\ MaxRequests \in Nat
  /\ MaxStops \in Nat
  /\ Briefs = 1..MaxRequests
  /\ Wirings \subseteq [slack : BOOLEAN, client : {"none", "endpoint", "both"},
                        demo : BOOLEAN]

\* app.py starts on the real services, with Slack and an orchestrator that has
\* no client, or on stand-ins, without a client and with Slack if it is given a
\* token; demo mode is one of the two ways to ask for the stand-ins.
ProductionWiring == [slack |-> TRUE, client |-> "endpoint", demo |-> FALSE]
DevWirings       == [slack : BOOLEAN, client : {"none"}, demo : BOOLEAN]

VARIABLES
  wiring,    \* is there Slack, who sends events through the Dynatrace client
             \* (nobody on stand-ins, the endpoint in production, the
             \* orchestrator too in the tests), and is demo mode on
  up,        \* the process runs
  stage,     \* how far the current request got
  topic,     \* its problem
  since,     \* the state of the problem its webhook reported
  brief,     \* the number of its brief, the last one generated
  failure,   \* what failed the latest request
  files,     \* the brief in each problem's file, 0 where there is none
  torn,      \* the problems whose file a stop left half written
  posted,    \* Slack: the briefs posted for each problem
  unheard,   \* history: how many of those posts got no answer
  cached,    \* _posted_briefs: the problems in it
  answered,  \* history: the requests answered with a brief
  stops      \* history: how often the process stopped

request  == <<wiring, up, stage, topic, since, brief, failure>>
disk     == <<files, torn>>
slack    == <<posted, unheard, cached>>
history  == <<answered, stops>>
deliveryVars == <<clientVars, request, disk, slack, history>>

DeliveryInit ==
  /\ ClientInit
  /\ wiring \in Wirings
  /\ up = TRUE
  /\ stage = "idle"
  /\ topic \in Problems
  /\ since = 1
  /\ brief = 0
  /\ failure = "none"
  /\ files = [p \in Problems |-> 0]
  /\ torn = {}
  /\ posted = [p \in Problems |-> <<>>]
  /\ unheard = [p \in Problems |-> 0]
  /\ cached = {}
  /\ answered = {}
  /\ stops = 0

\* The request moves on, or ends with an error.
Move(from, to) ==
  /\ stage = from
  /\ stage' = to
  /\ UNCHANGED <<wiring, up, topic, since, brief, failure>>

Fail(from, what) ==
  /\ stage = from
  /\ stage' = "idle"
  /\ failure' = what
  /\ UNCHANGED <<wiring, up, topic, since, brief>>

-----------------------------------------------------------------------------
(* The investigation *)

\* A webhook about a problem arrives, for the first time or again.
Receive(p) ==
  /\ up
  /\ stage = "idle"
  /\ brief < MaxRequests
  /\ stage' = "investigating"
  /\ topic' = p
  /\ since' = state[p]
  /\ failure' = "none"
  /\ Return("none", <<>>)
  /\ UNCHANGED <<wiring, up, brief, allowlist, call, left, contexts, sent, tries,
                 state, dynatrace, disk, slack, history>>

\* A specialist asks for the context of the problem, or queries Grail; the
\* stand-ins are asked nothing that could fail.
Investigate ==
  /\ wiring.client # "none"
  /\ stage = "investigating"
  /\ GetProblemContext(topic) \/ ExecuteDql
  /\ UNCHANGED <<request, disk, slack, history>>

\* handle raises, for one of the reasons Orchestrator has (on the stand-ins it
\* has none: DemoAlwaysAnswers) or, on any wiring, because it can not read the
\* payload.
HandleFails ==
  /\ Idle
  /\ Fail("investigating", "handle")
  /\ UNCHANGED <<clientVars, disk, slack, history>>

\* handle has a brief.
HandleComposes ==
  /\ Idle
  /\ stage = "investigating"
  /\ stage' = IF wiring.client = "both" THEN "writing_back" ELSE "filing"
  /\ brief' = brief + 1
  /\ UNCHANGED <<wiring, up, topic, since, failure, clientVars, disk, slack,
                 history>>

\* _write_back_to_dynatrace sends it ...
WriteBack ==
  /\ SendInvestigationEvent(topic, brief)
  /\ Move("writing_back", "written_back")
  /\ UNCHANGED <<disk, slack, history>>

\* FAULT: a refused write-back fails the request.
FaultyWrittenBack ==
  /\ Idle
  /\ IF returned.outcome = "value"
       THEN Move("written_back", "filing")
       ELSE Fail("written_back", "dynatrace")
  /\ UNCHANGED <<clientVars, disk, slack, history>>

\* ... and swallows the client's two exceptions, not the allow-list's.
WrittenBack ==
  /\ Idle
  /\ IF returned.outcome = "not_allowed"
       THEN Fail("written_back", "refused")
       ELSE Move("written_back", "filing")
  /\ UNCHANGED <<clientVars, disk, slack, history>>

-----------------------------------------------------------------------------
(* The deliveries *)

\* The endpoint skips what it is not wired to.
AfterSlack == IF wiring.client = "none" THEN "responding" ELSE "sending"
AfterFile  == IF wiring.slack THEN "posting" ELSE AfterSlack

\* FAULT: a file that is there is not written again.
FaultyWriteFile ==
  /\ Move("filing", AfterFile)
  /\ files' = [files EXCEPT ![topic] = IF @ = 0 THEN brief ELSE @]
  /\ torn' = torn \ {topic}
  /\ UNCHANGED <<clientVars, slack, history>>

WriteFile ==
  /\ Move("filing", AfterFile)
  /\ files' = [files EXCEPT ![topic] = brief]
  /\ torn' = torn \ {topic}
  /\ UNCHANGED <<clientVars, slack, history>>

\* The torn files once a write was cut off: before write_text had opened the
\* file, or after, when the old content is gone and the new one not complete.
CutOff == {torn, torn \cup {topic}}

\* The directory or the file can not be opened, or the disk is full.
WriteFileFails ==
  /\ Fail("filing", "file")
  /\ torn' \in CutOff
  /\ UNCHANGED <<files, clientVars, slack, history>>

\* The problem was posted already; demo mode posts again for every click.
Reused == topic \in cached /\ ~wiring.demo

\* FAULT: the cache is filled before the call.
FaultyPostBrief ==
  /\ Move("posting", AfterSlack)
  /\ IF Reused
       THEN UNCHANGED posted
       ELSE \E taken \in BOOLEAN :
              posted' = IF taken THEN [posted EXCEPT ![topic] = Append(@, brief)]
                                 ELSE posted
  /\ cached' = cached \cup {topic}
  /\ UNCHANGED <<unheard, clientVars, disk, history>>

\* FAULT: the reference of the post is not kept.
ForgetfulPostBrief ==
  /\ Move("posting", AfterSlack)
  /\ IF Reused
       THEN UNCHANGED posted
       ELSE posted' = [posted EXCEPT ![topic] = Append(@, brief)]
  /\ UNCHANGED <<cached, unheard, clientVars, disk, history>>

\* post_brief: the cached reference, or a post whose reference is cached.
PostBrief ==
  /\ Move("posting", AfterSlack)
  /\ IF Reused
       THEN UNCHANGED posted
       ELSE posted' = [posted EXCEPT ![topic] = Append(@, brief)]
  /\ cached' = cached \cup {topic}
  /\ UNCHANGED <<unheard, clientVars, disk, history>>

\* Slack's client raises: the post was not made ...
PostFails ==
  /\ ~Reused
  /\ Fail("posting", "slack")
  /\ UNCHANGED <<clientVars, disk, slack, history>>

\* ... or was made, and the answer is lost.
PostIsUnheard ==
  /\ ~Reused
  /\ Fail("posting", "slack")
  /\ posted' = [posted EXCEPT ![topic] = Append(@, brief)]
  /\ unheard' = [unheard EXCEPT ![topic] = @ + 1]
  /\ UNCHANGED <<cached, clientVars, disk, history>>

SendEvent ==
  /\ SendInvestigationEvent(topic, brief)
  /\ Move("sending", "sent")
  /\ UNCHANGED <<disk, slack, history>>

\* The response carries the id of the event; what the client raised goes on.
Respond ==
  /\ Idle
  /\ IF returned.outcome = "value"
       THEN /\ Move("sent", "idle")
            /\ answered' = answered \cup {<<topic, brief>>}
       ELSE /\ Fail("sent", IF returned.outcome = "not_allowed"
                                THEN "refused" ELSE "dynatrace")
            /\ UNCHANGED answered
  /\ UNCHANGED <<stops, clientVars, disk, slack>>

\* The response of a program without a Dynatrace client.
RespondWithoutEvent ==
  /\ Move("responding", "idle")
  /\ answered' = answered \cup {<<topic, brief>>}
  /\ UNCHANGED <<stops, clientVars, disk, slack>>

CallTool == ToolStep /\ UNCHANGED <<request, disk, slack, history>>

Deliver ==
  \/ Investigate \/ HandleFails \/ HandleComposes \/ WriteBack \/ WrittenBack
  \/ WriteFile \/ WriteFileFails
  \/ PostBrief \/ PostFails \/ PostIsUnheard
  \/ SendEvent \/ CallTool \/ Respond \/ RespondWithoutEvent

-----------------------------------------------------------------------------
(* The process and the world *)

\* An orderly shutdown, between requests.
Shutdown ==
  /\ up
  /\ stage = "idle"
  /\ stops < MaxStops
  /\ up' = FALSE
  /\ stops' = stops + 1
  /\ Close
  /\ UNCHANGED <<wiring, stage, topic, since, brief, failure, disk, slack, answered>>

\* The process dies in the middle of a request.  What it was writing may be
\* half written; what it was posting or sending may have got there.
Crash ==
  /\ up
  /\ stage # "idle"
  /\ stops < MaxStops
  /\ up' = FALSE
  /\ stops' = stops + 1
  /\ stage' = "idle"
  /\ failure' = "crash"
  /\ call' = NoCall
  /\ IF stage = "filing" THEN torn' \in CutOff ELSE UNCHANGED torn
  /\ \/ UNCHANGED <<posted, unheard, ingested, lost>>
     \/ /\ stage = "posting" /\ ~Reused
        /\ posted' = [posted EXCEPT ![topic] = Append(@, brief)]
        /\ unheard' = [unheard EXCEPT ![topic] = @ + 1]
        /\ UNCHANGED <<ingested, lost>>
     \/ /\ Sending
        /\ Ingest
        /\ lost' = [lost EXCEPT ![Event] = @ + 1]
        /\ UNCHANGED <<posted, unheard>>
  /\ UNCHANGED <<wiring, topic, since, brief, left, returned, contexts, sent, tries,
                 allowlist, state, files, cached, answered>>

\* _startup builds a client and a notifier that remember nothing.
Startup ==
  /\ ~up
  /\ up' = TRUE
  /\ contexts' = [p \in Problems |-> <<>>]
  /\ sent' = {}
  /\ cached' = {}
  /\ UNCHANGED <<wiring, stage, topic, since, brief, failure, disk, posted, unheard,
                 history, call, left, returned, tries, allowlist, state,
                 dynatrace>>

Change(p) == ProblemChanges(p) /\ UNCHANGED <<request, disk, slack, history>>

DeliveryNext ==
  \/ \E p \in Problems : Receive(p) \/ Change(p)
  \/ Deliver
  \/ Shutdown \/ Crash \/ Startup

DeliverySpec == DeliveryInit /\ [][DeliveryNext]_deliveryVars

-----------------------------------------------------------------------------
\* Whatever Slack shows of a problem can be read up in its brief's file, in the
\* version shown or a later one, or the file was left half written since: no
\* order of failures and crashes puts a brief into Slack before its file.
SlackNeverRunsAhead ==
  \A p \in Problems \ torn : \A i \in DOMAIN posted[p] : posted[p][i] <= files[p]

\* No brief is posted twice; and a problem is posted once, and once more only
\* for every post the notifier got no answer for and every stop of the process,
\* demo mode apart, which means to post again.  This is what the code does of
\* "In production the cache stays active so a retried webhook never
\* double-posts the same incident" (slack_notifier.py:72-73): the reference is
\* cached in memory, once the answer is there.
RepostsHaveAReason ==
  \A p \in Problems :
    /\ \A i, j \in DOMAIN posted[p] : i < j => posted[p][i] < posted[p][j]
    /\ ~wiring.demo => Len(posted[p]) <= 1 + unheard[p] + stops

\* A request that was answered has been delivered everywhere the program is
\* wired to: its event is in Grail, its brief or a later one in the file, and
\* its problem in Slack, in demo mode with this very brief.
AnsweredIsDelivered ==
  \A p \in Problems, b \in Briefs : <<p, b>> \in answered =>
    /\ wiring.client # "none" => ingested[<<p, b>>] >= 1
    /\ wiring.slack => posted[p] # <<>>
    /\ wiring.slack /\ wiring.demo => \E i \in DOMAIN posted[p] : posted[p][i] = b
    /\ p \in torn \/ files[p] >= b

\* A failing Dynatrace never keeps a brief from Slack: when nothing but the
\* client's calls went wrong in a request, its problem has been posted.
DynatraceNeverBlocksSlack ==
  wiring.slack /\ stage = "idle" /\ failure = "dynatrace" => posted[topic] # <<>>

\* "Cached per problem_id for the life of the request": the context the
\* specialists are given was not read before the webhook came.
ContextIsOfThisRequest ==
  stage = "investigating" =>
    \A i \in DOMAIN returned.context : returned.context[i] >= since

\* "send_event (write path): ... brief write-back posted as Dynatrace custom
\* events": the write path is open, so that a request does not fail when every
\* service it calls answers.
FaultFreeRequestsAreAnswered == failure # "refused"
=============================================================================
