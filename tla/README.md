# Causal On-call in TLA+

This directory holds TLA+ models of causal-oncall, the service that turns a
Dynatrace problem webhook into a ranked root-cause brief. The modules model the
Python code under `src/src/causal_oncall/` (file names below are relative to
it). TLC checks them on small instances; TLAPS proves for every size what holds
of the event bus and the runs over it, the ranking, the orchestrator, the
deliveries, the curator with the incident memory, and the outcome store.

Contents: 1 the system, 2 the modules, 3 the runs and their bounds, 4 where code
and words disagree, 5 fairness and deadlock, 6 the proofs, 7 what is not
modelled, 8 the plan.

## 1. The system

| component | state it keeps | operations | talks to |
|---|---|---|---|
| Trace broadcaster (`trace_broadcaster.py`) | a ring of events per problem (an `OrderedDict`, at most `max_problems` rings of `buffer_size` events), a list of subscriber queues per problem, the set of completed problems | `publish`, `close`, the async generator `subscribe` | called by the orchestrator (publisher) and by the stream route (subscriber) |
| Stream route (`trace_routes.py`, `app.py`) | nothing but the generator it iterates | one stream per connected page, dropped on disconnection | iterates `subscribe` |
| Orchestrator (`orchestrator.py`) | the evidence of the last cold run of each problem (`_last_evidence`) | `handle`, `reject_hypothesis_and_replan` | memory, specialists, synthesizer, Dynatrace client, broadcaster |
| Specialists (`specialists/`) | none | `investigate`: one piece of evidence from a query, or a placeholder if Dynatrace fails | Dynatrace client |
| Synthesizer (`synthesizer.py`) | none | `compose`: groups, filters, scores, sorts and caps hypotheses, then has a model write them up | the language model |
| Incident memory (`memory_store.py`, `scripts/seed_memory.py`) | one document per incident with its verdict | `match`, `record`, `update_resolution`, two lists for the curator | MongoDB, an embedder |
| Dynatrace client (`dynatrace_client.py`) | a context per problem, the events sent | queries with a retry budget, write-back with dedup | the MCP server |
| Slack notifier (`slack_notifier.py`) | references of posts, by problem | `post_brief`; demo mode posts every brief and looks at no reference | Slack |
| Web application (`app.py`) | the wired components, one Markdown file per problem | the webhook, reject and stream endpoints | all of the above |
| Curator (`curator.py`) | pattern files on disk | `synthesize` | memory, the language model |
| Phoenix tracer, outcome store (`phoenix_tracer.py`) | a file of verdicts, one line each, and each process's copy of its rows | `record_outcome`, the dashboard's data (`dashboard.py`); spans, which nothing in `src/` opens | a JSONL file shared by the processes |
| ADK runtime (`adk_runtime.py`) | none | `run_text_agent`, a synchronous call of the model; fences stripped off its answer | the language model |
| Demo wiring (`_demo_wiring.py`) | none of its own | stand-ins for Dynatrace, the memory and the model | replaces those three |
| Domain types (`domain/`) | immutable values | validation, rendering | - |
| Pages | none | rendering | the stream and dashboard routes |

How they interact. The webhook handler and the reject endpoint are `async def`
functions that call the orchestrator synchronously: `handle`, the replan and the
deliveries after it run to their end without giving the event loop back. Streams
are async generators: they give the loop back at every `yield` and at
`queue.get()`. So runs are serial, and the interleavings inside the service are
those of streams with runs: a stream can be suspended anywhere in its replay,
for any number of runs. The curator is a process of its own; it shares the
incident collection with the service and the disk with other curators. The
tracer's file is shared too: `.env.example` puts it on a volume.

`app.py` starts the same components in three ways. In production the
orchestrator has no Dynatrace client and the endpoint writes back; the tests
give the client to both; the development server and the demo run on stand-ins
and write nothing back. The endpoints always call the orchestrator from inside
the event loop; the tests call it from their own thread.

What is hard in it, and where the properties look:

- interleaving: subscriptions suspended in their replay while runs publish (the
  snapshot, the `already_complete` flag and the registration are three
  moments); curators that overlap; a collection written while it is curated;
- bounded state: the ring drops its oldest event, the table of rings its least
  recently published problem, and both must forget consistently;
- partial failure: each call `handle` makes has exceptions that are caught
  (soft) and exceptions that are not (hard), and a run that fails is silent; a
  context is three reads of which the third may fail; a brief is delivered to
  three places one after the other; a batch of patterns can break in the middle;
  a verdict is written in part, and the next one joins its line;
- stale state: the replan cache outlives runs that fail or are answered from
  memory; a context outlives the request that read it; a completion mark
  outlives the run that set it;
- long sequences: a confirmed hypothesis comes back as another problem's brief;
- numeric edges: a floor of 0.3, a placeholder of confidence 0.1, scores
  rescaled by the largest support, a verdict on the edge of the trend's window;
- calling context: a synchronous wrapper around a coroutine, reached from the
  event loop's own thread;
- crash and retry: webhooks sent again, restarts that empty the caches, answers
  that get lost after the effect, rate limits.

What makes each part correct:

- broadcaster: a stream sees a problem's events in order, each at most once; a
  live stream misses nothing; only live streams have queues; late viewers get
  the latest events; the least recently published problem is evicted;
- streaming under runs: a stream ends by itself only after a brief, and live
  viewers of an answered run are released;
- orchestrator: soft faults never fail a run that has a finding; what is shown,
  recorded and confirmed is always a causal claim; an answer of the model is
  understood with or without fences; the demo always answers; replans work from the
  evidence behind the answer that was shown; a brief is announced once, last,
  and the streams closed after it;
- synthesizer: the cap cuts the tail of a well-defined order; a supported
  hypothesis comes before an unsupported one; more support never demotes;
- Dynatrace client: a retry budget per tool call, a context whole or not at
  all, one event per brief;
- delivery: Slack never ahead of the file, no repost without a reason, an
  answered request is delivered everywhere, Dynatrace never blocks Slack;
- memory: a verdict stands until another verdict or a seeding;
- curator: a reported run leaves a whole pattern for each of its clusters, and
  the model is paid once for each;
- outcome store: a dashboard that answers counts every verdict its process
  recorded, and its trend adds up; a failed write costs one other verdict at most.

## 2. The modules

| module | models | state and actions |
|---|---|---|
| `TraceBroadcaster` | `trace_broadcaster.py`, `trace_routes.py` | `buffers` and `order` are `_buffers` and the order of its keys, `completed` is `_completed`, `subscribers` and `queue` are the registered queues; `phase`, `replay` and `alreadyComplete` are the locals of each generator. `log`, `received`, `joined`, `closes` are history. `Publish`, `Close`; `Subscribe`, `ReplayNext`, `FinishReplay`, `TakeEvent`, `TakeSentinel`, `Resume` each run a generator from one suspension to the next; `Disconnect` closes it |
| `EventFeed` | abstract specification of the broadcaster | a log that only grows, and streams that read their problem's part of it strictly forward; a stream may skip events, never goes back, and yields nothing after its end |
| `TraceStream` | the broadcaster driven by `handle`'s events | `BeginRun`, `ReportRun`, `AnswerRun`, `CloseRun`, `FailRun` publish while streams stand still; `ServeStream` and `DropStream` run between handles |
| `Synthesizer` | `synthesizer.py`: what `compose` decides | operators: `Kept` (the floor), `Score`, `Outranks`, `Ranked` (sorted and capped) |
| `SynthesizerBags` | every bag of evidence `compose` can be given | `Report` adds a piece, so that properties compare a ranking with the one before |
| `Subsequences` | the comprehensions with a condition (`_strip_hypothesis`, the fences of `adk_runtime.py`) | operator: `Subsequence(s, places)`, the elements of a list at some of its places |
| `Specialists` | `specialists/*.py` | `Finding(name, rows)`: what a specialist makes of the rows its query found; `Degraded(name)`: the placeholder |
| `AdkRuntime` | `adk_runtime.py`: what becomes of the model's answer | operators over an answer as a sequence of kinds of line: `StripFences`, `Usable` (what the code accepts), `IsAnswer` (what a reader would) |
| `Orchestrator` | `orchestrator.py`, with what it sees of the memory, the model and the demo's stand-ins | `wiring` says which services it runs on and from where it is called; `at` is how far the current `handle` got; one action per call it makes and per outcome of that call; `said` is the text the model failed a run with; `lastEvidence` is `_last_evidence`; `recorded`, `confirmed` are the hypotheses the memory holds, the seeded ones first; `Replan`, `ReplanFails`, `ReplanFromNothing` are the reject endpoint |
| `RunProtocol` | abstract specification of a run as a viewer sees it | `Open`, `Report`, `Answer`, `Close`, `Fail` |
| `DynatraceClient` | `dynatrace_client.py` | `contexts` is `_problem_context_cache`, `sent` the keys of `_sent_events`, `left` is `attempts_remaining`, `call` the method under way with the reads it made; entry (`GetProblemContext`, `ExecuteDql`, `SendInvestigationEvent`: refused, answered from a cache or started) and one action per outcome of an attempt (`ToolAnswers`, `RateLimited`, `ToolFails`, `AnswerIsLost`); `Close` |
| `Delivery` | the webhook handler of `app.py`, `slack_notifier.py`, over `DynatraceClient` | `wiring` is one of the ways to start the program; `stage` is how far the request got; `files`, `torn` the Markdown files, `posted` what Slack shows, `cached` is `_posted_briefs`; `Shutdown`, `Crash`, `Startup` stop and start the process |
| `MemoryStore` | the writers and the resolved list of `memory_store.py`, `scripts/seed_memory.py` | `recorded`, `cause`, `resolved` are the documents; `Record`, `Seed`, `UpdateResolution`, and a clock |
| `Curator` | `curator.py` over `MemoryStore` | per process `stage`, `window` (the eligible clusters), `todo`, `active`; `bank`, `torn` the pattern files; `Start`, `List`, `Skip`, `Ask`, `OpenFile`, `CloseFile`, `Report`, `Break` |
| `PhoenixTracer` | the outcome store of `phoenix_tracer.py`, the data route of the dashboard | `file` is the lines, `ragged` whether the last one has no newline, `cached` the copy of the rows per process, by the line each row was read from; `RecordOutcome`, `RecordFails` (whatever part of the line got there), `Dashboard`, `DashboardRaises`, `Restart`, and a clock |
| `TraceBroadcasterProofs`, `TraceStreamProofs`, `SynthesizerProofs`, `OrchestratorProofs`, `DeliveryProofs`, `CuratorProofs`, `PhoenixTracerProofs` | theorems | section 6 |
| `DataTheorems` | lemmas on the data of several modules: sums over sets, the elements at a set of places, the numbering of an order | section 6 |
| `MC*` | instances for TLC | values of the constants, symmetry sets |

How they compose: `TraceStream` extends `TraceBroadcaster` with its one
publisher; `Orchestrator` extends `Synthesizer`, `Specialists` and
`AdkRuntime`, which uses `Subsequences`; `Delivery` extends `DynatraceClient`; `Curator` extends `MemoryStore`. `Delivery` takes
`handle` as a whole (it reads through the client, and fails or returns a brief),
since its stages are `Orchestrator`'s subject.

Abstractions a reader should know:

- Confidences are percentages and scores exact fractions compared by
  cross-multiplication, where the code has floats and adds them in the order of
  arrival: a tie that rounding breaks is not seen. The trust table is the
  code's. Names, summaries, links, prompts and payloads are left out.
- In the broadcaster an event is its position in the history, so two events are
  the same exactly when their positions are.
- The placeholders' keys (`<name>_unavailable`) belong to `Hypotheses`, so the
  model can say that they never reach a brief.
- `ReplanFails` covers the model's failure and the floor in one action, as the
  endpoint answers both alike.
- A brief carries the time it was generated at, so no two briefs are equal: it
  is a number in `Delivery`, and a record and its incident are one thing in
  `MemoryStore`, except for the seeded incidents, whose ids and briefs are fixed.
- `Orchestrator!Wirings` pairs the services (real, or the demo's stand-ins) with
  the place of the call (on the event loop or off it). As `app.py` is written,
  production calls from the loop, and there every run that is not answered from
  memory fails at the model (section 4, `webhook_synthesis`). What the other
  properties say of cold runs on the real services is therefore about calls off
  the loop, which the tests make and a caller with a thread of its own would
  make; the demo is on the loop and asks a stand-in.
- `Delivery!Wirings` says whether there is Slack, who has the Dynatrace client,
  and whether demo mode bypasses the notifier's cache.
- A line of the model's answer is its kind, and a JSON document is one line: a
  fence that shares its line with the JSON is not among the kinds. A
  verdict of the outcome store is its time and its truth.
- Definitions named `Faulty...`, `Eager...`, `Forgetful...`, `Stale...`,
  `Twice...` or `Never...` are not used by the models. Each is the definition after it with a
  plausible bug, kept to show that the property it is listed with notices it.

## 3. What TLC checks

| run | instance | shows |
|---|---|---|
| `trace_broadcaster` | 3 problems under a cap of 2 rings, rings of 2 events, 2 streams on one problem, 4 events, 1 close, any publisher | `InOrderOnce`, `LiveGapFree`, `RingIsLatest`, `TrackedByRecency`, `NoZombieQueues`, and the whole implements `EventFeed` |
| `trace_stream` | 2 problems under a cap of 1 ring, 2 streams on one, 6 events of runs that are answered or fail | `EndedStreamsSawBrief`, `AnsweredRingIsTerminal`; live: `EndingStreamsEnd`, `LiveViewersAreReleased` |
| `synthesizer` | every sequence of up to 4 of 18 observations about 3 hypotheses, cap 2, confidences at, above and below the floor, a listed and a default-trust reporter | `RankingIsTopOfTheOrder`, `SupportedComeFirst`, `StrongerSupportNeverDemotes` |
| `orchestrator` | 2 webhooks over 2 problems, specialists triage, topology and vuln_sec, every fault at every call, 4 texts of the model and its failure, one seeded root cause, confirmations in between and rejections, of causes and of a key that is none; the real services off and on the loop, and the demo | `OnlyCausalHypotheses`, `CachedEvidenceComposes`, `CacheMatchesAnswer`, `ReplanIsWhatRemains`, `SoftFaultsAreSurvived`, `OneDegradedSpecialistIsSurvived`, `DemoAlwaysAnswers`, `FencedAnswersAreUnderstood`, `ImplementsRunProtocol`; live: `TriagedRunsAreAnswered` |
| `delivery` | 2 requests over 2 problems, one retry per tool call, 1 change of a problem, 1 stop of the process, the empty and the shipped allow-list; production, the tests' wiring, and the stand-ins with and without Slack and demo mode | `RetryBudgetIsPerToolCall`, `HydrationIsAllOrNothing`, `EventsAreSentOnce`, `SlackNeverRunsAhead`, `RepostsHaveAReason`, `AnsweredIsDelivered`, `DynatraceNeverBlocksSlack` |
| `curator` | 3 runs in 2 processes, 2 seeded and 2 recorded incidents of one service, 2 root causes, 2 verdicts, clusters of 2 | `ReportedRunsCoverTheirWindow`, `PatternsArePaidOnce`, `VerdictsStand` |
| `outcomes` | 2 processes on one file, empty at first or with a row without a time and a blank line, 4 verdicts, 2 failed writes, a window of 2 in 2 bins, 3 ticks of the clock | `FeedbackIsCounted`, `TrendAddsUp`, `DashboardFailsAfterAWrite`, `AckedLossIsBounded` |

Five more runs find a documented claim violated; section 4.

Why the bounds are enough to be interesting:

- `trace_broadcaster`: a ring overflows with 3 events, the table of rings with
  3 problems; with the fourth event an evicted problem comes back, or a stream
  suspended in its replay misses one. One `close` puts a sentinel before or
  behind an event. The two streams cover different phases at once. Symmetry is
  over the two streams and the two unwatched problems, and only safety is
  checked under it.
- `trace_stream`: 6 events are two full runs, one full and several short ones,
  or failed runs before an answered one. The ring is deep enough for all of
  them, and `EndedStreamsSawBrief` depends on it: once later, failed runs have
  pushed the brief of a completed problem out of its ring, a new viewer replays
  the rest and is let go without a brief. A run publishes up to 14 events with
  the code's five specialists, so the code's depth of 64 takes at least four
  such runs. One ring for two problems makes every run of the other
  problem evict.
- `synthesizer`: overtaking takes two hypotheses and a rescaling by a third; a
  cap of 2 under 3 hypotheses cuts.
- `orchestrator`: two runs are what it takes for a cache to be stale, for a
  confirmed hypothesis to come back and for a failed run to follow an answered
  one. Triage and topology never refute, vuln_sec is the only one with a claim
  of its own; the other two differ from it in their numbers. The texts are a bare
  answer, one in a fence left open, one in a closed fence with blank lines
  around it, one behind prose, and no answer. The demo knows one of the two
  problems from memory and investigates the other.
- `delivery`: two requests are a webhook and its retry, or two problems after
  one another; one retry tells a budget per tool call from one per method; one
  stop separates what survives from what does not.
- `outcomes`: the second failed write meets the file the first one left; four
  verdicts fill both bins, their edges and a line that was spoilt; the clock
  runs past the window, so that verdicts fall out of it; of two processes one
  has a copy that the other's verdicts are not in. Symmetry is over the
  processes; safety only.
- `curator`: three runs are two that overlap and a third that finds what they
  left; two verdicts move an incident from one cluster to another. Symmetry is
  over the seeds, the recorded incidents and the processes; safety only.

## 4. Where the code and its words disagree

Each of these runs checks one sentence of the repository and finds it violated.

| run | the sentence | what the model shows |
|---|---|---|
| `stream_snapshot` | `trace_broadcaster.py:134-139`: events between snapshot and registration "are delivered live via the queue" | the generator is suspended at every replayed event before it registers; an event published there is in neither |
| `memory_hard_dep` | `orchestrator.py:372`: "Memory is a speed-up, not a hard dep" | `match` embeds and counts outside its `try`, `record` embeds outside its own; such an exception aborts the run |
| `context_age` | `dynatrace_client.py:163-164`: "Cached per problem_id for the life of the request" | only `close` empties the cache: a later request works from the earlier one's context |
| `shipped_allowlist` | `src/README.md:99`: the write path is `send_event` | `src/.env.example:43` does not allow it, and nothing catches the `PermissionError`: the request fails although every service is up (in production that is a request answered from memory, since the others fail before, see the next line) |
| `webhook_synthesis` | `adk_runtime.py:162-164`: a synchronous wrapper, so that the prose step does not "have to be async" | `asyncio.run` raises inside a running event loop, and the endpoints are coroutines that call `handle` and the replan directly: behind the app on the real services, every run that is not answered from memory fails at the prose step |

Other sentences were found not to hold while modelling; no run is spent on them:

- `trace_broadcaster.py:108`, "Problem ids whose buffer ends in a terminal
  event": a second run that fails leaves a completed problem whose ring does
  not; `AnsweredRingIsTerminal` states what does hold.
- `specialists/base.py:69-71`, the synthesizer "can still render a brief"
  without a degraded specialist: the placeholder is below the floor, so with
  only degraded and refuting specialists there is no brief;
  `OneDegradedSpecialistIsSurvived` states what does hold.
- `seed_memory.py:16-18` calls a second seeding a "safe no-op": its `$set`
  overwrites a verdict given since; `VerdictsStand` names the exception.
- `phoenix_tracer.py:79`, the dashboard is "computed from the outcome store at
  read time — never cached": a process that has a copy of the rows keeps it until
  it appends itself, so another process's verdicts do not appear;
  `FeedbackIsCounted` speaks of a process's own.
- `orchestrator.py:182-184`, the replan "Reuses cached specialist results where
  the rejected hypothesis was irrelevant; otherwise re-dispatches": it never
  dispatches. Where the rejected hypothesis was relevant to a result, that
  result is dropped and the rest is composed (`Replan`), or the request fails
  (`ReplanFails`), or the stub comes back (`ReplanFromNothing`).
  `ReplanIsWhatRemains` states what does hold of an answered replan, and is no
  evidence for that sentence.
- `slack_notifier.py:72-73`, "In production the cache stays active so a retried
  webhook never double-posts the same incident" (also lines 5-7 and 58-59): the
  reference is cached in memory, and only once Slack has answered, so a webhook
  retried after a restart, or after an answer was lost, posts a second time.
  `RepostsHaveAReason` states what does hold: no brief is posted twice, and an
  incident once more only for each of these causes.
- `slack_notifier.py:3-7` promises a retry of transient errors, which the code
  does not have; and no route serves the `/briefs/*.md` that posts link to.
- `dynatrace_client.py:152-154`, "re-posting the same brief on the same problem
  is a no-op and the Grail event stream stays clean across re-runs": a re-run
  renders a brief with a new time, whose hash is new, so its event is ingested
  beside the first; and what was sent is forgotten with the process.
  `EventsAreSentOnce` speaks of one brief.
- `dynatrace_client.py:210`, retries "on transient 429/503 with exponential
  backoff": `RateLimited` alone is retried, with the backoff; any other
  exception of a call ends it (`ToolFails`).
- `trace_broadcaster.py:49-57`, the kinds of event: `handle` also emits
  `memory-prior-hypothesis` (`orchestrator.py:162`), which is not listed, and
  nothing emits `error`, which is. `Reports` holds what is emitted.

## 5. Fairness and deadlock

- `TraceBroadcaster!FairSpec` and `TraceStream!StreamSpec`: weak fairness of
  each stream's step. The event loop resumes every ready coroutine, and the
  client is assumed to keep reading unless it disconnects. `TraceStream` adds
  weak fairness of a run's steps: `handle` is synchronous code that returns or
  raises, given that the calls it makes end. This is an assumption on the
  environment, since the code sets no timeout of its own around the tool calls
  (`request_timeout_seconds` is declared and not used).
- `OrchestratorSpec`: weak fairness of `HandleStep`, the same assumption.
- Nothing makes a webhook come, a client leave, an on-call decide or a curator
  start. `Delivery`, `Curator` and `PhoenixTracer` state no fairness and no
  liveness.

`CHECK_DEADLOCK FALSE` is set where a behaviour may come to rest: all bounded
events are published and all streams are over (`trace_broadcaster`,
`trace_stream`), the bag is full (`synthesizer`), the last request is answered
(`delivery`), the last batch is over (`curator`), the clock has stopped
(`outcomes`). The orchestrator's runs check
deadlock.

## 6. What is proved

TLAPS proves these for every value of the constants. They
rest on inductive invariants, which the theorems named `...InvariantHolds` state.

| theorem | module | says |
|---|---|---|
| `TypeCorrect` | `TraceBroadcasterProofs` | every variable keeps its type |
| `StreamsAreInOrder` | " | `InOrderOnce` |
| `QueuesBelongToLiveStreams` | " | `NoZombieQueues` |
| `LiveStreamsMissNothing` | " | `LiveGapFree` |
| `BusImplementsEventFeed` | " | the bus implements `EventFeed` |
| `RingsAreLatest` | `TraceStreamProofs` | `RingIsLatest` |
| `EvictionIsByRecency` | " | `TrackedByRecency` |
| `LateViewersFindTheAnswer` | " | `AnsweredRingIsTerminal` |
| `EndedViewersSawTheAnswer` | " | `EndedStreamsSawBrief`, while no problem has more events than a ring holds |
| `RankingIsTheTop` | `SynthesizerProofs` | `RankingIsTopOfTheOrder` |
| `SupportedIsFirst` | " | `SupportedComeFirst` |
| `SupportNeverDemotes` | " | `StrongerSupportNeverDemotes` |
| `RunsSurviveSoftFaults` | `OrchestratorProofs` | `SoftFaultsAreSurvived` |
| `ReplansStartFromComposableEvidence` | " | `CachedEvidenceComposes` |
| `OrchestratorImplementsRunProtocol` | " | `handle` implements `RunProtocol` |
| `OrchestratorTypeCorrect` | " | `TypeOK` |
| `OnlyCausesAreShown` | " | `OnlyCausalHypotheses` |
| `TheCacheIsTheAnswers` | " | `CacheMatchesAnswer` |
| `ReplansOfferTheRest` | " | `ReplanIsWhatRemains` |
| `OneDegradedSpecialistFailsNoRun` | " | `OneDegradedSpecialistIsSurvived` |
| `TheDemoAnswers` | " | `DemoAlwaysAnswers` |
| `AnswersAreUnderstood` | " | `FencedAnswersAreUnderstood`, for texts of any length |
| `RetriesAreBounded` | `DeliveryProofs` | `RetryBudgetIsPerToolCall` |
| `ContextsAreWhole` | " | `HydrationIsAllOrNothing` |
| `GrailHasNoDuplicates` | " | `EventsAreSentOnce` |
| `FilesPrecedePosts` | " | `SlackNeverRunsAhead` |
| `RepostsAreAccountedFor` | " | `RepostsHaveAReason` |
| `AnswersMeanDelivery` | " | `AnsweredIsDelivered` |
| `SlackHearsDespiteDynatrace` | " | `DynatraceNeverBlocksSlack` |
| `TheModelIsPaidOnce` | `CuratorProofs` | `PatternsArePaidOnce` |
| `ReportsAreComplete` | " | `ReportedRunsCoverTheirWindow` |
| `OnlyVerdictsChangeVerdicts` | " | `VerdictsStand` |
| `LossIsBounded` | `PhoenixTracerProofs` | `AckedLossIsBounded` |
| `DashboardAnswers` | " | `DashboardFailsAfterAWrite` |
| `FeedbackCounts` | " | `FeedbackIsCounted` |
| `TheTrendAddsUp` | " | `TrendAddsUp` |

Assumptions, each as the code justifies it: `ConstantsAssumption` (the streams'
topics are problems, the terminal kinds are kinds, sizes and caps are positive);
`StreamAssumption` (the kinds a run publishes are kinds, brief-ready is
terminal); `BagAssumption` (what `SynthesizerBags` reports is evidence);
`OrchestratorAssumption` and `SynthesizerAssumption` (a roster of
known specialists, row counts are numbers, the specialists' keys are hypotheses
and no seeded incident has a placeholder's, the model's texts are lines, what a request may reject are keys, strings
are ordered without ties, the floor is a positive percentage);
`ConfigAssumption` (the floor lies above the placeholders' 0.1 of
`specialists/base.py:85` and not above the lowest claim of triage and topology,
and the cap has room for every cause the specialists can name: `synthesizer.py:45-46`
has 0.3 and 5, and `app.py` passes no other values) and `RosterAssumption`
(triage, topology and vuln_sec are dispatched: `app.py:144-149` and 244-249), on
which `OneDegradedSpecialistIsSurvived` and `DemoAlwaysAnswers` depend;
`ClientAssumption` and `DeliveryAssumption` (the retries are a number, allow-lists
name tools, briefs are numbered, wirings are wirings); `MemoryAssumption` and
`CuratorAssumption`; `TracerAssumption` (the window and the number of bins are
numbers, an old file holds rows and blank lines). Bounds of the models
(`MaxEvents`, `MaxRuns`, ...) are any number.

The broadcaster's invariant. `InOrderOnce` speaks of what was yielded and is
not inductive: whether the next event is new depends on where it waits. `IInv`
therefore adds that each ring is an ordered part of its problem's history
(`RingInv`), that what is left of a replay and what waits in a queue is ordered
and lies behind everything yielded (`ReplayInv`, `QueueInv`), and that a stream
without a registered queue has nothing in it (`RegisteredInv`). The last one
carries the boundary between replay and live part: a queue starts empty at the
moment it is registered, so all it ever holds is later than what was replayed.
`LiveGapFree` is proved from `IInv` stream by stream (`NextCaught`): from its
registration on, an event of the problem is in the queue or was yielded. The
refinement maps `ended` to the streams that are over; a publication is the
feed's, a yield is a delivery (ordered by `IInv`), an end is an end, and
everything else stutters.

The orchestrator's invariant. `SoftFaultsAreSurvived` speaks of runs that are
over; `IInv` follows a run there. `StageFacts` says what a stage may rely on (a
run under way has a problem, it composes only with all the reports, and it
persists only evidence that clears the floor, which gives
`CachedEvidenceComposes` when the cache is written). `TraceEnd` says that a run
under way has announced its brief exactly when the close is all that is left,
which the refinement needs to tell a failure from an answer. The lemmas
`FindingIsEvidence` and `DegradedIsEvidence` show that what any specialist
returns is well-formed evidence however many rows it found.

A second invariant, `AInv`, follows the evidence to what is shown. What a bag
holds is what this roster claims (`EvidenceFacts`), so a hypothesis that clears
the floor is a cause and no placeholder (`KeptAreCauses`), two of the roster's
claims are always different, and only two placeholders can silence triage and
topology (`SilenceTakesTwoPlaceholders`). `AnswerFacts` carries a brief from the
stage that composes it to the one that returns it: it is the ranking of the bag,
and from the write on that bag is the cached one. `ReplanFacts` says that a
reject request is answered from the cached evidence as long as no run starts:
`WithoutLeavesTheRest` and `StripNumbersTheRest` describe the two comprehensions
a replan goes through. For the demo, `DemoFindsBothCauses` finds two causes in
the bag that clear the floor, so whichever is rejected the other is left.
`AnswersAreUnderstood` needs no invariant of runs but a fact about text:
`AnswersAreUsable` follows the first and the last line of an answer through the
two strips of `adk_runtime.py`, blank lines and an open fence included.

The ranking. A score is a sum over the places that support a hypothesis, divided
by counts, and a rank counts those that outrank. `DataTheorems` has what is
needed of that for every argument: what a sum is when an element is taken out,
when its terms agree, how it is bounded and how it splits over bins; what a list
at a set of places is; and that the ranks of a finite order without ties are a
numbering of it (`RanksAreAPermutation`). Where induction would be used, the
proofs take a least counterexample (`WFMin` of the library), since a recursive
function's equation refutes it; that the function exists is shown the same way.
`Outranks` is shown to be a strict total order by comparing fractions, and
`Ranked` to be its first elements. For `SupportNeverDemotes` the new piece
changes the largest support, hence the score of everything: `QualityRises` and
`MostRises` are the two cases of that, and `MoreSupportKeepsTheLead` concludes
that nobody overtakes the hypothesis that was supported.

The rings. `RingIsLatest` and `TrackedByRecency` are inductive together with
`IInv`, since only a publication writes what they speak of. `TouchElements` and
`KeptElements` describe the table of rings key by key: `Touch` takes one key out
of its place and puts it last, and what is cut off comes from the front. The
recency order makes all keys different, so the published problem is never among
those evicted, and an evicted one is not in what is kept. `RunsInv` of
`TraceStreamProofs` adds that a problem whose last run was answered stays
answered until its ring is evicted or a later run of it fails: a publication for
another problem evicts its ring or leaves it alone.

The viewers. A stream ends because it replayed under a completion mark, or took
the sentinel. `ViewersInv` says that either way an answer is on its way to it: a
mark stands for an answer in the ring (`MarksHoldAnswers`), what is left or done
of a replay under a mark has it (`ReplaysHoldAnswers`), a queue with a sentinel
has an answer before it or already delivered (`EndsAnswered`), and a run about
to close has put its answer into every queue (`ClosesAreAnswered`). The first
two hold as long as the ring never had to drop an event of that problem
(`Fits`), which is the hypothesis of `EndedViewersSawTheAnswer`: beyond it the
property is false, as section 3 explains. With the code's depth of 64 and runs
of at most 14 events every problem with up to four runs is covered.

The deliveries' invariant follows a brief from place to place. `ClientInv` is
the client's shape and what a call has used of its budget; `CallInv` says which
call a stage has under way; `EventInv`, `FileInv` and `PostInv` say for Grail,
the file and Slack what is there before the stage that delivers to it and what
is there from that stage on; `AnswerInv` collects them for answered requests.
The central case is a lost answer: an event the client does not remember was
never ingested unless its answer was lost, while its brief is the current one.
Posts are counted against their reasons: a problem that is not in the notifier's
cache owes all of its posts to unheard answers and stops.

The curator's invariant. `PatternsArePaidOnce` counts askings of the model, and
is inductive with two more accounts: while a pattern is not filed, every asking
for it was wasted or is under way, and the runs under way are at most one more
than the overlaps. `Coverage` says that what a run has taken off its list is in
the bank, and that a file that is not whole is being written or was when a run
ended; a run that reports has nothing left on its list.

The outcome store's invariant. `AckedLossIsBounded` would not survive a second
verdict on an unfinished line, so `Budget` counts such a line as a verdict that
may still be lost, and `Ledger` says that it is nobody's. `TornAfterAWrite` ties
what json.loads refuses to the failed writes, a blank line and a row without a
time being read. `Answers` adds what a dashboard counts: every verdict has a
line to itself that says what it said or is torn, the lines that are nobody's
number at most the failed writes, and a process's copy has its own verdicts.
The invariant counts lines, the theorem verdicts; `AsManyAsLines` is the
bijection between them. The trend adds up because every row of the window falls
into exactly one bin (`BinsAreInRange`: the clamping of the last edge) and a sum
over bins is the count of all (`SumOfBins`).

Only model-checked: liveness, since fairness is out of TLAPS's reach
(`EndingStreamsEnd`, `LiveViewersAreReleased`, `TriagedRunsAreAnswered`). Every
other property of the passing runs is the subject of a theorem. `EndedStreamsSawBrief` alone has
a hypothesis, which the run `trace_stream` meets by its bounds.

## 7. What is not modelled

- Spans (`phoenix_tracer.py`): exported and never read back, and nothing in
  `src/` opens one. What a row of the outcome store says beside its time and its
  verdict.
- The similarity search, the embedding and the occurrence count of `match`: the
  orchestrator's model takes their results and exceptions as choices.
- The agent of `adk_runtime.py` with the specialists as tools: it is built and
  never run.
- Validation and rendering in `domain/`, block-kit rendering, server-sent-event
  frames and the pages: data and layout.
- The scripts that record and probe Dynatrace, and the health route: input and
  output without state.
- `request_timeout_seconds` and `rate_limit_per_minute` are configured and used
  nowhere, so there is nothing to model. Nothing in `src/` assigns the client's
  MCP process outside the tests: the model is of a client that has one.
- `update_resolution` and `record_outcome` have no caller in `src/`; they are
  modelled as the on-call's verdict, which is what their documentation says they
  are for. `await_feedback` is a stub.

Hazards without a property are listed with their reason in `PROJECT.json`. They
are things the code does not prevent: a pattern file outlives the verdict it was
learned from, later failed runs push a brief out of its ring, and a webhook sent
again is a new brief with a new event.

## 8. Plan

Built in the order of importance: the bus and its proofs, the runs over it, the
ranking, the orchestrator and its proofs, the deliveries, the memory and the
curator, the outcome store, the demo's and the model's side of the orchestrator,
then the proofs of everything built after the bus. Next:

1. An abstract specification of delivery (a request is filed, posted, ingested,
   in this order, any suffix missing) that `Delivery` implements.
2. Once a handler for the on-call's feedback exists in the code: the path from
   Slack to `update_resolution` and `record_outcome`, which would tie the memory
   and the outcome store together.
