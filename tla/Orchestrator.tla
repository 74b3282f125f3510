---------------------------- MODULE Orchestrator ----------------------------
(***************************************************************************)
(* Orchestrator.handle and reject_hypothesis_and_replan (orchestrator.py)  *)
(* with the synthesizer they call and the incident memory they read and    *)
(* write.  handle runs to its end without releasing the event loop, so     *)
(* there is one run at a time; it is split where a call it makes can fail. *)
(*                                                                         *)
(* A fault a call may raise is a choice of the environment, noted in       *)
(* faults: the soft ones are caught in the code, the hard ones escape.     *)
(*                                                                         *)
(* The services are the real ones, all of which can fail, or the demo's    *)
(* in-process stand-ins (_demo_wiring.py), none of which can.  The         *)
(* endpoints of app.py call from the event loop; the tests and a caller    *)
(* with a thread of its own do not.                                        *)
(***************************************************************************)
EXTENDS Synthesizer, Specialists, AdkRuntime

CONSTANTS
  Problems,
  Roster,     \* the names of the specialists, in the order of dispatch
  RowCounts,  \* specialist -> how many rows its query may find
  Wirings,    \* which services the program runs on, and where it is called
  SeededKeys, \* the root causes of the incidents the real memory is seeded with
  DemoProblem, \* the problem the demo's memory knows
  Texts,      \* what the language model may answer, <<>> when it raises
  Rejectable, \* the keys a reject request may name
  MaxRuns     \* bound on the number of webhooks

NoProblem == "no problem"

ASSUME OrchestratorAssumption ==
  /\ Roster \in Seq(SpecialistNames)
  /\ RowCounts \in [SpecialistNames -> SUBSET Nat]
  /\ MaxRuns \in Nat
  /\ SpecialistNames \subseteq Reporters
  /\ CausalKeys \subseteq Hypotheses
  /\ \A i \in DOMAIN Roster : FallbackKey[Roster[i]] \in Hypotheses
  /\ NoProblem \notin Problems
  /\ Wirings \subseteq [services : {"real", "demo"}, onLoop : BOOLEAN]
  /\ SeededKeys \subseteq Hypotheses \ FallbackKeys
  /\ Rejectable \subseteq Hypotheses
  /\ Texts \subseteq Seq(LineKinds)

\* The floor the program runs with is above the confidence of a placeholder
\* and below that of every claim triage or topology makes, and the cap leaves
\* room for all the causes the specialists can name.
ASSUME ConfigAssumption ==
  /\ MinSupportingConfidence \in 11..50
  /\ Cardinality(CausalKeys) <= MaxHypotheses

\* Both wirings dispatch to the two specialists that never refute and to the
\* one with a claim of its own.
ASSUME RosterAssumption ==
  \A s \in {"triage", "topology", "vuln_sec"} : \E i \in DOMAIN Roster : Roster[i] = s

VARIABLES
  wiring,        \* the wiring the program was started with
  at,            \* how far the current handle got
  latest,        \* the problem of the current or else the latest run
  bag,           \* the evidence the run collected
  brief,         \* the brief the run built
  faults,        \* what went wrong in the run
  said,          \* the text the model failed the run with
  trace,         \* the kinds of event the run published
  closed,        \* whether the run closed the problem's streams
  runs,          \* how many runs there were
  lastEvidence,  \* _last_evidence: problem -> bag
  outcome,       \* how the latest run of each problem ended
  answer,        \* the hypotheses of the last brief handle returned, by problem
  replanned,     \* what the last reject request was answered
  recorded,      \* the hypotheses in the recorded incidents
  confirmed      \* those the on-call has confirmed as root cause

run     == <<wiring, at, latest, bag, brief, faults, said, trace, closed, runs>>
results == <<lastEvidence, outcome, answer, replanned>>
memory  == <<recorded, confirmed>>
orchestratorVars == <<run, results, memory>>

NoBrief   == [hypotheses |-> <<>>, from_memory |-> FALSE]
NoReplan  == [of |-> NoProblem, rejected |-> "none", cached |-> FALSE,
              failed |-> FALSE, hypotheses |-> <<>>]

Stages == {"idle", "matching", "dispatching", "investigating", "composing",
           "persisting", "sending", "answering", "closing"}
Outcomes == {"none", "cold", "memory", "failed"}
SoftFaults == {"memory unavailable", "specialist degraded", "write-back dropped"}
HardFaults == {"memory raised", "specialist raised", "model failed",
               "write-back raised", "nested event loop"}

\* The kinds of event handle emits between the first and the last.
Reports == {"memory-short-circuit", "memory-prior-hypothesis",
            "specialist-dispatched", "specialist-completed", "synthesizer-started"}

Hypothesis == [key : Hypotheses, rank : Nat \ {0}]

TypeOK ==
  /\ wiring \in Wirings
  /\ at \in Stages
  /\ latest \in Problems \cup {NoProblem}
  /\ bag \in Seq(Evidence)
  /\ Len(bag) <= Len(Roster)
  /\ brief \in [hypotheses : Seq(Hypothesis), from_memory : BOOLEAN]
  /\ faults \subseteq SoftFaults \cup HardFaults
  /\ said \in Texts \cup {<<>>}
  /\ trace \in Seq(Reports \cup {"orchestrator-started", "brief-ready"})
  /\ closed \in BOOLEAN
  /\ runs \in 0..MaxRuns
  /\ lastEvidence \in [Problems -> Seq(Evidence)]
  /\ outcome \in [Problems -> Outcomes]
  /\ answer \in [Problems -> Seq(Hypothesis)]
  /\ replanned \in [of : Problems \cup {NoProblem}, rejected : Hypotheses \cup {"none"},
                    cached : BOOLEAN, failed : BOOLEAN,
                    hypotheses : Seq(Hypothesis)]
  /\ recorded \subseteq Hypotheses
  /\ confirmed \subseteq Hypotheses

Real == wiring.services = "real"

OrchestratorInit ==
  /\ wiring \in Wirings
  /\ at = "idle"
  /\ latest = NoProblem
  /\ bag = <<>>
  /\ brief = NoBrief
  /\ faults = {}
  /\ said = <<>>
  /\ trace = <<>>
  /\ closed = FALSE
  /\ runs = 0
  /\ lastEvidence = [p \in Problems |-> <<>>]
  /\ outcome = [p \in Problems |-> "none"]
  /\ answer = [p \in Problems |-> <<>>]
  /\ replanned = NoReplan
  /\ recorded = IF Real THEN SeededKeys ELSE {}
  /\ confirmed = recorded

Emit(kind) == trace' = Append(trace, kind)

\* An exception leaves handle: no brief-ready, no close.
Abort(fault) ==
  /\ at' = "idle"
  /\ faults' = faults \cup {fault}
  /\ outcome' = [outcome EXCEPT ![latest] = "failed"]
  /\ UNCHANGED <<wiring, latest, bag, brief, closed, runs, lastEvidence, answer,
                 replanned, memory>>

\* A step of handle from one stage to the next that keeps its results.
Go(from, to) ==
  /\ at = from
  /\ at' = to
  /\ UNCHANGED <<wiring, latest, said, closed, runs, outcome, answer, replanned>>

-----------------------------------------------------------------------------
(* handle *)

\* A webhook: the signature is read off the payload and the first event sent.
\* A payload it can not be read off raises before anything is changed, which is
\* a stuttering step.
Begin(p) ==
  /\ at = "idle"
  /\ runs < MaxRuns
  /\ at' = "matching"
  /\ latest' = p
  /\ bag' = <<>>
  /\ brief' = NoBrief
  /\ faults' = {}
  /\ said' = <<>>
  /\ trace' = <<"orchestrator-started">>
  /\ closed' = FALSE
  /\ runs' = runs + 1
  /\ replanned' = NoReplan
  /\ UNCHANGED <<wiring, lastEvidence, outcome, answer, memory>>

\* The incident the demo's memory returns for its problem, and its only one.
CannedMatch == {"db_pool_exhaustion"}
DemoHits    == IF latest = DemoProblem THEN CannedMatch ELSE {}

\* The root causes match may come back with: in the real memory that of any
\* resolved incident, similarity being the embedding's affair.
Hits == IF Real THEN confirmed ELSE DemoHits

\* No confirmed incident is similar enough.
MatchNothing ==
  /\ Real \/ Hits = {}
  /\ Go("matching", "dispatching")
  /\ UNCHANGED <<bag, brief, faults, trace, lastEvidence, memory>>

\* MemoryStoreUnavailable is caught in _memory_match_or_none.
MatchUnavailable ==
  /\ Real
  /\ Go("matching", "dispatching")
  /\ faults' = faults \cup {"memory unavailable"}
  /\ UNCHANGED <<bag, brief, trace, lastEvidence, memory>>

\* MemoryStore.match lets the exceptions of its embedder and of
\* count_documents through.
MatchRaises ==
  /\ Real
  /\ at = "matching"
  /\ Abort("memory raised")
  /\ UNCHANGED <<trace, said>>

\* Between the thresholds: announced, and no specialist reads the bias.
MatchMedium ==
  /\ Real
  /\ Hits # {}
  /\ Go("matching", "dispatching")
  /\ Emit("memory-prior-hypothesis")
  /\ UNCHANGED <<bag, brief, faults, lastEvidence, memory>>

\* Above the high threshold: the brief repeats the confirmed root cause (a
\* record read back from the store carries no ranked hypotheses), nothing is
\* dispatched, persisted or cached.
MatchHigh(k) ==
  /\ k \in Hits
  /\ Go("matching", "sending")
  /\ Emit("memory-short-circuit")
  /\ brief' = [hypotheses |-> <<[key |-> k, rank |-> 1]>>, from_memory |-> TRUE]
  /\ UNCHANGED <<bag, faults, lastEvidence, memory>>

Dispatch ==
  /\ Len(bag) < Len(Roster)
  /\ Go("dispatching", "investigating")
  /\ Emit("specialist-dispatched")
  /\ UNCHANGED <<bag, brief, faults, lastEvidence, memory>>

Summoned == Roster[Len(bag) + 1]

\* FAULT: the evidence is collected twice.
FaultyComplete(evidence) ==
  /\ Go("investigating", "dispatching")
  /\ bag' = bag \o <<evidence, evidence>>
  /\ Emit("specialist-completed")
  /\ UNCHANGED <<brief, lastEvidence, memory>>

Complete(evidence) ==
  /\ Go("investigating", "dispatching")
  /\ bag' = Append(bag, evidence)
  /\ Emit("specialist-completed")
  /\ UNCHANGED <<brief, lastEvidence, memory>>

\* The rows of the demo's canned results: of the two events one is a deploy,
\* and a neighbour is known of one service only.
DemoRows ==
  [triage |-> {1}, topology |-> {0, 1}, deploy_correlation |-> {1},
   anomaly_window |-> {1}, vuln_sec |-> {1}]

RowsFound(s) == IF Real THEN RowCounts[s] ELSE DemoRows[s]

SpecialistFinds ==
  /\ at = "investigating"
  /\ \E rows \in RowsFound(Summoned) : Complete(Finding(Summoned, rows))
  /\ UNCHANGED faults

SpecialistDegrades ==
  /\ Real
  /\ at = "investigating"
  /\ Complete(Degraded(Summoned))
  /\ faults' = faults \cup {"specialist degraded"}

\* Anything but the two exceptions _safely catches, such as the allow-list's
\* PermissionError.
SpecialistRaises ==
  /\ Real
  /\ at = "investigating"
  /\ Abort("specialist raised")
  /\ UNCHANGED <<trace, said>>

\* FAULT: the evidence is cached as soon as it is complete.
EagerStartSynthesis ==
  /\ Len(bag) = Len(Roster)
  /\ Go("dispatching", "composing")
  /\ Emit("synthesizer-started")
  /\ lastEvidence' = [lastEvidence EXCEPT ![latest] = bag]
  /\ UNCHANGED <<bag, brief, faults, memory>>

StartSynthesis ==
  /\ Len(bag) = Len(Roster)
  /\ Go("dispatching", "composing")
  /\ Emit("synthesizer-started")
  /\ UNCHANGED <<bag, brief, faults, lastEvidence, memory>>

\* The model is asked through asyncio.run, which refuses to run inside a
\* running event loop; the demo has its answers at hand.
UsableTexts    == {text \in Texts : Usable(text)}
ModelMayAnswer == Real => ~wiring.onLoop /\ UsableTexts # {}
ModelMayFail   == Real /\ (wiring.onLoop \/ UsableTexts # Texts)

Compose ==
  /\ Go("composing", "persisting")
  /\ ModelMayAnswer
  /\ Kept(bag) # {}
  /\ brief' = [hypotheses |-> Ranked(bag), from_memory |-> FALSE]
  /\ UNCHANGED <<bag, faults, trace, lastEvidence, memory>>

\* SynthesisFailed: nothing cleared the floor ...
ComposeNothing ==
  /\ at = "composing"
  /\ Kept(bag) = {}
  /\ at' = "idle"
  /\ outcome' = [outcome EXCEPT ![latest] = "failed"]
  /\ UNCHANGED <<latest, bag, brief, faults, trace, closed, runs,
                 lastEvidence, answer, replanned, memory, wiring, said>>

\* ... or the language model's answer was unusable ...
ComposeModelFails(text) ==
  /\ Real
  /\ ~wiring.onLoop
  /\ at = "composing"
  /\ Kept(bag) # {}
  /\ ~Usable(text)
  /\ said' = text
  /\ Abort("model failed")
  /\ UNCHANGED trace

\* ... or it could not be asked.
ComposeOnLoopFails ==
  /\ Real
  /\ wiring.onLoop
  /\ at = "composing"
  /\ Kept(bag) # {}
  /\ Abort("nested event loop")
  /\ UNCHANGED <<trace, said>>

\* _persist, then the evidence is cached for replans.
Persist ==
  /\ Go("persisting", "sending")
  /\ recorded' = recorded \cup KeysOf(brief.hypotheses)
  /\ lastEvidence' = [lastEvidence EXCEPT ![latest] = bag]
  /\ UNCHANGED <<bag, brief, faults, trace, confirmed>>

\* FAULT: a failed write fails the run.
FaultyPersistUnavailable ==
  /\ at = "persisting"
  /\ Abort("memory unavailable")
  /\ UNCHANGED <<trace, said>>

\* The write failed as MemoryStoreUnavailable and was dropped.
PersistUnavailable ==
  /\ Real
  /\ Go("persisting", "sending")
  /\ faults' = faults \cup {"memory unavailable"}
  /\ lastEvidence' = [lastEvidence EXCEPT ![latest] = bag]
  /\ UNCHANGED <<bag, brief, trace, memory>>

\* MemoryStore.record lets the exceptions of its embedder through.
PersistRaises ==
  /\ Real
  /\ at = "persisting"
  /\ Abort("memory raised")
  /\ UNCHANGED <<trace, said>>

\* _write_back_to_dynatrace: not wired, or accepted.
WriteBack ==
  /\ Go("sending", "answering")
  /\ UNCHANGED <<bag, brief, faults, trace, lastEvidence, memory>>

\* FAULT: a refused brief is composed anew, for as long as it is refused.
FaultyWriteBackDropped ==
  /\ Go("sending", "composing")
  /\ faults' = faults \cup {"write-back dropped"}
  /\ UNCHANGED <<bag, brief, trace, lastEvidence, memory>>

\* DynatraceUnavailable and RateLimited are swallowed.
WriteBackDropped ==
  /\ Real
  /\ Go("sending", "answering")
  /\ faults' = faults \cup {"write-back dropped"}
  /\ UNCHANGED <<bag, brief, trace, lastEvidence, memory>>

WriteBackRaises ==
  /\ Real
  /\ at = "sending"
  /\ Abort("write-back raised")
  /\ UNCHANGED <<trace, said>>

\* _emit_brief_ready_and_close: the last event ...
Announce ==
  /\ Go("answering", "closing")
  /\ Emit("brief-ready")
  /\ UNCHANGED <<bag, brief, faults, lastEvidence, memory>>

\* FAULT: the streams are left open.
FaultyReturn ==
  /\ at = "closing"
  /\ at' = "idle"
  /\ outcome' = [outcome EXCEPT
       ![latest] = IF brief.from_memory THEN "memory" ELSE "cold"]
  /\ answer' = [answer EXCEPT ![latest] = brief.hypotheses]
  /\ UNCHANGED <<wiring, latest, bag, brief, faults, said, trace, closed, runs,
                 lastEvidence, replanned, memory>>

\* ... then the streams are closed, and handle returns the brief.
Return ==
  /\ at = "closing"
  /\ at' = "idle"
  /\ closed' = TRUE
  /\ outcome' = [outcome EXCEPT
       ![latest] = IF brief.from_memory THEN "memory" ELSE "cold"]
  /\ answer' = [answer EXCEPT ![latest] = brief.hypotheses]
  /\ UNCHANGED <<wiring, latest, bag, brief, faults, said, trace, runs,
                 lastEvidence, replanned, memory>>

HandleStep ==
  \/ MatchNothing \/ MatchUnavailable \/ MatchRaises \/ MatchMedium
  \/ \E k \in Hypotheses : MatchHigh(k)
  \/ Dispatch
  \/ SpecialistFinds \/ SpecialistDegrades \/ SpecialistRaises
  \/ StartSynthesis \/ Compose \/ ComposeNothing
  \/ \E text \in Texts : ComposeModelFails(text)
  \/ ComposeOnLoopFails
  \/ Persist \/ PersistUnavailable \/ PersistRaises
  \/ WriteBack \/ WriteBackDropped \/ WriteBackRaises
  \/ Announce \/ Return

-----------------------------------------------------------------------------
(* reject_hypothesis_and_replan, as the reject endpoint calls it *)

\* The evidence about anything else.
Without(evidence, k) ==
  Subsequence(evidence, {i \in DOMAIN evidence : evidence[i].key # k})

\* _strip_hypothesis: what is left is numbered from 1 again.
Strip(hypotheses, k) ==
  LET rest == Subsequence(hypotheses, {i \in DOMAIN hypotheses : hypotheses[i].key # k})
  IN  [r \in DOMAIN rest |-> [key |-> rest[r].key, rank |-> r]]

\* FAULT: the evidence is not filtered, only the list is.
FaultyReplanning(evidence, k) ==
  LET list == Ranked(evidence)
  IN  Subsequence(list, {i \in DOMAIN list : list[i].key # k})

\* What compose makes of the cached evidence without k.
Replanning(evidence, k) == Strip(Ranked(Without(evidence, k)), k)

Reply(p, k, cached, failed, hypotheses) ==
  /\ replanned' = [of |-> p, rejected |-> k, cached |-> cached,
                   failed |-> failed, hypotheses |-> hypotheses]
  /\ UNCHANGED <<run, lastEvidence, outcome, answer, memory>>

\* FAULT: the cache is narrowed to what the replan used.
FaultyReplan(p, k) ==
  LET left == Without(lastEvidence[p], k)
  IN  /\ at = "idle"
      /\ Kept(left) # {}
      /\ replanned' = [of |-> p, rejected |-> k, cached |-> TRUE,
                       failed |-> FALSE, hypotheses |-> Replanning(lastEvidence[p], k)]
      /\ lastEvidence' = [lastEvidence EXCEPT ![p] = left]
      /\ UNCHANGED <<run, outcome, answer, memory>>

\* The cached evidence minus the rejected key is composed again.
Replan(p, k) ==
  /\ at = "idle"
  /\ ModelMayAnswer
  /\ Kept(Without(lastEvidence[p], k)) # {}
  /\ Reply(p, k, TRUE, FALSE, Replanning(lastEvidence[p], k))

\* Evidence is left, and it does not compose: nothing in it clears the floor,
\* or the model's answer is unusable, or it can not be asked.  The request
\* fails.
ReplanFails(p, k) ==
  /\ at = "idle"
  /\ Without(lastEvidence[p], k) # <<>>
  /\ Kept(Without(lastEvidence[p], k)) # {} => ModelMayFail
  /\ Reply(p, k, TRUE, TRUE, <<>>)

\* No evidence is cached, or none is left: the endpoint's stub, which has no
\* hypotheses, is returned.
ReplanFromNothing(p, k) ==
  /\ at = "idle"
  /\ Without(lastEvidence[p], k) = <<>>
  /\ Reply(p, k, FALSE, FALSE, Strip(<<>>, k))

-----------------------------------------------------------------------------
\* The on-call's verdict on a hypothesis of a recorded brief
\* (MemoryStore.update_resolution; nothing in src/ calls it, and the demo's
\* memory does not act on it).
Confirm(k) ==
  /\ Real
  /\ at = "idle"
  /\ k \in recorded
  /\ confirmed' = confirmed \cup {k}
  /\ UNCHANGED <<run, results, recorded>>

\* The endpoint takes any key: of a hypothesis shown, of one on an old page, of
\* nothing at all.
OrchestratorNext ==
  \/ \E p \in Problems : Begin(p)
  \/ HandleStep
  \/ \E p \in Problems, k \in Rejectable :
       Replan(p, k) \/ ReplanFails(p, k) \/ ReplanFromNothing(p, k)
  \/ \E k \in Hypotheses : Confirm(k)

\* handle, once called, keeps running: its calls return or raise.
OrchestratorSpec ==
  /\ OrchestratorInit
  /\ [][OrchestratorNext]_orchestratorVars
  /\ WF_orchestratorVars(HandleStep)

-----------------------------------------------------------------------------
\* A key that can name a root cause: a specialist claims it, or a seed.
CauseKeys == CausalKeys \cup SeededKeys

\* Every hypothesis an on-call is shown, by handle, by a replan or out of the
\* memory, is one a specialist made a causal claim for or a seeded incident was
\* resolved to: "<name>_unavailable",
\* the placeholder of a specialist that could not look, never reaches a brief
\* and is therefore never confirmed and never served from memory.
OnlyCausalHypotheses ==
  /\ KeysOf(brief.hypotheses) \subseteq CauseKeys
  /\ \A p \in Problems : KeysOf(answer[p]) \subseteq CauseKeys
  /\ KeysOf(replanned.hypotheses) \subseteq CauseKeys
  /\ recorded \subseteq CauseKeys
  /\ confirmed \subseteq CauseKeys

\* The evidence a replan works from composes as it is: rejecting a hypothesis
\* the investigation never considered can not fail for lack of evidence.
CachedEvidenceComposes ==
  \A p \in Problems : lastEvidence[p] # <<>> => Kept(lastEvidence[p]) # {}

\* While the latest run of a problem is one that was answered from evidence,
\* the evidence cached for replans ranks to the very answer that was given,
\* however many hypotheses were rejected since.
CacheMatchesAnswer ==
  \A p \in Problems :
    outcome[p] = "cold" /\ ~(at # "idle" /\ latest = p) =>
      Ranked(lastEvidence[p]) = answer[p]

\* A replan offers what the cached evidence supports apart from the rejected
\* hypothesis, all of it and numbered from one.  This is what the code does of
\* "Reuses cached specialist results where the rejected hypothesis was
\* irrelevant; otherwise re-dispatches" (orchestrator.py:182-184): the results
\* it was relevant to are left out, and no specialist is ever asked again.
ReplanIsWhatRemains ==
  replanned.cached /\ ~replanned.failed =>
    /\ KeysOf(replanned.hypotheses) =
         Kept(lastEvidence[replanned.of]) \ {replanned.rejected}
    /\ \A i \in DOMAIN replanned.hypotheses : replanned.hypotheses[i].rank = i

FailedRun == at = "idle" /\ latest # NoProblem /\ outcome[latest] = "failed"

\* A run fails because an exception escaped or because no evidence it
\* collected clears the floor; no combination of unavailable memory, degraded
\* specialists and refused write-backs fails a run that has a finding.
SoftFaultsAreSurvived ==
  FailedRun =>
    \/ faults \cap HardFaults # {}
    \/ Len(bag) = Len(Roster) /\ Kept(bag) = {}

\* One specialist short, the synthesizer still has a brief to render (with the
\* roster of the program, where triage and topology never refute).
OneDegradedSpecialistIsSurvived ==
  FailedRun /\ faults \cap HardFaults = {} =>
    Cardinality({i \in DOMAIN bag : bag[i].key \in FallbackKeys}) > 1

\* Watched from outside, the runs follow RunProtocol.
Running == IF at = "idle" THEN NoProblem ELSE latest
Protocol == INSTANCE RunProtocol WITH job <- Running
ImplementsRunProtocol == Protocol!Spec

\* A run that was begun ends, and one without a hard fault that found the cause
\* in the logs ends in an answer: triage's claim always clears the floor.
TriagedRunsAreAnswered ==
  /\ (at # "idle") ~> (at = "idle")
  /\ \A p \in Problems :
       (/\ at = "composing"
        /\ latest = p
        /\ \E i \in DOMAIN bag :
             bag[i].specialist = "triage" /\ bag[i].stance = "supports")
         ~> (at = "idle" /\ (outcome[p] = "cold" \/ faults \cap HardFaults # {}))

\* "Memory is a speed-up, not a hard dep": no run fails for the memory alone.
MemoryIsASpeedUp ==
  FailedRun =>
    \/ faults \cap (HardFaults \ {"memory raised"}) # {}
    \/ Len(bag) = Len(Roster) /\ Kept(bag) = {}

\* The demo answers: a run on its stand-ins never fails, and whatever is
\* rejected of an investigated problem, and however often, another hypothesis
\* is left ("the cached evidence bag, which still contains the other
\* specialists' keys").
DemoAlwaysAnswers ==
  ~Real =>
    /\ ~FailedRun
    /\ replanned.of # NoProblem /\ lastEvidence[replanned.of] # <<>> =>
         replanned.hypotheses # <<>>

\* An answer of the model is understood with and without a fence around it,
\* tagged or bare, closed or not, and whatever blank lines it comes with: a run
\* the model fails was told something else.
FencedAnswersAreUnderstood ==
  "model failed" \in faults => ~IsAnswer(said)

\* "Deterministic callers (the synthesizer's prose step) don't have to be
\* async themselves": no run fails for being called from the event loop.
SynchronousCallersAreServed ==
  FailedRun =>
    \/ faults \cap (HardFaults \ {"nested event loop"}) # {}
    \/ Len(bag) = Len(Roster) /\ Kept(bag) = {}
=============================================================================
