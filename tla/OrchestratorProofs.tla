------------------------- MODULE OrchestratorProofs -------------------------
(***************************************************************************)
(* What is proved of Orchestrator for every roster, every set of problems  *)
(* and every number of runs.  There are two invariants.                    *)
(*                                                                         *)
(* IInv follows the run: the shape of the state (Shape), what the trace of *)
(* a run under way ends in (TraceEnd), what a stage of handle may rely on  *)
(* (StageFacts), and the two properties that follow the run from its       *)
(* faults to its outcome.                                                  *)
(*                                                                         *)
(* AInv, on top of it, follows the evidence to the answers: what the       *)
(* specialists may have claimed (EvidenceFacts), that a brief that is not  *)
(* from memory ranks the bag and the bag is what was cached (AnswerFacts), *)
(* and that a reject request is answered from it (ReplanFacts).            *)
(*                                                                         *)
(* The lemmas on the ranking come from SynthesizerProofs, which speaks of  *)
(* one bag given at random; its constants and its variable play no part    *)
(* here.                                                                   *)
(***************************************************************************)
EXTENDS Orchestrator, SynthesizerProofs

Shape ==
  /\ at \in Stages
  /\ latest \in Problems \cup {NoProblem}
  /\ bag \in Seq(Evidence)
  /\ Len(bag) <= Len(Roster)
  /\ faults \subseteq SoftFaults \cup HardFaults
  /\ trace \in Seq(Reports \cup {"orchestrator-started", "brief-ready"})
  /\ lastEvidence \in [Problems -> Seq(Evidence)]
  /\ outcome \in [Problems -> Outcomes]

\* While handle runs, the trace ends in brief-ready exactly when the close is
\* all that is left to do.
TraceEnd ==
  at # "idle" =>
    /\ trace # <<>>
    /\ trace[Len(trace)] = "brief-ready" <=> at = "closing"

StageFacts ==
  /\ at # "idle" => latest \in Problems
  /\ at = "investigating" => Len(bag) < Len(Roster)
  /\ at = "composing" => Len(bag) = Len(Roster)
  /\ at = "persisting" => Kept(bag) # {}

IInv ==
  /\ Shape
  /\ TraceEnd
  /\ StageFacts
  /\ SoftFaultsAreSurvived
  /\ CachedEvidenceComposes

-----------------------------------------------------------------------------
(* The evidence of a specialist *)

\* A probe that was answered returns well-formed evidence, whichever the
\* specialist and however many rows it found.
LEMMA FindingIsEvidence ==
  ASSUME NEW s \in SpecialistNames, NEW rows \in Nat
  PROVE  Finding(s, rows) \in Evidence
PROOF
<1>1. CausalKeys \subseteq Hypotheses
  BY OrchestratorAssumption
<1>2. "db_pool_exhaustion" \in Hypotheses /\ "cve_exposure" \in Hypotheses
  BY <1>1 DEF CausalKeys
<1>. s \in Reporters
  BY OrchestratorAssumption
<1>3. s \in {"triage", "topology", "deploy_correlation", "anomaly_window", "vuln_sec"}
  BY DEF SpecialistNames, FallbackKey
<1>4. 55 + Least(30, 5 * rows) \in 0..100 /\ 50 + Least(40, 5 * rows) \in 0..100
  BY DEF Least
<1>5. CASE s = "triage"
  BY <1>5, <1>2, <1>4 DEF Finding, Triage, Claim, Evidence, Stances
<1>6. CASE s = "topology"
  BY <1>6, <1>2, <1>4 DEF Finding, Topology, Claim, Evidence, Stances
<1>7. CASE s = "deploy_correlation"
  BY <1>7, <1>2 DEF Finding, DeployCorrelation, Claim, Evidence, Stances
<1>8. CASE s = "anomaly_window"
  BY <1>8, <1>2 DEF Finding, AnomalyWindow, Claim, Evidence, Stances
<1>9. CASE s = "vuln_sec"
  BY <1>9, <1>2 DEF Finding, VulnSec, Claim, Evidence, Stances
<1> QED BY <1>3, <1>5, <1>6, <1>7, <1>8, <1>9

\* The placeholder of a specialist of the roster is well-formed evidence.
LEMMA DegradedIsEvidence ==
  ASSUME NEW i \in DOMAIN Roster
  PROVE  Degraded(Roster[i]) \in Evidence
PROOF
<1>1. Roster[i] \in SpecialistNames
  BY OrchestratorAssumption
<1>2. FallbackKey[Roster[i]] \in Hypotheses
  BY OrchestratorAssumption
<1>3. Roster[i] \in Reporters
  BY <1>1, OrchestratorAssumption
<1> QED BY <1>2, <1>3 DEF Degraded, Claim, Evidence, Stances

\* A query finds a number of rows, of the real services and of the demo's.
LEMMA RowsAreNumbers ==
  ASSUME NEW s \in SpecialistNames
  PROVE  RowsFound(s) \subseteq Nat
PROOF
<1>1. RowCounts[s] \subseteq Nat
  BY OrchestratorAssumption
<1>2. s \in {"triage", "topology", "deploy_correlation", "anomaly_window", "vuln_sec"}
  BY DEF SpecialistNames, FallbackKey
<1>3. DemoRows[s] \subseteq Nat
  BY <1>2 DEF DemoRows
<1> QED BY <1>1, <1>3 DEF RowsFound

\* Appending to a sequence: its type, its length and its last element.
LEMMA AppendLast ==
  ASSUME NEW S, NEW s \in Seq(S), NEW e \in S
  PROVE  /\ Append(s, e) \in Seq(S)
         /\ Append(s, e) # <<>>
         /\ Len(Append(s, e)) = Len(s) + 1
         /\ Append(s, e)[Len(Append(s, e))] = e
PROOF OBVIOUS

-----------------------------------------------------------------------------
(* The inductive invariant *)

\* The invariant holds before the first request.
LEMMA InitIInv == OrchestratorInit => IInv
PROOF
  BY OrchestratorAssumption
  DEF OrchestratorInit, IInv, Shape, TraceEnd, StageFacts, SoftFaultsAreSurvived,
      CachedEvidenceComposes, FailedRun, Stages, Outcomes

\* An exception that leaves handle at any stage.
LEMMA AbortKeepsIInv ==
  ASSUME IInv, at # "idle", NEW fault \in HardFaults, Abort(fault), UNCHANGED trace
  PROVE  IInv'
PROOF
<1>1. Shape'
  BY DEF IInv, Shape, StageFacts, Abort, Stages, Outcomes
<1>2. TraceEnd' /\ StageFacts'
  BY DEF Abort, TraceEnd, StageFacts, IInv, Shape
<1>3. SoftFaultsAreSurvived'
  BY DEF Abort, SoftFaultsAreSurvived
<1>4. CachedEvidenceComposes'
  BY DEF Abort, IInv, CachedEvidenceComposes
<1> QED BY <1>1, <1>2, <1>3, <1>4 DEF IInv

\* A stage that goes on to another one, publishes at most one event other than
\* the answer and leaves the cache alone.
LEMMA GoKeepsIInv ==
  ASSUME IInv, NEW from \in Stages \ {"idle", "closing"},
         NEW to \in Stages \ {"idle", "closing"},
         Go(from, to),
         bag' \in Seq(Evidence), Len(bag') <= Len(Roster),
         faults' \subseteq SoftFaults \cup HardFaults,
         UNCHANGED trace \/ \E kind \in Reports : Emit(kind),
         UNCHANGED lastEvidence,
         StageFacts'
  PROVE  IInv'
PROOF
<1>1. trace' \in Seq(Reports \cup {"orchestrator-started", "brief-ready"}) /\ TraceEnd'
  <2>1. CASE UNCHANGED trace
    BY <2>1 DEF IInv, Shape, TraceEnd, Go
  <2>2. CASE \E kind \in Reports : Emit(kind)
    <3>1. PICK kind \in Reports : trace' = Append(trace, kind)
      BY <2>2 DEF Emit
    <3>2. kind # "brief-ready"
      BY DEF Reports
    <3> QED BY <3>1, <3>2, AppendLast DEF IInv, Shape, TraceEnd, Go
  <2> QED BY <2>1, <2>2
<1>2. Shape'
  BY <1>1 DEF IInv, Shape, Go
<1>3. SoftFaultsAreSurvived'
  BY DEF Go, SoftFaultsAreSurvived, FailedRun
<1>4. CachedEvidenceComposes'
  BY DEF IInv, CachedEvidenceComposes
<1> QED BY <1>1, <1>2, <1>3, <1>4 DEF IInv

\* A run begins with an empty bag and no fault.
LEMMA BeginKeepsIInv ==
  ASSUME IInv, NEW p \in Problems, Begin(p)
  PROVE  IInv'
PROOF
<1>1. Shape'
  BY OrchestratorAssumption DEF IInv, Shape, Begin, Stages
<1>2. TraceEnd' /\ StageFacts'
  BY DEF Begin, TraceEnd, StageFacts
<1>3. SoftFaultsAreSurvived' /\ CachedEvidenceComposes'
  BY DEF Begin, IInv, SoftFaultsAreSurvived, FailedRun, CachedEvidenceComposes
<1> QED BY <1>1, <1>2, <1>3 DEF IInv

\* The memory pre-flight and its short-circuit.
LEMMA MatchKeepsIInv ==
  ASSUME IInv,
         \/ MatchNothing \/ MatchUnavailable \/ MatchRaises \/ MatchMedium
         \/ \E k \in Hypotheses : MatchHigh(k)
  PROVE  IInv'
PROOF
<1>1. CASE MatchNothing \/ MatchUnavailable \/ MatchMedium
  <2>1. Go("matching", "dispatching") /\ bag' = bag /\ lastEvidence' = lastEvidence
    BY <1>1 DEF MatchNothing, MatchUnavailable, MatchMedium
  <2>2. faults' \subseteq SoftFaults \cup HardFaults
    BY <1>1 DEF MatchNothing, MatchUnavailable, MatchMedium, IInv, Shape, SoftFaults
  <2>3. UNCHANGED trace \/ \E kind \in Reports : Emit(kind)
    BY <1>1 DEF MatchNothing, MatchUnavailable, MatchMedium, Reports
  <2>4. StageFacts'
    BY <2>1 DEF Go, IInv, StageFacts
  <2> QED BY <2>1, <2>2, <2>3, <2>4, GoKeepsIInv DEF IInv, Shape, Stages
<1>2. CASE MatchRaises
  BY <1>2, AbortKeepsIInv DEF MatchRaises, HardFaults
<1>3. CASE \E k \in Hypotheses : MatchHigh(k)
  <2>1. /\ Go("matching", "sending") /\ bag' = bag /\ lastEvidence' = lastEvidence
        /\ faults' = faults
    BY <1>3 DEF MatchHigh
  <2>2. \E kind \in Reports : Emit(kind)
    BY <1>3 DEF MatchHigh, Reports
  <2>3. StageFacts'
    BY <2>1 DEF Go, IInv, StageFacts
  <2> QED BY <2>1, <2>2, <2>3, GoKeepsIInv DEF IInv, Shape, Stages
<1> QED BY <1>1, <1>2, <1>3

\* The specialists, one after the other.
LEMMA SpecialistsKeepIInv ==
  ASSUME IInv,
         Dispatch \/ SpecialistFinds \/ SpecialistDegrades \/ SpecialistRaises
  PROVE  IInv'
PROOF
<1>1. CASE Dispatch
  <2>1. /\ Go("dispatching", "investigating") /\ bag' = bag
        /\ lastEvidence' = lastEvidence /\ faults' = faults
    BY <1>1 DEF Dispatch
  <2>2. \E kind \in Reports : Emit(kind)
    BY <1>1 DEF Dispatch, Reports
  <2>3. StageFacts'
    BY <2>1, <1>1 DEF Dispatch, Go, IInv, StageFacts
  <2> QED BY <2>1, <2>2, <2>3, GoKeepsIInv DEF IInv, Shape, Stages
<1>2. ASSUME NEW evidence \in Evidence, Complete(evidence),
             faults' \subseteq SoftFaults \cup HardFaults
      PROVE  IInv'
  <2>1. /\ Go("investigating", "dispatching") /\ bag' = Append(bag, evidence)
        /\ lastEvidence' = lastEvidence
    BY <1>2 DEF Complete
  <2>2. \E kind \in Reports : Emit(kind)
    BY <1>2 DEF Complete, Reports
  <2>3. Len(bag) < Len(Roster)
    BY <2>1 DEF Go, IInv, StageFacts
  <2>4. bag' \in Seq(Evidence) /\ Len(bag') = Len(bag) + 1
    BY <2>1, AppendLast DEF IInv, Shape
  <2>5. Len(bag') <= Len(Roster)
    BY <2>3, <2>4, OrchestratorAssumption DEF IInv, Shape
  <2>6. StageFacts'
    BY <2>1 DEF Go, IInv, StageFacts
  <2> QED BY <2>1, <2>2, <2>4, <2>5, <2>6, <1>2, GoKeepsIInv DEF Stages
<1>3. at = "investigating" => Len(bag) + 1 \in DOMAIN Roster
  BY OrchestratorAssumption DEF IInv, Shape, StageFacts
<1>4. CASE SpecialistFinds
  <2>1. Summoned \in SpecialistNames
    BY <1>4, <1>3, OrchestratorAssumption DEF SpecialistFinds, Summoned
  <2>2. RowsFound(Summoned) \subseteq Nat
    BY <2>1, RowsAreNumbers
  <2>3. PICK rows \in RowsFound(Summoned) : Complete(Finding(Summoned, rows))
    BY <1>4 DEF SpecialistFinds
  <2>4. Finding(Summoned, rows) \in Evidence
    BY <2>1, <2>2, FindingIsEvidence
  <2> QED BY <1>4, <2>3, <2>4, <1>2 DEF SpecialistFinds, IInv, Shape
<1>5. CASE SpecialistDegrades
  <2>1. Degraded(Summoned) \in Evidence
    BY <1>5, <1>3, DegradedIsEvidence DEF SpecialistDegrades, Summoned
  <2> QED BY <1>5, <2>1, <1>2 DEF SpecialistDegrades, IInv, Shape, SoftFaults
<1>6. CASE SpecialistRaises
  BY <1>6, AbortKeepsIInv DEF SpecialistRaises, HardFaults
<1> QED BY <1>1, <1>4, <1>5, <1>6

\* The synthesizer: only what composes is persisted.
LEMMA SynthesisKeepsIInv ==
  ASSUME IInv, StartSynthesis \/ Compose \/ ComposeNothing
         \/ (\E text \in Texts : ComposeModelFails(text)) \/ ComposeOnLoopFails
  PROVE  IInv'
PROOF
<1>1. CASE StartSynthesis
  <2>1. /\ Go("dispatching", "composing") /\ bag' = bag
        /\ lastEvidence' = lastEvidence /\ faults' = faults
    BY <1>1 DEF StartSynthesis
  <2>2. \E kind \in Reports : Emit(kind)
    BY <1>1 DEF StartSynthesis, Reports
  <2>3. StageFacts'
    BY <2>1, <1>1 DEF StartSynthesis, Go, IInv, StageFacts
  <2> QED BY <2>1, <2>2, <2>3, GoKeepsIInv DEF IInv, Shape, Stages
<1>2. CASE Compose
  <2>1. /\ Go("composing", "persisting") /\ bag' = bag /\ Kept(bag) # {}
        /\ lastEvidence' = lastEvidence /\ faults' = faults /\ trace' = trace
    BY <1>2 DEF Compose
  <2>2. StageFacts'
    BY <2>1 DEF Go, IInv, StageFacts
  <2> QED BY <2>1, <2>2, GoKeepsIInv DEF IInv, Shape, Stages
<1>3. CASE ComposeNothing
  <2>1. Shape'
    BY <1>3 DEF ComposeNothing, IInv, Shape, StageFacts, Stages, Outcomes
  <2>2. TraceEnd' /\ StageFacts' /\ CachedEvidenceComposes'
    BY <1>3 DEF ComposeNothing, TraceEnd, StageFacts, CachedEvidenceComposes, IInv, Shape
  <2>3. SoftFaultsAreSurvived'
    BY <1>3 DEF ComposeNothing, IInv, StageFacts, SoftFaultsAreSurvived
  <2> QED BY <2>1, <2>2, <2>3 DEF IInv
<1>4. CASE (\E text \in Texts : ComposeModelFails(text)) \/ ComposeOnLoopFails
  BY <1>4, AbortKeepsIInv DEF ComposeModelFails, ComposeOnLoopFails, HardFaults
<1> QED BY <1>1, <1>2, <1>3, <1>4

\* Persisting caches the evidence that was just composed.
LEMMA PersistKeepsIInv ==
  ASSUME IInv, Persist \/ PersistUnavailable \/ PersistRaises
  PROVE  IInv'
PROOF
<1>1. CASE Persist \/ PersistUnavailable
  <2>1. /\ Go("persisting", "sending") /\ bag' = bag /\ trace' = trace
        /\ lastEvidence' = [lastEvidence EXCEPT ![latest] = bag]
    BY <1>1 DEF Persist, PersistUnavailable
  <2>2. faults' \subseteq SoftFaults \cup HardFaults
    BY <1>1 DEF Persist, PersistUnavailable, IInv, Shape, SoftFaults
  <2>3. Shape'
    BY <2>1, <2>2 DEF Go, IInv, Shape, StageFacts, Stages
  <2>4. TraceEnd' /\ StageFacts' /\ SoftFaultsAreSurvived'
    BY <2>1 DEF Go, IInv, TraceEnd, StageFacts, SoftFaultsAreSurvived, FailedRun
  <2>5. CachedEvidenceComposes'
    BY <2>1 DEF Go, IInv, Shape, StageFacts, CachedEvidenceComposes
  <2> QED BY <2>3, <2>4, <2>5 DEF IInv
<1>2. CASE PersistRaises
  BY <1>2, AbortKeepsIInv DEF PersistRaises, HardFaults
<1> QED BY <1>1, <1>2

\* Write-back, the answer, and the return.
LEMMA DeliveryKeepsIInv ==
  ASSUME IInv, WriteBack \/ WriteBackDropped \/ WriteBackRaises \/ Announce \/ Return
  PROVE  IInv'
PROOF
<1>1. CASE WriteBack \/ WriteBackDropped
  <2>1. /\ Go("sending", "answering") /\ bag' = bag /\ trace' = trace
        /\ lastEvidence' = lastEvidence
    BY <1>1 DEF WriteBack, WriteBackDropped
  <2>2. faults' \subseteq SoftFaults \cup HardFaults
    BY <1>1 DEF WriteBack, WriteBackDropped, IInv, Shape, SoftFaults
  <2>3. StageFacts'
    BY <2>1 DEF Go, IInv, StageFacts
  <2> QED BY <2>1, <2>2, <2>3, GoKeepsIInv DEF IInv, Shape, Stages
<1>2. CASE WriteBackRaises
  BY <1>2, AbortKeepsIInv DEF WriteBackRaises, HardFaults
<1>3. CASE Announce
  <2>1. trace' = Append(trace, "brief-ready") /\ at' = "closing" /\ at = "answering"
    BY <1>3 DEF Announce, Emit, Go
  <2>2. Shape' /\ TraceEnd'
    BY <1>3, <2>1, AppendLast DEF Announce, Go, IInv, Shape, TraceEnd, Stages
  <2>3. StageFacts' /\ SoftFaultsAreSurvived' /\ CachedEvidenceComposes'
    BY <1>3 DEF Announce, Go, IInv, StageFacts, SoftFaultsAreSurvived, FailedRun,
                CachedEvidenceComposes
  <2> QED BY <2>2, <2>3 DEF IInv
<1>4. CASE Return
  <2>1. Shape'
    BY <1>4 DEF Return, IInv, Shape, StageFacts, Stages, Outcomes
  <2>2. TraceEnd' /\ StageFacts' /\ CachedEvidenceComposes'
    BY <1>4 DEF Return, TraceEnd, StageFacts, CachedEvidenceComposes, IInv, Shape
  <2>3. SoftFaultsAreSurvived'
    BY <1>4 DEF Return, IInv, Shape, StageFacts, SoftFaultsAreSurvived, FailedRun
  <2> QED BY <2>1, <2>2, <2>3 DEF IInv
<1> QED BY <1>1, <1>2, <1>3, <1>4

\* Rejections, verdicts and stuttering leave everything the invariant speaks
\* of alone.
LEMMA OutsideKeepsIInv ==
  ASSUME IInv, UNCHANGED <<run, lastEvidence, outcome>>
  PROVE  IInv'
PROOF
  BY DEF IInv, Shape, TraceEnd, StageFacts, SoftFaultsAreSurvived, FailedRun,
         CachedEvidenceComposes, run

\* Every step keeps the invariant.
LEMMA NextKeepsIInv == IInv /\ [OrchestratorNext]_orchestratorVars => IInv'
PROOF
<1> SUFFICES ASSUME IInv, [OrchestratorNext]_orchestratorVars
             PROVE  IInv'
  OBVIOUS
<1>1. CASE \E p \in Problems : Begin(p)
  BY <1>1, BeginKeepsIInv
<1>2. CASE HandleStep
  BY <1>2, MatchKeepsIInv, SpecialistsKeepIInv, SynthesisKeepsIInv, PersistKeepsIInv,
     DeliveryKeepsIInv DEF HandleStep
<1>3. CASE \E p \in Problems, k \in Rejectable :
             Replan(p, k) \/ ReplanFails(p, k) \/ ReplanFromNothing(p, k)
  BY <1>3, OutsideKeepsIInv DEF Replan, ReplanFails, ReplanFromNothing, Reply
<1>4. CASE \E k \in Hypotheses : Confirm(k)
  BY <1>4, OutsideKeepsIInv DEF Confirm, results
<1>5. CASE UNCHANGED orchestratorVars
  BY <1>5, OutsideKeepsIInv DEF orchestratorVars, results
<1> QED BY <1>1, <1>2, <1>3, <1>4, <1>5 DEF OrchestratorNext

\* IInv holds throughout, for every roster, number of problems and of runs.
THEOREM RunInvariantHolds == OrchestratorSpec => []IInv
PROOF
<1>1. OrchestratorInit => IInv
  BY InitIInv
<1>2. IInv /\ [OrchestratorNext]_orchestratorVars => IInv'
  BY NextKeepsIInv
<1> QED BY <1>1, <1>2, PTL DEF OrchestratorSpec

\* A run fails for an exception the code does not catch, or because no claim of
\* a complete bag clears the floor: unavailable memory, degraded specialists
\* and refused write-backs are survived in any number and combination.
THEOREM RunsSurviveSoftFaults == OrchestratorSpec => []SoftFaultsAreSurvived
PROOF
<1>1. IInv => SoftFaultsAreSurvived
  BY DEF IInv
<1> QED BY <1>1, RunInvariantHolds, PTL

\* The evidence cached for replans always composes, whatever runs came after
\* the one that cached it.
THEOREM ReplansStartFromComposableEvidence ==
  OrchestratorSpec => []CachedEvidenceComposes
PROOF
<1>1. IInv => CachedEvidenceComposes
  BY DEF IInv
<1> QED BY <1>1, RunInvariantHolds, PTL

-----------------------------------------------------------------------------
(* Orchestrator implements RunProtocol *)

\* The initial states are initial states of the protocol.
LEMMA InitImplements == OrchestratorInit => Protocol!Init
PROOF
  BY DEF OrchestratorInit, Protocol!Init, Running

\* While a run is under way the protocol sees its problem, and sees the answer
\* announced exactly when handle is about to close the streams.
LEMMA RunningRun ==
  ASSUME IInv, at # "idle"
  PROVE  /\ Running \in Problems
         /\ Running # NoProblem
         /\ Protocol!Answered <=> at = "closing"
PROOF
  BY OrchestratorAssumption DEF IInv, StageFacts, TraceEnd, Running, Protocol!Answered

\* An exception that leaves handle fails the run of the protocol.
LEMMA AbortImplements ==
  ASSUME IInv, at # "idle", at # "closing", NEW fault, Abort(fault), UNCHANGED trace
  PROVE  Protocol!Fail
PROOF
  BY RunningRun DEF Abort, Protocol!Fail, Running

\* A step between stages is a report, or nothing the protocol sees.
LEMMA GoImplements ==
  ASSUME IInv, NEW from \in Stages \ {"idle", "closing"}, NEW to \in Stages \ {"idle"},
         Go(from, to),
         UNCHANGED trace \/ \E kind \in Reports : Emit(kind)
  PROVE  \/ \E kind \in Reports : Protocol!Report(kind)
         \/ UNCHANGED <<Running, trace, closed>>
PROOF
<1>1. at # "idle" /\ at # "closing" /\ Running' = Running /\ closed' = closed
  BY DEF Go, Running
<1>2. CASE UNCHANGED trace
  BY <1>1, <1>2
<1>3. CASE \E kind \in Reports : Emit(kind)
  BY <1>1, <1>3, RunningRun DEF Emit, Protocol!Report
<1> QED BY <1>2, <1>3

\* Every step is a step of the protocol or a stutter.
LEMMA StepImplements ==
  IInv /\ [OrchestratorNext]_orchestratorVars
    => [Protocol!Next]_<<Running, trace, closed>>
PROOF
<1> SUFFICES ASSUME IInv, [OrchestratorNext]_orchestratorVars
             PROVE  Protocol!Next \/ UNCHANGED <<Running, trace, closed>>
  OBVIOUS
<1>1. CASE \E p \in Problems : Begin(p)
  <2>1. PICK p \in Problems : Begin(p)
    BY <1>1
  <2>2. Protocol!Open(p)
    BY <2>1 DEF Begin, Protocol!Open, Running
  <2> QED BY <2>2 DEF Protocol!Next
<1>2. CASE HandleStep
  <2>1. CASE \/ MatchRaises \/ SpecialistRaises \/ PersistRaises \/ WriteBackRaises
             \/ (\E text \in Texts : ComposeModelFails(text)) \/ ComposeOnLoopFails
    <3>1. Protocol!Fail
      BY <2>1, AbortImplements
      DEF MatchRaises, SpecialistRaises, ComposeModelFails, ComposeOnLoopFails,
          PersistRaises, WriteBackRaises
    <3> QED BY <3>1 DEF Protocol!Next
  <2>2. CASE ComposeNothing
    <3>1. Protocol!Fail
      BY <2>2, RunningRun DEF ComposeNothing, Protocol!Fail, Running
    <3> QED BY <3>1 DEF Protocol!Next
  <2>3. CASE Announce
    <3>1. Protocol!Answer
      BY <2>3, RunningRun DEF Announce, Go, Emit, Protocol!Answer, Running
    <3> QED BY <3>1 DEF Protocol!Next
  <2>4. CASE Return
    <3>1. Protocol!Close
      BY <2>4, RunningRun DEF Return, Protocol!Close, Running
    <3> QED BY <3>1 DEF Protocol!Next
  <2>5. CASE \/ MatchNothing \/ MatchUnavailable \/ Compose
             \/ Persist \/ PersistUnavailable \/ WriteBack \/ WriteBackDropped
    <3>1. \E from \in Stages \ {"idle", "closing"}, to \in Stages \ {"idle"} :
            Go(from, to) /\ UNCHANGED trace
      BY <2>5 DEF MatchNothing, MatchUnavailable, Compose, Persist, PersistUnavailable,
                  WriteBack, WriteBackDropped, Stages
    <3> QED BY <3>1, GoImplements DEF Protocol!Next
  <2>6. CASE \/ MatchMedium \/ \E k \in Hypotheses : MatchHigh(k)
             \/ Dispatch \/ StartSynthesis \/ SpecialistDegrades \/ SpecialistFinds
    <3>1. \E from \in Stages \ {"idle", "closing"}, to \in Stages \ {"idle"} :
            Go(from, to) /\ \E kind \in Reports : Emit(kind)
      BY <2>6 DEF MatchMedium, MatchHigh, Dispatch, StartSynthesis, SpecialistDegrades,
                  SpecialistFinds, Complete, Stages, Reports
    <3> QED BY <3>1, GoImplements DEF Protocol!Next
  <2> QED BY <1>2, <2>1, <2>2, <2>3, <2>4, <2>5, <2>6 DEF HandleStep
<1>3. CASE \E p \in Problems, k \in Rejectable :
             Replan(p, k) \/ ReplanFails(p, k) \/ ReplanFromNothing(p, k)
  BY <1>3 DEF Replan, ReplanFails, ReplanFromNothing, Reply, run, Running
<1>4. CASE \E k \in Hypotheses : Confirm(k)
  BY <1>4 DEF Confirm, run, Running
<1>5. CASE UNCHANGED orchestratorVars
  BY <1>5 DEF orchestratorVars, run, Running
<1> QED BY <1>1, <1>2, <1>3, <1>4, <1>5 DEF OrchestratorNext

\* Whoever watches the trace sees the protocol: one run at a time, an answered
\* run announces its answer last and then closes the streams, a failed run
\* announces none.
THEOREM OrchestratorImplementsRunProtocol ==
  OrchestratorSpec => ImplementsRunProtocol
PROOF
<1>1. OrchestratorInit => Protocol!Init
  BY InitImplements
<1>2. IInv /\ [OrchestratorNext]_orchestratorVars
        => [Protocol!Next]_<<Running, trace, closed>>
  BY StepImplements
<1> QED BY <1>1, <1>2, RunInvariantHolds, PTL
    DEF OrchestratorSpec, ImplementsRunProtocol, Protocol!Spec

-----------------------------------------------------------------------------
(* What replans make of evidence *)

\* Whatever the roster, what it reports is a finding or, of real services, a
\* placeholder.
Claims(b) ==
  \A i \in DOMAIN b :
    /\ i \in DOMAIN Roster
    /\ \/ \E rows \in RowsFound(Roster[i]) : b[i] = Finding(Roster[i], rows)
       \/ Real /\ b[i] = Degraded(Roster[i])

\* Leaving out the evidence about one key leaves the other hypotheses as they
\* were.
LEMMA WithoutLeavesTheRest ==
  ASSUME NEW b \in Seq(Evidence), NEW k
  PROVE  /\ Without(b, k) \in Seq(Evidence)
         /\ Kept(Without(b, k)) = Kept(b) \ {k}
PROOF
<1> DEFINE places == {i \in DOMAIN b : b[i].key # k}
           w      == Subsequence(b, places)
<1>1. places \in SUBSET (1..Len(b)) /\ DOMAIN b = 1..Len(b)
  OBVIOUS
<1>2. \A i \in DOMAIN b : i \in places <=> b[i].key # k
  OBVIOUS
<1>3. Without(b, k) = w
  BY DEF Without
<1> HIDE DEF places
<1>4. w \in Seq(Evidence) /\ \E g : Picks(w, g, b, places)
  BY <1>1, SubsequencePicks
<1> HIDE DEF w
<1>5. PICK g : Picks(w, g, b, places)
  BY <1>4
<1>6. DOMAIN w = 1..Len(w)
  BY <1>4
<1>7. \A j \in Hypotheses : Clears(w, j) => j # k /\ Clears(b, j)
  <2> SUFFICES ASSUME NEW j \in Hypotheses, Clears(w, j) PROVE j # k /\ Clears(b, j)
    OBVIOUS
  <2>1. PICK i \in DOMAIN w : /\ w[i].key = j
                              /\ w[i].stance # "refutes"
                              /\ w[i].confidence >= MinSupportingConfidence
    BY DEF Clears
  <2>2. g[i] \in places /\ w[i] = b[g[i]]
    BY <1>5, <1>6, <2>1 DEF Picks
  <2>3. g[i] \in DOMAIN b /\ b[g[i]].key # k
    BY <1>1, <1>2, <2>2
  <2> QED BY <2>1, <2>2, <2>3 DEF Clears
<1>8. \A j \in Hypotheses : j # k /\ Clears(b, j) => Clears(w, j)
  <2> SUFFICES ASSUME NEW j \in Hypotheses, j # k, Clears(b, j) PROVE Clears(w, j)
    OBVIOUS
  <2>1. PICK p \in DOMAIN b : /\ b[p].key = j
                              /\ b[p].stance # "refutes"
                              /\ b[p].confidence >= MinSupportingConfidence
    BY DEF Clears
  <2>2. p \in places
    BY <1>2, <2>1
  <2>3. PICK i \in 1..Len(w) : g[i] = p
    BY <1>5, <2>2 DEF Picks
  <2>4. i \in DOMAIN w /\ w[i] = b[p]
    BY <1>5, <1>6, <2>3 DEF Picks
  <2> QED BY <2>1, <2>4 DEF Clears
<1> QED BY <1>3, <1>4, <1>7, <1>8 DEF Kept

\* A ranking is a list of ranked hypotheses.
LEMMA RankedIsHypotheses ==
  ASSUME NEW b \in Seq(Evidence)
  PROVE  Ranked(b) \in Seq(Hypothesis) /\ KeysOf(Ranked(b)) \subseteq Kept(b)
PROOF
<1> DEFINE m == Min({Cardinality(Kept(b)), MaxHypotheses})
<1>1. /\ Len(Ranked(b)) \in Nat /\ DOMAIN Ranked(b) = 1..Len(Ranked(b))
      /\ \A r \in 1..Len(Ranked(b)) : Ranked(b)[r].key \in Kept(b)
  BY RankedIsCapped
<1>2. DOMAIN Ranked(b) = 1..m
  BY DEF Ranked
<1>3. Ranked(b) = [r \in 1..m |->
         [key |-> CHOOSE k \in Kept(b) : Rank(b, k) = r, rank |-> r]]
  BY DEF Ranked
<1> HIDE DEF m
<1>4. \A r \in 1..m : Ranked(b)[r] = [key |-> Ranked(b)[r].key, rank |-> r]
  BY <1>3
<1>5. Kept(b) \subseteq Hypotheses
  BY DEF Kept
<1>6. \A r \in 1..m : Ranked(b)[r] \in Hypothesis
  <2> SUFFICES ASSUME NEW r \in 1..m PROVE Ranked(b)[r] \in Hypothesis
    OBVIOUS
  <2>1. r \in 1..Len(Ranked(b))
    BY <1>1, <1>2
  <2>2. Ranked(b)[r].key \in Hypotheses
    BY <1>1, <1>5, <2>1
  <2>3. r \in Nat \ {0}
    BY <1>1, <2>1
  <2>4. [key |-> Ranked(b)[r].key, rank |-> r] \in Hypothesis
    BY <2>2, <2>3 DEF Hypothesis
  <2> QED BY <1>4, <2>4, Zenon
<1>7. Ranked(b) = [r \in 1..m |-> Ranked(b)[r]]
  BY <1>3
<1>8. Ranked(b) \in Seq(Hypothesis)
  <2>1. 1..m = 1..Len(Ranked(b))
    BY <1>1, <1>2
  <2>2. Ranked(b) \in [1..m -> Hypothesis]
    BY <1>6, <1>7, Zenon
  <2>3. Ranked(b) \in [1..Len(Ranked(b)) -> Hypothesis]
    BY <2>1, <2>2, Zenon
  <2> QED BY <1>1, <2>3
<1> QED BY <1>8, RankedIsSorted

\* What _strip_hypothesis returns: the other hypotheses, numbered from one.
LEMMA StripNumbersTheRest ==
  ASSUME NEW list \in Seq(Hypothesis), NEW k
  PROVE  /\ Strip(list, k) \in Seq(Hypothesis)
         /\ KeysOf(Strip(list, k)) = KeysOf(list) \ {k}
         /\ \A i \in DOMAIN Strip(list, k) : Strip(list, k)[i].rank = i
PROOF
<1> DEFINE places == {i \in DOMAIN list : list[i].key # k}
           rest   == Subsequence(list, places)
<1>1. places \in SUBSET (1..Len(list)) /\ DOMAIN list = 1..Len(list)
  OBVIOUS
<1>2. \A i \in DOMAIN list : i \in places <=> list[i].key # k
  OBVIOUS
<1>3. Strip(list, k) = [r \in DOMAIN rest |-> [key |-> rest[r].key, rank |-> r]]
  BY DEF Strip
<1> HIDE DEF places
<1>4. rest \in Seq(Hypothesis) /\ \E g : Picks(rest, g, list, places)
  BY <1>1, SubsequencePicks
<1> HIDE DEF rest
<1>5. PICK g : Picks(rest, g, list, places)
  BY <1>4
<1>6. Len(rest) \in Nat /\ DOMAIN rest = 1..Len(rest)
  BY <1>4
<1>7. Strip(list, k) \in Seq(Hypothesis)
  <2>1. \A r \in 1..Len(rest) : rest[r] \in Hypothesis
    BY <1>4
  <2>2. \A r \in 1..Len(rest) : rest[r].key \in Hypotheses /\ r \in Nat \ {0}
    BY <2>1 DEF Hypothesis
  <2>3. \A r \in 1..Len(rest) : [key |-> rest[r].key, rank |-> r] \in Hypothesis
    BY <2>2 DEF Hypothesis
  <2> QED BY <1>3, <1>6, <2>3
<1>8. KeysOf(Strip(list, k)) = {rest[r].key : r \in 1..Len(rest)}
  BY <1>3, <1>6 DEF KeysOf
<1>9. KeysOf(list) = {list[i].key : i \in 1..Len(list)}
  BY <1>1 DEF KeysOf
<1>10. ASSUME NEW r \in 1..Len(rest) PROVE rest[r].key \in KeysOf(list) \ {k}
  <2>1. g[r] \in places /\ rest[r] = list[g[r]]
    BY <1>5 DEF Picks
  <2> QED BY <1>1, <1>2, <1>9, <2>1
<1>11. ASSUME NEW i \in 1..Len(list), list[i].key # k
       PROVE  \E r \in 1..Len(rest) : rest[r].key = list[i].key
  <2>1. i \in places
    BY <1>1, <1>2, <1>11
  <2>2. PICK r \in 1..Len(rest) : g[r] = i
    BY <1>5, <2>1 DEF Picks
  <2>3. rest[r] = list[i]
    BY <1>5, <2>2 DEF Picks
  <2> QED BY <2>3
<1>12. KeysOf(Strip(list, k)) = KeysOf(list) \ {k}
  <2>1. ASSUME NEW x \in KeysOf(Strip(list, k)) PROVE x \in KeysOf(list) \ {k}
    BY <1>8, <1>10, <2>1
  <2>2. ASSUME NEW x \in KeysOf(list) \ {k} PROVE x \in KeysOf(Strip(list, k))
    BY <1>8, <1>9, <1>11, <2>2
  <2> QED BY <2>1, <2>2
<1>13. \A i \in DOMAIN Strip(list, k) : Strip(list, k)[i].rank = i
  BY <1>3
<1> QED BY <1>7, <1>12, <1>13

-----------------------------------------------------------------------------
(* What a bag of this roster claims *)

\* An answered probe makes a causal claim; triage and topology never refute,
\* and are confident enough for the floor; one newly active CVE is claimed.
LEMMA FindingsAreCausal ==
  ASSUME NEW rows \in Nat
  PROVE  /\ \A s \in SpecialistNames : Finding(s, rows).key \in CausalKeys
         /\ \A s \in {"triage", "topology"} :
              /\ Finding(s, rows).key = "db_pool_exhaustion"
              /\ Finding(s, rows).stance # "refutes"
              /\ Finding(s, rows).confidence >= MinSupportingConfidence
         /\ rows = 1 =>
              /\ Finding("vuln_sec", rows).key = "cve_exposure"
              /\ Finding("vuln_sec", rows).stance # "refutes"
              /\ Finding("vuln_sec", rows).confidence >= MinSupportingConfidence
PROOF
<1>1. Finding("triage", rows)
        = Claim("triage", "supports", "db_pool_exhaustion", 55 + Least(30, 5 * rows))
  BY DEF Finding, Triage
<1>2. Finding("topology", rows)
        = Claim("topology", IF rows = 0 THEN "informational" ELSE "supports",
                "db_pool_exhaustion", 50 + Least(40, 5 * rows))
  BY DEF Finding, Topology
<1>3. Finding("deploy_correlation", rows).key = "db_pool_exhaustion"
  BY DEF Finding, DeployCorrelation, Claim
<1>4. Finding("anomaly_window", rows).key = "db_pool_exhaustion"
  BY DEF Finding, AnomalyWindow, Claim
<1>5. /\ Finding("vuln_sec", rows).key = "cve_exposure"
      /\ rows = 1 => /\ Finding("vuln_sec", rows).stance = "supports"
                     /\ Finding("vuln_sec", rows).confidence = 65
  BY DEF Finding, VulnSec, Claim
<1>6. 55 + Least(30, 5 * rows) >= 50 /\ 50 + Least(40, 5 * rows) >= 50
  BY DEF Least
<1>7. MinSupportingConfidence \in 11..50
  BY ConfigAssumption
<1>8. /\ 55 + Least(30, 5 * rows) \in Int /\ 50 + Least(40, 5 * rows) \in Int
  BY DEF Least
<1>9. \A s \in {"triage", "topology"} :
        /\ Finding(s, rows).key = "db_pool_exhaustion"
        /\ Finding(s, rows).stance # "refutes"
        /\ Finding(s, rows).confidence >= MinSupportingConfidence
  BY <1>1, <1>2, <1>6, <1>7, <1>8 DEF Claim
<1>10. SpecialistNames = {"triage", "topology", "deploy_correlation", "anomaly_window",
                          "vuln_sec"}
  BY DEF SpecialistNames, FallbackKey
<1>11. \A s \in SpecialistNames : Finding(s, rows).key \in CausalKeys
  BY <1>3, <1>4, <1>5, <1>9, <1>10 DEF CausalKeys
<1> QED BY <1>5, <1>7, <1>9, <1>11

\* Only causes clear the floor: a placeholder is not confident enough.
LEMMA KeptAreCauses ==
  ASSUME NEW b \in Seq(Evidence), Claims(b)
  PROVE  Kept(b) \subseteq CausalKeys
PROOF
<1> SUFFICES ASSUME NEW k \in Hypotheses, Clears(b, k) PROVE k \in CausalKeys
  BY DEF Kept
<1>1. PICK i \in DOMAIN b : b[i].key = k /\ b[i].confidence >= MinSupportingConfidence
  BY DEF Clears
<1>2. i \in DOMAIN Roster /\ Roster[i] \in SpecialistNames
  BY <1>1, OrchestratorAssumption DEF Claims
<1>3. CASE b[i] = Degraded(Roster[i])
  <2>1. b[i].confidence = 10
    BY <1>3 DEF Degraded, Claim
  <2>2. MinSupportingConfidence \in 11..50
    BY ConfigAssumption
  <2> QED BY <1>1, <2>1, <2>2
<1>4. CASE \E rows \in RowsFound(Roster[i]) : b[i] = Finding(Roster[i], rows)
  <2>1. PICK rows \in RowsFound(Roster[i]) : b[i] = Finding(Roster[i], rows)
    BY <1>4
  <2>2. rows \in Nat
    BY <1>2, <2>1, RowsAreNumbers
  <2> QED BY <1>1, <1>2, <2>1, <2>2, FindingsAreCausal
<1> QED BY <1>1, <1>3, <1>4 DEF Claims

\* With room in the list for every cause, a replan is what remains.
LEMMA ReplanningIsTheRest ==
  ASSUME NEW b \in Seq(Evidence), Claims(b), NEW k
  PROVE  /\ Replanning(b, k) \in Seq(Hypothesis)
         /\ KeysOf(Replanning(b, k)) = Kept(b) \ {k}
         /\ \A i \in DOMAIN Replanning(b, k) : Replanning(b, k)[i].rank = i
PROOF
<1> DEFINE w == Without(b, k)
<1>1. w \in Seq(Evidence) /\ Kept(w) = Kept(b) \ {k}
  BY WithoutLeavesTheRest
<1>2. Kept(b) \subseteq CausalKeys
  BY KeptAreCauses
<1> HIDE DEF w
<1>3. Cardinality(Kept(w)) <= MaxHypotheses
  <2>1. IsFiniteSet(CausalKeys)
    <3>1. CausalKeys = {"db_pool_exhaustion"} \cup {"cve_exposure"}
      BY DEF CausalKeys
    <3>2. IsFiniteSet({"db_pool_exhaustion"})
      BY FS_Singleton
    <3> QED BY <3>1, <3>2, FS_AddElement
  <2>2. /\ Cardinality(Kept(w)) \in Nat /\ Cardinality(CausalKeys) \in Nat
        /\ Cardinality(Kept(w)) <= Cardinality(CausalKeys)
    BY <1>1, <1>2, <2>1, FS_Subset, FS_CardinalityType
  <2>3. MaxHypotheses \in Nat
    BY SynthesizerAssumption
  <2> QED BY <2>2, <2>3, ConfigAssumption
<1>4. KeysOf(Ranked(w)) = Kept(b) \ {k} /\ Ranked(w) \in Seq(Hypothesis)
  BY <1>1, <1>3, RankedIsComplete, RankedIsHypotheses
<1>5. Replanning(b, k) = Strip(Ranked(w), k)
  BY DEF Replanning, w
<1> QED BY <1>4, <1>5, StripNumbersTheRest

\* A complete bag in which nothing clears the floor has the placeholders of
\* triage and of topology.
LEMMA SilenceTakesTwoPlaceholders ==
  ASSUME NEW b \in Seq(Evidence), Claims(b), Len(b) = Len(Roster), Kept(b) = {}
  PROVE  Cardinality({i \in DOMAIN b : b[i].key \in FallbackKeys}) > 1
PROOF
<1>1. DOMAIN b = DOMAIN Roster /\ DOMAIN b = 1..Len(b) /\ Len(b) \in Nat
  BY OrchestratorAssumption
<1>2. "db_pool_exhaustion" \in Hypotheses
  BY OrchestratorAssumption DEF CausalKeys
<1>3. ASSUME NEW i \in DOMAIN b, Roster[i] \in {"triage", "topology"}
      PROVE  b[i].key \in FallbackKeys
  <2>1. Roster[i] \in SpecialistNames
    BY <1>3 DEF SpecialistNames, FallbackKey
  <2>2. ASSUME NEW rows \in RowsFound(Roster[i]), b[i] = Finding(Roster[i], rows)
        PROVE  FALSE
    <3>1. rows \in Nat
      BY <2>1, RowsAreNumbers
    <3>2. /\ b[i].key = "db_pool_exhaustion" /\ b[i].stance # "refutes"
          /\ b[i].confidence >= MinSupportingConfidence
      BY <1>3, <2>2, <3>1, FindingsAreCausal
    <3>3. "db_pool_exhaustion" \in Kept(b)
      BY <1>2, <3>2 DEF Kept, Clears
    <3> QED BY <3>3
  <2>3. b[i] = Degraded(Roster[i])
    BY <2>2 DEF Claims
  <2>4. b[i].key = FallbackKey[Roster[i]]
    BY <2>3 DEF Degraded, Claim
  <2> QED BY <2>1, <2>4 DEF FallbackKeys
<1>4. PICK i \in DOMAIN b : Roster[i] = "triage"
  BY <1>1, RosterAssumption
<1>5. PICK j \in DOMAIN b : Roster[j] = "topology"
  BY <1>1, RosterAssumption
<1> DEFINE dumb == {x \in DOMAIN b : b[x].key \in FallbackKeys}
<1>6. i \in dumb /\ j \in dumb /\ i # j
  BY <1>3, <1>4, <1>5
<1>7. IsFiniteSet(dumb)
  <2>1. dumb \in SUBSET (1..Len(b))
    BY <1>1
  <2>2. IsFiniteSet(1..Len(b))
    BY <1>1, FS_Interval
  <2> HIDE DEF dumb
  <2> QED BY <2>1, <2>2, FS_Subset
<1> HIDE DEF dumb
<1>8. Cardinality({i, j}) = 2 /\ {i, j} \in SUBSET dumb
  <2>1. IsFiniteSet({i}) /\ Cardinality({i}) = 1 /\ j \notin {i}
    BY <1>6, FS_Singleton
  <2>2. {i, j} = {i} \cup {j}
    OBVIOUS
  <2>3. Cardinality({i} \cup {j}) = 1 + 1
    BY <2>1, FS_AddElement
  <2>4. Cardinality({i, j}) = 2
    BY <2>2, <2>3
  <2> QED BY <1>6, <2>4
<1>9. Cardinality(dumb) \in Nat /\ 2 <= Cardinality(dumb)
  BY <1>7, <1>8, FS_Subset, FS_CardinalityType
<1> QED BY <1>9 DEF dumb

\* A complete bag of the demo has both causes.
LEMMA DemoFindsBothCauses ==
  ASSUME NEW b \in Seq(Evidence), Claims(b), Len(b) = Len(Roster), ~Real
  PROVE  /\ {"db_pool_exhaustion", "cve_exposure"} \subseteq Kept(b)
         /\ \A k : Kept(b) \ {k} # {}
PROOF
<1>1. DOMAIN b = DOMAIN Roster
  BY OrchestratorAssumption
<1>2. PICK i \in DOMAIN b : Roster[i] = "triage"
  BY <1>1, RosterAssumption
<1>3. PICK j \in DOMAIN b : Roster[j] = "vuln_sec"
  BY <1>1, RosterAssumption
<1>4. b[i] = Finding("triage", 1) /\ b[j] = Finding("vuln_sec", 1)
  BY <1>2, <1>3 DEF Claims, RowsFound, DemoRows
<1>5. 1 \in Nat
  OBVIOUS
<1>6. /\ b[i].key = "db_pool_exhaustion" /\ b[i].stance # "refutes"
      /\ b[i].confidence >= MinSupportingConfidence
      /\ b[j].key = "cve_exposure" /\ b[j].stance # "refutes"
      /\ b[j].confidence >= MinSupportingConfidence
  BY <1>4, <1>5, FindingsAreCausal
<1>7. "db_pool_exhaustion" \in Hypotheses /\ "cve_exposure" \in Hypotheses
  BY OrchestratorAssumption DEF CausalKeys
<1>8. {"db_pool_exhaustion", "cve_exposure"} \subseteq Kept(b)
  BY <1>6, <1>7 DEF Kept, Clears
<1>9. "db_pool_exhaustion" # "cve_exposure"
  OBVIOUS
<1> QED BY <1>8, <1>9

-----------------------------------------------------------------------------
(* What the synthesizer makes of an answer *)

\* str.strip keeps the span from the first line that is not blank to the last.
LEMMA TrimKeepsTheSpan ==
  ASSUME NEW text \in Seq(LineKinds), NEW p \in DOMAIN text, NEW q \in DOMAIN text,
         text[p] # "blank", text[q] # "blank",
         \A i \in DOMAIN text : text[i] # "blank" => p <= i /\ i <= q
  PROVE  Trim(text) = SubSeq(text, p, q)
PROOF
<1> DEFINE kept == {i \in DOMAIN text : text[i] # "blank"}
<1>1. p \in Nat /\ q \in Nat /\ kept \in SUBSET Nat
  OBVIOUS
<1>2. p \in kept /\ q \in kept /\ \A i \in kept : p <= i /\ i <= q
  OBVIOUS
<1>3. Trim(text) = IF kept = {} THEN <<>> ELSE SubSeq(text, Min(kept), Max(kept))
  BY DEF Trim
<1> HIDE DEF kept
<1>4. Min(kept) = p
  <2>1. Min(kept) \in kept /\ \A i \in kept : Min(kept) <= i
    <3>1. \E x \in kept : \A i \in kept : x <= i
      BY <1>2
    <3> QED BY <3>1 DEF Min
  <2>2. \A x, y \in Nat : x <= y /\ y <= x => x = y
    OBVIOUS
  <2> QED BY <1>1, <1>2, <2>1, <2>2
<1>5. Max(kept) = q
  <2>1. Max(kept) \in kept /\ \A i \in kept : Max(kept) >= i
    <3>1. \A i \in kept : q >= i
      BY <1>1, <1>2
    <3>2. \E x \in kept : \A i \in kept : x >= i
      BY <1>2, <3>1
    <3> QED BY <3>2 DEF Max
  <2>2. \A x, y \in Nat : x >= y /\ x <= y => x = y
    OBVIOUS
  <2> QED BY <1>1, <1>2, <2>1, <2>2
<1> QED BY <1>2, <1>3, <1>4, <1>5

\* An answer between blank lines is an answer.
LEMMA TrimFindsTheAnswer ==
  ASSUME NEW text \in Seq(LineKinds), NEW q \in 1..Len(text), text[q] = "answer",
         \A i \in 1..Len(text) : i # q => text[i] = "blank"
  PROVE  Trim(text) = <<"answer">>
PROOF
<1>1. /\ q \in DOMAIN text /\ text[q] # "blank"
      /\ \A i \in DOMAIN text : text[i] # "blank" => q <= i /\ i <= q
  OBVIOUS
<1>2. Trim(text) = SubSeq(text, q, q)
  BY <1>1, TrimKeepsTheSpan
<1>3. SubSeq(text, q, q) = <<text[q]>>
  <2>1. /\ SubSeq(text, q, q) \in Seq(LineKinds) /\ <<text[q]>> \in Seq(LineKinds)
        /\ Len(SubSeq(text, q, q)) = 1 /\ Len(<<text[q]>>) = 1
        /\ SubSeq(text, q, q)[1] = text[q] /\ <<text[q]>>[1] = text[q]
    OBVIOUS
  <2> DEFINE s == SubSeq(text, q, q)
             t == <<text[q]>>
  <2> HIDE DEF LineKinds, s, t
  <2>2. s \in Seq(LineKinds) /\ t \in Seq(LineKinds)
    BY <2>1 DEF s, t
  <2>3. Len(s) = 1 /\ Len(t) = 1 /\ s[1] = t[1]
    BY <2>1 DEF s, t
  <2>4. \A i \in 1..1 : i = 1
    OBVIOUS
  <2>5. Len(s) = Len(t) /\ \A i \in 1..Len(s) : s[i] = t[i]
    BY <2>3, <2>4
  <2>6. s = t
    BY <2>2, <2>5, SeqEqual
  <2> QED BY <2>6 DEF s, t
<1> QED BY <1>2, <1>3

\* The lines after the first of a span.
LEMMA TailOfSpan ==
  ASSUME NEW S, NEW text \in Seq(S), NEW p \in 1..Len(text), NEW r \in 1..Len(text), p < r
  PROVE  /\ SubSeq(text, p, r) # <<>>
         /\ SubSeq(text, p, r)[1] = text[p]
         /\ Tail(SubSeq(text, p, r)) \in Seq(S)
         /\ Len(Tail(SubSeq(text, p, r))) = r - p
         /\ \A i \in 1..(r - p) : Tail(SubSeq(text, p, r))[i] = text[p + i]
PROOF
<1> DEFINE all == SubSeq(text, p, r)
<1>1. all \in Seq(S) /\ Len(all) = r - p + 1
  OBVIOUS
<1>2. \A i \in 1..(r - p + 1) : all[i] = text[p + i - 1]
  OBVIOUS
<1>3. all # <<>> /\ all[1] = text[p]
  BY <1>1, <1>2
<1>4. p \in Nat /\ r \in Nat
  OBVIOUS
<1> HIDE DEF all
<1>5. Tail(all) \in Seq(S) /\ Len(Tail(all)) = r - p
  BY <1>1, <1>3, <1>4
<1>6. ASSUME NEW i \in 1..(r - p) PROVE Tail(all)[i] = text[p + i]
  <2>1. Tail(all)[i] = all[i + 1]
    BY <1>1, <1>3, <1>4, <1>5
  <2>2. i + 1 \in 1..(r - p + 1) /\ p + (i + 1) - 1 = p + i
    BY <1>4
  <2> QED BY <1>2, <2>1, <2>2
<1> QED BY <1>3, <1>5, <1>6 DEF all

\* An opening fence goes, and with it a bare one at the end.
LEMMA FencesComeOff ==
  ASSUME NEW text, NEW all, Trim(text) = all, all # <<>>,
         NEW rest, rest = Tail(all), rest # <<>>
  PROVE  /\ all[1] \notin Fences => StripFences(text) = all
         /\ all[1] \in Fences /\ rest[Len(rest)] \notin Fences =>
              StripFences(text) = Trim(rest)
         /\ all[1] \in Fences /\ rest[Len(rest)] = "bare fence" =>
              StripFences(text) = Trim(SubSeq(rest, 1, Len(rest) - 1))
PROOF
  BY DEF StripFences, Fences

\* A text of one document, with or without a fence around it, closed or not,
\* and blank lines anywhere between, is understood (_strip_json_fences).
LEMMA AnswersAreUsable ==
  ASSUME NEW text \in Seq(LineKinds), IsAnswer(text)
  PROVE  Usable(text)
PROOF
<1> DEFINE places == {i \in DOMAIN text : text[i] # "blank"}
           lines  == Subsequence(text, places)
<1>1. /\ places \in SUBSET (1..Len(text)) /\ DOMAIN text = 1..Len(text)
      /\ \A i \in DOMAIN text : i \in places <=> text[i] # "blank"
  OBVIOUS
<1>2. \/ lines = <<"answer">>
      \/ \E fence \in Fences : \/ lines = <<fence, "answer">>
                               \/ lines = <<fence, "answer", "bare fence">>
  BY DEF IsAnswer
<1>3. PICK g : Picks(lines, g, text, places)
  BY <1>1, SubsequencePicks
<1> HIDE DEF places, lines
<1>4. "answer" \notin Fences /\ "answer" # "blank" /\ "blank" \notin Fences
  BY DEF Fences
<1>5. \A i \in 1..Len(lines) : /\ g[i] \in 1..Len(text) /\ g[i] \in DOMAIN text
                               /\ text[g[i]] = lines[i] /\ text[g[i]] # "blank"
  BY <1>1, <1>3 DEF Picks
<1>6. \A i \in DOMAIN text : text[i] # "blank" => \E j \in 1..Len(lines) : g[j] = i
  BY <1>1, <1>3 DEF Picks
<1>7. \A i, j \in 1..Len(lines) : i < j => g[i] < g[j]
  BY <1>3 DEF Picks
<1>8. CASE lines = <<"answer">>
  <2>1. Len(lines) = 1 /\ lines[1] = "answer" /\ 1..1 = {1}
    BY <1>8
  <2>2. /\ g[1] \in 1..Len(text) /\ text[g[1]] = "answer"
        /\ \A i \in 1..Len(text) : i # g[1] => text[i] = "blank"
    BY <1>1, <1>5, <1>6, <2>1
  <2>3. Trim(text) = <<"answer">>
    BY <2>2, TrimFindsTheAnswer
  <2> QED BY <1>4, <2>3 DEF Usable, StripFences
<1>9. ASSUME NEW fence \in Fences, NEW n \in {2, 3}, Len(lines) = n,
             lines[1] = fence, lines[2] = "answer", n = 3 => lines[3] = "bare fence"
      PROVE  Usable(text)
  <2> DEFINE p    == g[1]
             q    == g[2]
             r    == g[n]
             all  == SubSeq(text, p, r)
             rest == Tail(all)
  <2>0. Len(lines) = n /\ (n = 2 \/ n = 3)
    BY <1>9, Zenon
  <2>1. 1 \in 1..n /\ 2 \in 1..n /\ n \in 1..n /\ \A j \in 1..n : j = 1 \/ j = 2 \/ j = n
    OBVIOUS
  <2>2. /\ p \in 1..Len(text) /\ q \in 1..Len(text) /\ r \in 1..Len(text)
        /\ p \in DOMAIN text /\ r \in DOMAIN text
        /\ text[p] = fence /\ text[q] = "answer"
        /\ text[p] # "blank" /\ text[r] # "blank"
    BY <1>5, <1>9, <2>1
  <2>3. p < q /\ (n = 2 => r = q) /\ (n = 3 => q < r)
    BY <1>7, <2>0, <2>1
  <2>4. p \in Nat /\ q \in Nat /\ r \in Nat
    BY <2>2
  <2>5. \A i \in DOMAIN text : text[i] # "blank" => i = p \/ i = q \/ i = r
    BY <1>6, <1>9, <2>1
  <2>6. n = 3 => text[r] = "bare fence"
    BY <1>5, <1>9, <2>1
  <2> HIDE DEF p, q, r
  <2>7. p < r /\ q <= r
    BY <2>0, <2>3, <2>4
  <2>8. \A i \in DOMAIN text : text[i] # "blank" => p <= i /\ i <= r
    BY <2>3, <2>4, <2>5, <2>7
  <2>9. Trim(text) = all
    BY <2>2, <2>8, TrimKeepsTheSpan
  <2>10. /\ all # <<>> /\ all[1] = fence
         /\ rest \in Seq(LineKinds) /\ Len(rest) = r - p
         /\ \A i \in 1..(r - p) : rest[i] = text[p + i]
    BY <2>2, <2>7, TailOfSpan
  <2> HIDE DEF all
  <2> DEFINE k == q - p
             l == r - p
  <2>11. /\ k \in 1..l /\ l \in 1..l /\ p + k = q /\ p + l = r
         /\ \A i \in 1..l : p + i \in 1..Len(text) /\ (p + i = q <=> i = k)
                            /\ p + i # p /\ (p + i = r <=> i = l)
         /\ n = 2 => k = l
         /\ n = 3 => k \in 1..(l - 1) /\ \A i \in 1..(l - 1) : i \in 1..l /\ i # l
    <3>1. r <= Len(text) /\ Len(text) \in Nat /\ k \in Int /\ l \in Int
      BY <2>2, <2>4
    <3>2. k \in 1..l /\ l \in 1..l /\ p + k = q /\ p + l = r
      BY <2>3, <2>4, <2>7
    <3>3. ASSUME NEW i \in 1..l
          PROVE  /\ p + i \in 1..Len(text) /\ (p + i = q <=> i = k)
                 /\ p + i # p /\ (p + i = r <=> i = l)
      <4>1. i \in Int /\ 1 <= i /\ i <= l
        OBVIOUS
      <4>2. p + i >= 1 /\ p + i <= Len(text) /\ p + i \in Int
        BY <2>4, <3>1, <4>1
      <4> QED BY <2>4, <3>1, <4>1, <4>2
    <3>4. n = 2 => k = l
      BY <2>3
    <3>5. n = 3 => k \in 1..(l - 1)
      BY <2>3, <2>4, <2>7
    <3>6. \A i \in 1..(l - 1) : i \in 1..l /\ i # l
      BY <3>1
    <3> QED BY <3>2, <3>3, <3>4, <3>5, <3>6
  <2> HIDE DEF k, l
  <2>12. /\ rest[k] = "answer" /\ rest[l] = text[r] /\ Len(rest) = l
         /\ \A i \in 1..l : i # k /\ i # l => rest[i] = "blank"
    BY <1>1, <2>2, <2>5, <2>10, <2>11 DEF l
  <2>13. rest # <<>> /\ rest = Tail(all)
    BY <2>10, <2>11, <2>12 DEF l
  <2> HIDE DEF rest
  <2>14. CASE n = 2
    <3>1. rest[Len(rest)] = "answer"
      BY <2>11, <2>12, <2>14
    <3>2. StripFences(text) = Trim(rest)
      BY <1>4, <2>9, <2>10, <2>13, <3>1, FencesComeOff
    <3>3. Trim(rest) = <<"answer">>
      BY <2>10, <2>11, <2>12, <2>14, TrimFindsTheAnswer
    <3> QED BY <3>2, <3>3 DEF Usable
  <2>15. CASE n = 3
    <3> DEFINE body == SubSeq(rest, 1, Len(rest) - 1)
    <3>1. rest[Len(rest)] = "bare fence"
      BY <2>6, <2>12, <2>15
    <3>2. StripFences(text) = Trim(body)
      BY <2>9, <2>10, <2>13, <3>1, FencesComeOff
    <3>3. /\ body \in Seq(LineKinds) /\ Len(body) = l - 1
          /\ \A i \in 1..(l - 1) : body[i] = rest[i]
      <4>1. l \in Nat \ {0}
        BY <2>11
      <4> HIDE DEF LineKinds
      <4> QED BY <2>10, <2>12, <4>1
    <3> HIDE DEF body
    <3>4. k \in 1..Len(body) /\ body[k] = "answer"
      BY <2>11, <2>12, <2>15, <3>3
    <3>5. \A i \in 1..Len(body) : i # k => body[i] = "blank"
      BY <2>11, <2>12, <2>15, <3>3
    <3>6. Trim(body) = <<"answer">>
      BY <3>3, <3>4, <3>5, TrimFindsTheAnswer
    <3> QED BY <3>2, <3>6 DEF Usable
  <2> QED BY <1>9, <2>14, <2>15
<1>10. CASE \E fence \in Fences : \/ lines = <<fence, "answer">>
                                  \/ lines = <<fence, "answer", "bare fence">>
  <2>1. PICK fence \in Fences : \/ lines = <<fence, "answer">>
                                \/ lines = <<fence, "answer", "bare fence">>
    BY <1>10
  <2>2. CASE lines = <<fence, "answer">>
    <3>1. Len(lines) = 2 /\ lines[1] = fence /\ lines[2] = "answer"
      BY <2>2
    <3>2. 2 \in {2, 3} /\ 2 # 3
      OBVIOUS
    <3> QED BY <1>9, <3>1, <3>2
  <2>3. CASE lines = <<fence, "answer", "bare fence">>
    <3>1. /\ Len(lines) = 3 /\ lines[1] = fence /\ lines[2] = "answer"
          /\ lines[3] = "bare fence"
      BY <2>3
    <3>2. 3 \in {2, 3}
      OBVIOUS
    <3> QED BY <1>9, <3>1, <3>2
  <2> QED BY <2>1, <2>2, <2>3
<1> QED BY <1>2, <1>8, <1>10

-----------------------------------------------------------------------------
(* What is known of the answer *)

ModelFailed == "model failed"

TypeRest ==
  /\ wiring \in Wirings
  /\ brief \in [hypotheses : Seq(Hypothesis), from_memory : BOOLEAN]
  /\ said \in Texts \cup {<<>>}
  /\ closed \in BOOLEAN
  /\ runs \in 0..MaxRuns
  /\ answer \in [Problems -> Seq(Hypothesis)]
  /\ replanned \in [of : Problems \cup {NoProblem}, rejected : Hypotheses \cup {"none"},
                    cached : BOOLEAN, failed : BOOLEAN,
                    hypotheses : Seq(Hypothesis)]
  /\ recorded \subseteq Hypotheses
  /\ confirmed \subseteq Hypotheses

\* What was collected is what this roster claims, and a bag is cached whole.
EvidenceFacts ==
  /\ Claims(bag)
  /\ \A p \in Problems : lastEvidence[p] # <<>> =>
       Claims(lastEvidence[p]) /\ Len(lastEvidence[p]) = Len(Roster)

Late == {"sending", "answering", "closing"}

\* From composing to returning the brief is the ranking of the bag, and from
\* persisting on that bag is the cached one.
AnswerFacts ==
  /\ at = "persisting" => Len(bag) = Len(Roster) /\ ~brief.from_memory
  /\ at \in Late \cup {"persisting"} /\ ~brief.from_memory => brief.hypotheses = Ranked(bag)
  /\ at \in Late /\ ~brief.from_memory => lastEvidence[latest] = bag
  /\ at # "idle" => replanned = NoReplan /\ ModelFailed \notin faults
  /\ ModelFailed \in faults => ~Usable(said)

\* A replan's answer stays about the evidence it was made from: no run is under
\* way, and in the demo it was made of evidence.
ReplanFacts ==
  /\ replanned.of = NoProblem => replanned = NoReplan
  /\ ~Real /\ replanned.of # NoProblem /\ lastEvidence[replanned.of] # <<>> =>
       replanned.cached /\ ~replanned.failed
  /\ ReplanIsWhatRemains

DemoNeverFails == ~Real => \A p \in Problems : outcome[p] # "failed"

AInv ==
  /\ TypeRest
  /\ EvidenceFacts
  /\ AnswerFacts
  /\ ReplanFacts
  /\ CacheMatchesAnswer
  /\ OnlyCausalHypotheses
  /\ DemoNeverFails

\* An empty list shows no hypothesis, and the values that stand for no brief
\* and no answer to a reject request have their types.
LEMMA NothingShown ==
  /\ KeysOf(<<>>) = {}
  /\ <<>> \in Seq(Hypothesis)
  /\ NoReplan.of = NoProblem /\ ~NoReplan.cached /\ NoReplan.hypotheses = <<>>
  /\ NoBrief.hypotheses = <<>> /\ ~NoBrief.from_memory
  /\ NoReplan \in [of : Problems \cup {NoProblem}, rejected : Hypotheses \cup {"none"},
                   cached : BOOLEAN, failed : BOOLEAN, hypotheses : Seq(Hypothesis)]
  /\ NoBrief \in [hypotheses : Seq(Hypothesis), from_memory : BOOLEAN]
PROOF
<1>1. KeysOf(<<>>) = {} /\ <<>> \in Seq(Hypothesis)
  BY DEF KeysOf
<1> QED BY <1>1 DEF NoReplan, NoBrief

\* The invariant of the answers holds before the first request.
LEMMA InitAInv == OrchestratorInit => AInv
PROOF
<1> SUFFICES ASSUME OrchestratorInit PROVE AInv
  OBVIOUS
<1>1. TypeRest
  <2>1. /\ wiring \in Wirings /\ said \in Texts \cup {<<>>} /\ closed \in BOOLEAN
    BY DEF OrchestratorInit
  <2>2. runs \in 0..MaxRuns
    BY OrchestratorAssumption DEF OrchestratorInit
  <2>3. answer \in [Problems -> Seq(Hypothesis)]
    BY NothingShown DEF OrchestratorInit
  <2>4. recorded \subseteq Hypotheses /\ confirmed \subseteq Hypotheses
    BY OrchestratorAssumption DEF OrchestratorInit
  <2>5. brief = NoBrief /\ replanned = NoReplan
    BY DEF OrchestratorInit
  <2> QED BY <2>1, <2>2, <2>3, <2>4, <2>5, NothingShown DEF TypeRest
<1>2. EvidenceFacts
  BY DEF OrchestratorInit, EvidenceFacts, Claims
<1>3. AnswerFacts
  BY DEF OrchestratorInit, AnswerFacts, Late
<1>4. ReplanFacts
  BY NothingShown DEF OrchestratorInit, ReplanFacts, ReplanIsWhatRemains
<1>5. CacheMatchesAnswer
  BY DEF OrchestratorInit, CacheMatchesAnswer
<1>6. OnlyCausalHypotheses
  BY NothingShown DEF OrchestratorInit, OnlyCausalHypotheses, CauseKeys
<1>7. DemoNeverFails
  BY DEF OrchestratorInit, DemoNeverFails
<1> QED BY <1>1, <1>2, <1>3, <1>4, <1>5, <1>6, <1>7 DEF AInv

\* A run begins without evidence, and the answer to the last reject request is
\* gone.
LEMMA BeginKeepsAInv ==
  ASSUME IInv, AInv, NEW p \in Problems, Begin(p)
  PROVE  AInv'
PROOF
<1>1. TypeRest'
  <2>1. runs + 1 \in 0..MaxRuns
    BY OrchestratorAssumption DEF Begin, AInv, TypeRest
  <2> QED BY <2>1, NothingShown DEF Begin, AInv, TypeRest, memory
<1>2. EvidenceFacts'
  BY DEF Begin, AInv, EvidenceFacts, Claims, RowsFound, Real
<1>3. AnswerFacts'
  BY DEF Begin, AnswerFacts, Late
<1>4. ReplanFacts'
  BY NothingShown DEF Begin, ReplanFacts, ReplanIsWhatRemains
<1>5. CacheMatchesAnswer'
  BY DEF Begin, AInv, CacheMatchesAnswer
<1>6. OnlyCausalHypotheses'
  BY NothingShown DEF Begin, AInv, OnlyCausalHypotheses, memory
<1>7. DemoNeverFails'
  BY DEF Begin, AInv, DemoNeverFails, Real
<1> QED BY <1>1, <1>2, <1>3, <1>4, <1>5, <1>6, <1>7 DEF AInv

\* A run that fails: its cached evidence and its answer stay those of an
\* earlier run, and its outcome says so.
LEMMA FailureKeepsAInv ==
  ASSUME IInv, AInv, at # "idle", at' = "idle", Real,
         outcome' = [outcome EXCEPT ![latest] = "failed"],
         ModelFailed \in faults' => ~Usable(said'),
         said' \in Texts \cup {<<>>},
         UNCHANGED <<wiring, latest, bag, brief, closed, runs, lastEvidence, answer,
                     replanned, memory>>
  PROVE  AInv'
PROOF
<1>1. TypeRest'
  BY DEF AInv, TypeRest, memory
<1>2. EvidenceFacts'
  BY DEF AInv, EvidenceFacts, Claims, RowsFound, Real
<1>3. AnswerFacts'
  BY DEF AInv, AnswerFacts, Late
<1>4. ReplanFacts'
  BY NothingShown DEF AInv, AnswerFacts, ReplanFacts, ReplanIsWhatRemains
<1>5. CacheMatchesAnswer'
  <2>1. latest \in Problems /\ outcome \in [Problems -> Outcomes]
    BY DEF IInv, Shape, StageFacts
  <2>2. \A p \in Problems : outcome'[p] = "cold" => p # latest /\ outcome[p] = "cold"
    BY <2>1
  <2> QED BY <2>2 DEF AInv, CacheMatchesAnswer
<1>6. OnlyCausalHypotheses'
  BY DEF AInv, OnlyCausalHypotheses, memory
<1>7. DemoNeverFails'
  BY DEF AInv, DemoNeverFails, Real
<1> QED BY <1>1, <1>2, <1>3, <1>4, <1>5, <1>6, <1>7 DEF AInv

\* A stage that goes on to another one and leaves evidence, brief and memory as
\* they are.
LEMMA GoKeepsAInv ==
  ASSUME IInv, AInv, NEW from \in Stages \ {"idle"}, NEW to \in Stages \ {"idle", "persisting"},
         to \in Late => from \in Late,
         Go(from, to),
         ModelFailed \notin faults',
         UNCHANGED <<bag, brief, lastEvidence, memory>>
  PROVE  AInv'
PROOF
<1>1. TypeRest'
  BY DEF AInv, TypeRest, Go, memory
<1>2. EvidenceFacts'
  BY DEF AInv, EvidenceFacts, Claims, RowsFound, Real, Go
<1>3. AnswerFacts'
  BY DEF AInv, AnswerFacts, Go
<1>4. ReplanFacts'
  BY NothingShown DEF AInv, AnswerFacts, ReplanFacts, ReplanIsWhatRemains, Go
<1>5. CacheMatchesAnswer'
  BY DEF AInv, CacheMatchesAnswer, Go
<1>6. OnlyCausalHypotheses'
  BY DEF AInv, OnlyCausalHypotheses, memory, Go
<1>7. DemoNeverFails'
  BY DEF AInv, DemoNeverFails, Real, Go
<1> QED BY <1>1, <1>2, <1>3, <1>4, <1>5, <1>6, <1>7 DEF AInv

\* The memory's answer is the confirmed cause of an incident.
LEMMA MatchHighKeepsAInv ==
  ASSUME IInv, AInv, NEW k \in Hypotheses, MatchHigh(k)
  PROVE  AInv'
PROOF
<1> DEFINE list == <<[key |-> k, rank |-> 1]>>
<1>1. /\ brief' = [hypotheses |-> list, from_memory |-> TRUE]
      /\ at = "matching" /\ at' = "sending" /\ faults' = faults
      /\ UNCHANGED <<wiring, latest, said, closed, runs, outcome, answer, replanned,
                     bag, lastEvidence, recorded, confirmed>>
  BY DEF MatchHigh, Go, memory
<1>2. list \in Seq(Hypothesis) /\ KeysOf(list) = {k}
  <2>1. [key |-> k, rank |-> 1] \in Hypothesis
    BY DEF Hypothesis
  <2>2. list \in Seq(Hypothesis) /\ DOMAIN list = {1}
    BY <2>1
  <2> QED BY <2>2 DEF KeysOf
<1> HIDE DEF list
<1>3. brief'.hypotheses = list /\ brief'.from_memory = TRUE
  BY <1>1
<1>4. k \in CauseKeys
  <2>1. k \in Hits
    BY DEF MatchHigh
  <2>2. CASE Real
    BY <2>1, <2>2 DEF Hits, AInv, OnlyCausalHypotheses
  <2>3. CASE ~Real
    BY <2>1, <2>3 DEF Hits, DemoHits, CannedMatch, CauseKeys, CausalKeys
  <2> QED BY <2>2, <2>3
<1>5. TypeRest'
  BY <1>1, <1>2 DEF AInv, TypeRest
<1>6. EvidenceFacts'
  BY <1>1 DEF AInv, EvidenceFacts, Claims, RowsFound, Real
<1>7. AnswerFacts'
  BY <1>1, <1>3 DEF AInv, AnswerFacts
<1>8. ReplanFacts'
  BY <1>1, NothingShown DEF AInv, AnswerFacts, ReplanFacts, ReplanIsWhatRemains
<1>9. CacheMatchesAnswer'
  BY <1>1 DEF AInv, CacheMatchesAnswer
<1>10. OnlyCausalHypotheses'
  BY <1>1, <1>2, <1>3, <1>4 DEF AInv, OnlyCausalHypotheses
<1>11. DemoNeverFails'
  BY <1>1 DEF AInv, DemoNeverFails, Real
<1> QED BY <1>5, <1>6, <1>7, <1>8, <1>9, <1>10, <1>11 DEF AInv

\* A specialist's evidence joins the bag at the specialist's place.
LEMMA CompleteKeepsAInv ==
  ASSUME IInv, AInv, NEW evidence \in Evidence, Complete(evidence),
         \/ \E rows \in RowsFound(Summoned) : evidence = Finding(Summoned, rows)
         \/ Real /\ evidence = Degraded(Summoned),
         ModelFailed \notin faults'
  PROVE  AInv'
PROOF
<1> DEFINE n == Len(bag) + 1
<1>1. /\ at = "investigating" /\ at' = "dispatching" /\ bag' = Append(bag, evidence)
      /\ UNCHANGED <<wiring, latest, said, closed, runs, outcome, answer, replanned,
                     brief, lastEvidence, recorded, confirmed>>
  BY DEF Complete, Go, memory
<1>2. /\ n \in DOMAIN Roster /\ bag \in Seq(Evidence) /\ Len(bag) \in Nat
      /\ DOMAIN bag = 1..Len(bag)
  BY <1>1, OrchestratorAssumption DEF IInv, Shape, StageFacts
<1>3. /\ DOMAIN bag' = 1..n /\ bag'[n] = evidence
      /\ \A i \in 1..Len(bag) : bag'[i] = bag[i]
      /\ \A i \in 1..n : i = n \/ i \in 1..Len(bag)
  BY <1>1, <1>2
<1>4. Summoned = Roster[n] /\ \A s : RowsFound(s)' = RowsFound(s) /\ Real' = Real
  BY <1>1 DEF Summoned, RowsFound, Real
<1> HIDE DEF n
<1>5. EvidenceFacts'
  <2>1. ASSUME NEW i \in DOMAIN bag'
        PROVE  /\ i \in DOMAIN Roster
               /\ \/ \E rows \in RowsFound(Roster[i]) : bag'[i] = Finding(Roster[i], rows)
                  \/ Real /\ bag'[i] = Degraded(Roster[i])
    <3>1. CASE i = n
      BY <1>2, <1>3, <1>4, <3>1
    <3>2. CASE i \in 1..Len(bag)
      BY <1>2, <1>3, <3>2 DEF AInv, EvidenceFacts, Claims
    <3> QED BY <1>3, <2>1, <3>1, <3>2
  <2>2. Claims(bag)'
    BY <1>4, <2>1 DEF Claims
  <2>3. \A p \in Problems : lastEvidence[p] # <<>> =>
          Claims(lastEvidence[p])' /\ Len(lastEvidence[p]) = Len(Roster)
    BY <1>1, <1>4 DEF AInv, EvidenceFacts, Claims
  <2> QED BY <1>1, <2>2, <2>3 DEF EvidenceFacts
<1>6. TypeRest'
  BY <1>1 DEF AInv, TypeRest
<1>7. AnswerFacts'
  BY <1>1 DEF AInv, AnswerFacts, Late
<1>8. ReplanFacts'
  BY <1>1, NothingShown DEF AInv, AnswerFacts, ReplanFacts, ReplanIsWhatRemains
<1>9. CacheMatchesAnswer'
  BY <1>1 DEF AInv, CacheMatchesAnswer
<1>10. OnlyCausalHypotheses'
  BY <1>1 DEF AInv, OnlyCausalHypotheses
<1>11. DemoNeverFails'
  BY <1>1 DEF AInv, DemoNeverFails, Real
<1> QED BY <1>5, <1>6, <1>7, <1>8, <1>9, <1>10, <1>11 DEF AInv

\* The synthesizer ranks the bag.
LEMMA ComposeKeepsAInv ==
  ASSUME IInv, AInv, Compose
  PROVE  AInv'
PROOF
<1>1. /\ brief' = [hypotheses |-> Ranked(bag), from_memory |-> FALSE]
      /\ at = "composing" /\ at' = "persisting" /\ faults' = faults
      /\ UNCHANGED <<wiring, latest, said, closed, runs, outcome, answer, replanned,
                     bag, lastEvidence, recorded, confirmed>>
  BY DEF Compose, Go, memory
<1>2. /\ bag \in Seq(Evidence) /\ Len(bag) = Len(Roster) /\ Claims(bag)
  BY <1>1 DEF IInv, Shape, StageFacts, AInv, EvidenceFacts
<1>3. Ranked(bag) \in Seq(Hypothesis) /\ KeysOf(Ranked(bag)) \subseteq CauseKeys
  BY <1>2, RankedIsHypotheses, KeptAreCauses DEF CauseKeys
<1>4. brief'.hypotheses = Ranked(bag) /\ brief'.from_memory = FALSE
  BY <1>1
<1>5. TypeRest'
  BY <1>1, <1>3 DEF AInv, TypeRest
<1>6. EvidenceFacts'
  BY <1>1 DEF AInv, EvidenceFacts, Claims, RowsFound, Real
<1>7. AnswerFacts'
  BY <1>1, <1>2, <1>4 DEF AInv, AnswerFacts, Late
<1>8. ReplanFacts'
  BY <1>1, NothingShown DEF AInv, AnswerFacts, ReplanFacts, ReplanIsWhatRemains
<1>9. CacheMatchesAnswer'
  BY <1>1 DEF AInv, CacheMatchesAnswer
<1>10. OnlyCausalHypotheses'
  BY <1>1, <1>3, <1>4 DEF AInv, OnlyCausalHypotheses
<1>11. DemoNeverFails'
  BY <1>1 DEF AInv, DemoNeverFails, Real
<1> QED BY <1>5, <1>6, <1>7, <1>8, <1>9, <1>10, <1>11 DEF AInv

\* The bag that was composed is cached, whether or not the memory took the
\* record of it.
LEMMA PersistKeepsAInv ==
  ASSUME IInv, AInv, Go("persisting", "sending"),
         lastEvidence' = [lastEvidence EXCEPT ![latest] = bag],
         recorded' \in {recorded, recorded \cup KeysOf(brief.hypotheses)},
         ModelFailed \notin faults',
         UNCHANGED <<bag, brief, confirmed>>
  PROVE  AInv'
PROOF
<1>1. /\ at = "persisting" /\ at' = "sending" /\ latest \in Problems
      /\ UNCHANGED <<wiring, latest, said, closed, runs, outcome, answer, replanned>>
  BY DEF Go, IInv, StageFacts
<1>2. /\ lastEvidence'[latest] = bag
      /\ \A p \in Problems : p # latest => lastEvidence'[p] = lastEvidence[p]
  BY <1>1 DEF IInv, Shape
<1>3. Claims(bag) /\ Len(bag) = Len(Roster)
  BY <1>1 DEF AInv, EvidenceFacts, AnswerFacts
<1>4. \A s : RowsFound(s)' = RowsFound(s) /\ Real' = Real
  BY <1>1 DEF RowsFound, Real
<1>5. TypeRest'
  <2>1. KeysOf(brief.hypotheses) \subseteq Hypotheses
    <3>1. brief.hypotheses \in Seq(Hypothesis)
      BY DEF AInv, TypeRest
    <3>2. \A i \in DOMAIN brief.hypotheses : brief.hypotheses[i] \in Hypothesis
      BY <3>1
    <3> QED BY <3>2 DEF KeysOf, Hypothesis
  <2> QED BY <1>1, <2>1 DEF AInv, TypeRest
<1>6. EvidenceFacts'
  <2>1. Claims(bag)'
    BY <1>3, <1>4 DEF Claims
  <2>2. ASSUME NEW p \in Problems, lastEvidence'[p] # <<>>
        PROVE  Claims(lastEvidence[p])' /\ Len(lastEvidence'[p]) = Len(Roster)
    <3>1. CASE p = latest
      BY <1>2, <1>3, <1>4, <3>1 DEF Claims
    <3>2. CASE p # latest
      BY <1>2, <1>4, <2>2, <3>2 DEF AInv, EvidenceFacts, Claims
    <3> QED BY <3>1, <3>2
  <2> QED BY <2>1, <2>2 DEF EvidenceFacts
<1>7. AnswerFacts'
  BY <1>1, <1>2 DEF AInv, AnswerFacts, Late
<1>8. ReplanFacts'
  BY <1>1, NothingShown DEF AInv, AnswerFacts, ReplanFacts, ReplanIsWhatRemains
<1>9. CacheMatchesAnswer'
  BY <1>1, <1>2 DEF AInv, CacheMatchesAnswer
<1>10. OnlyCausalHypotheses'
  BY <1>1 DEF AInv, OnlyCausalHypotheses
<1>11. DemoNeverFails'
  BY <1>1 DEF AInv, DemoNeverFails, Real
<1> QED BY <1>5, <1>6, <1>7, <1>8, <1>9, <1>10, <1>11 DEF AInv

\* The answer of an investigated run is what its cached evidence ranks to.
LEMMA ReturnKeepsAInv ==
  ASSUME IInv, AInv, Return
  PROVE  AInv'
PROOF
<1>1. /\ at = "closing" /\ at' = "idle" /\ latest \in Problems
      /\ outcome' = [outcome EXCEPT ![latest] = IF brief.from_memory THEN "memory" ELSE "cold"]
      /\ answer' = [answer EXCEPT ![latest] = brief.hypotheses]
      /\ closed' = TRUE /\ faults' = faults
      /\ UNCHANGED <<wiring, latest, bag, brief, said, runs,
                     lastEvidence, replanned, recorded, confirmed>>
  BY DEF Return, memory, IInv, StageFacts
<1>2. outcome \in [Problems -> Outcomes] /\ answer \in [Problems -> Seq(Hypothesis)]
  BY DEF IInv, Shape, AInv, TypeRest
<1>3. /\ \A p \in Problems : p # latest => outcome'[p] = outcome[p] /\ answer'[p] = answer[p]
      /\ answer'[latest] = brief.hypotheses
      /\ outcome'[latest] = IF brief.from_memory THEN "memory" ELSE "cold"
  BY <1>1, <1>2
<1>4. ~brief.from_memory => Ranked(lastEvidence[latest]) = brief.hypotheses
  BY <1>1 DEF AInv, AnswerFacts, Late
<1>5. TypeRest'
  BY <1>1 DEF AInv, TypeRest
<1>6. EvidenceFacts'
  BY <1>1 DEF AInv, EvidenceFacts, Claims, RowsFound, Real
<1>7. AnswerFacts'
  BY <1>1 DEF AInv, AnswerFacts, Late
<1>8. ReplanFacts'
  BY <1>1, NothingShown DEF AInv, AnswerFacts, ReplanFacts, ReplanIsWhatRemains
<1>9. CacheMatchesAnswer'
  <2> SUFFICES ASSUME NEW p \in Problems, outcome'[p] = "cold"
               PROVE  Ranked(lastEvidence[p]) = answer'[p]
    BY <1>1 DEF CacheMatchesAnswer
  <2>1. CASE p = latest
    BY <1>3, <1>4, <2>1
  <2>2. CASE p # latest
    BY <1>3, <2>2 DEF AInv, CacheMatchesAnswer
  <2> QED BY <2>1, <2>2
<1>10. OnlyCausalHypotheses'
  <2>1. ASSUME NEW p \in Problems PROVE KeysOf(answer'[p]) \subseteq CauseKeys
    <3>1. CASE p = latest
      BY <1>3, <3>1 DEF AInv, OnlyCausalHypotheses
    <3>2. CASE p # latest
      BY <1>3, <3>2 DEF AInv, OnlyCausalHypotheses
    <3> QED BY <3>1, <3>2
  <2> QED BY <1>1, <2>1 DEF AInv, OnlyCausalHypotheses
<1>11. DemoNeverFails'
  BY <1>1, <1>3 DEF AInv, DemoNeverFails, Real
<1> QED BY <1>5, <1>6, <1>7, <1>8, <1>9, <1>10, <1>11 DEF AInv

\* What a reject request is told is about the evidence it was told it from.
LEMMA ReplyKeepsAInv ==
  ASSUME IInv, AInv, at = "idle", NEW p \in Problems, NEW k \in Rejectable,
         NEW cached \in BOOLEAN, NEW failed \in BOOLEAN, NEW list \in Seq(Hypothesis),
         Reply(p, k, cached, failed, list),
         KeysOf(list) \subseteq CauseKeys,
         cached /\ ~failed =>
           /\ KeysOf(list) = Kept(lastEvidence[p]) \ {k}
           /\ \A i \in DOMAIN list : list[i].rank = i,
         ~Real /\ lastEvidence[p] # <<>> => cached /\ ~failed
  PROVE  AInv'
PROOF
<1>1. /\ UNCHANGED <<wiring, at, latest, bag, brief, faults, said, closed, runs,
                     lastEvidence, outcome, answer, recorded, confirmed>>
      /\ replanned' = [of |-> p, rejected |-> k, cached |-> cached,
                       failed |-> failed, hypotheses |-> list]
  BY DEF Reply, run, memory
<1>2. /\ replanned'.of = p /\ replanned'.rejected = k /\ replanned'.cached = cached
      /\ replanned'.failed = failed /\ replanned'.hypotheses = list
  BY <1>1
<1>3. p # NoProblem /\ k \in Hypotheses
  BY OrchestratorAssumption
<1>4. TypeRest'
  BY <1>1, <1>3 DEF AInv, TypeRest
<1>5. EvidenceFacts'
  BY <1>1 DEF AInv, EvidenceFacts, Claims, RowsFound, Real
<1>6. AnswerFacts'
  BY <1>1 DEF AInv, AnswerFacts, Late
<1>7. ReplanIsWhatRemains'
  BY <1>1, <1>2 DEF ReplanIsWhatRemains
<1>8. ReplanFacts'
  BY <1>1, <1>2, <1>3, <1>7 DEF ReplanFacts, Real
<1>9. CacheMatchesAnswer'
  BY <1>1 DEF AInv, CacheMatchesAnswer
<1>10. OnlyCausalHypotheses'
  BY <1>1, <1>2 DEF AInv, OnlyCausalHypotheses
<1>11. DemoNeverFails'
  BY <1>1 DEF AInv, DemoNeverFails, Real
<1> QED BY <1>4, <1>5, <1>6, <1>8, <1>9, <1>10, <1>11 DEF AInv

\* The three ends of a reject request.
LEMMA ReplansKeepAInv ==
  ASSUME IInv, AInv, NEW p \in Problems, NEW k \in Rejectable,
         Replan(p, k) \/ ReplanFails(p, k) \/ ReplanFromNothing(p, k)
  PROVE  AInv'
PROOF
<1> DEFINE b == lastEvidence[p]
<1>1. b \in Seq(Evidence) /\ Claims(b)
  <2>1. b \in Seq(Evidence)
    BY DEF IInv, Shape
  <2>2. b = <<>> => Claims(b)
    BY DEF Claims
  <2>3. b # <<>> => Claims(b)
    BY DEF AInv, EvidenceFacts
  <2> QED BY <2>1, <2>2, <2>3, Zenon
<1>2. /\ Kept(Without(b, k)) = Kept(b) \ {k}
      /\ Replanning(b, k) \in Seq(Hypothesis)
      /\ KeysOf(Replanning(b, k)) = Kept(b) \ {k}
      /\ \A i \in DOMAIN Replanning(b, k) : Replanning(b, k)[i].rank = i
      /\ Kept(b) \subseteq CauseKeys
  BY <1>1, WithoutLeavesTheRest, ReplanningIsTheRest, KeptAreCauses DEF CauseKeys
<1>3. ~Real /\ b # <<>> => Kept(Without(b, k)) # {}
  BY <1>1, <1>2, DemoFindsBothCauses DEF AInv, EvidenceFacts
<1>4. CASE Replan(p, k)
  <2>1. at = "idle" /\ Reply(p, k, TRUE, FALSE, Replanning(b, k))
    BY <1>4 DEF Replan
  <2>2. KeysOf(Replanning(b, k)) \subseteq CauseKeys
    BY <1>2
  <2> HIDE DEF b
  <2>3. /\ KeysOf(Replanning(b, k)) = Kept(lastEvidence[p]) \ {k}
        /\ \A i \in DOMAIN Replanning(b, k) : Replanning(b, k)[i].rank = i
    BY <1>2 DEF b
  <2> QED BY <1>2, <2>1, <2>2, <2>3, ReplyKeepsAInv
<1>5. CASE ReplanFails(p, k)
  <2>1. at = "idle" /\ Reply(p, k, TRUE, TRUE, <<>>)
    BY <1>5 DEF ReplanFails
  <2>2. Real \/ b = <<>>
    BY <1>3, <1>5 DEF ReplanFails, ModelMayFail
  <2> QED BY <2>1, <2>2, NothingShown, ReplyKeepsAInv
<1>6. CASE ReplanFromNothing(p, k)
  <2>1. at = "idle" /\ Reply(p, k, FALSE, FALSE, Strip(<<>>, k))
    BY <1>6 DEF ReplanFromNothing
  <2>2. Strip(<<>>, k) \in Seq(Hypothesis) /\ KeysOf(Strip(<<>>, k)) = {}
    BY NothingShown, StripNumbersTheRest
  <2>3. Kept(<<>>) = {}
    BY DEF Kept, Clears
  <2>4. Real \/ b = <<>>
    BY <1>3, <1>6, <2>3 DEF ReplanFromNothing
  <2> QED BY <2>1, <2>2, <2>4, ReplyKeepsAInv
<1> QED BY <1>4, <1>5, <1>6

\* The on-call confirms what was recorded.
LEMMA ConfirmKeepsAInv ==
  ASSUME IInv, AInv, NEW k \in Hypotheses, Confirm(k)
  PROVE  AInv'
PROOF
<1>1. /\ UNCHANGED <<wiring, at, latest, bag, brief, faults, said, closed, runs,
                     lastEvidence, outcome, answer, replanned, recorded>>
      /\ confirmed' = confirmed \cup {k} /\ k \in recorded
  BY DEF Confirm, run, results
<1>2. TypeRest' /\ OnlyCausalHypotheses'
  BY <1>1 DEF AInv, TypeRest, OnlyCausalHypotheses
<1>3. EvidenceFacts' /\ AnswerFacts' /\ DemoNeverFails'
  BY <1>1 DEF AInv, EvidenceFacts, Claims, RowsFound, Real, AnswerFacts, Late,
              DemoNeverFails
<1>4. ReplanFacts' /\ CacheMatchesAnswer'
  BY <1>1 DEF AInv, ReplanFacts, ReplanIsWhatRemains, Real, CacheMatchesAnswer
<1> QED BY <1>2, <1>3, <1>4 DEF AInv

\* A step that changes nothing keeps the invariant of the answers.
LEMMA StutterKeepsAInv ==
  ASSUME AInv, UNCHANGED orchestratorVars
  PROVE  AInv'
PROOF
<1>1. UNCHANGED <<wiring, at, latest, bag, brief, faults, said, closed, runs,
                  lastEvidence, outcome, answer, replanned, recorded, confirmed>>
  BY DEF orchestratorVars, run, results, memory
<1>2. TypeRest' /\ OnlyCausalHypotheses'
  BY <1>1 DEF AInv, TypeRest, OnlyCausalHypotheses
<1>3. EvidenceFacts' /\ AnswerFacts' /\ DemoNeverFails'
  BY <1>1 DEF AInv, EvidenceFacts, Claims, RowsFound, Real, AnswerFacts, Late,
              DemoNeverFails
<1>4. ReplanFacts' /\ CacheMatchesAnswer'
  BY <1>1 DEF AInv, ReplanFacts, ReplanIsWhatRemains, Real, CacheMatchesAnswer
<1> QED BY <1>2, <1>3, <1>4 DEF AInv

\* Every way a run can fail.
LEMMA FailuresKeepAInv ==
  ASSUME IInv, AInv,
         \/ MatchRaises \/ SpecialistRaises \/ ComposeOnLoopFails \/ PersistRaises
         \/ WriteBackRaises \/ ComposeNothing
         \/ \E text \in Texts : ComposeModelFails(text)
  PROVE  AInv'
PROOF
<1>1. ASSUME NEW fault \in HardFaults \ {ModelFailed}, Abort(fault), at # "idle", Real,
             UNCHANGED said
      PROVE  AInv'
  <2>1. ModelFailed \notin faults /\ ModelFailed \notin faults'
    BY <1>1 DEF Abort, AInv, AnswerFacts
  <2>2. said' \in Texts \cup {<<>>}
    BY <1>1 DEF AInv, TypeRest
  <2> QED BY <1>1, <2>1, <2>2, FailureKeepsAInv DEF Abort
<1>2. CASE \/ MatchRaises \/ SpecialistRaises \/ ComposeOnLoopFails \/ PersistRaises
           \/ WriteBackRaises
  <2>1. /\ at # "idle" /\ Real /\ UNCHANGED said
        /\ \E fault \in HardFaults \ {ModelFailed} : Abort(fault)
    BY <1>2 DEF MatchRaises, SpecialistRaises, ComposeOnLoopFails, PersistRaises,
                WriteBackRaises, HardFaults, ModelFailed
  <2> QED BY <1>1, <2>1
<1>3. CASE ComposeNothing
  <2>1. /\ at = "composing" /\ at' = "idle" /\ Kept(bag) = {}
        /\ outcome' = [outcome EXCEPT ![latest] = "failed"]
        /\ faults' = faults /\ said' = said
        /\ UNCHANGED <<wiring, latest, bag, brief, closed, runs, lastEvidence, answer,
                       replanned, memory>>
    BY <1>3 DEF ComposeNothing
  <2>2. Real
    <3>1. bag \in Seq(Evidence) /\ Claims(bag) /\ Len(bag) = Len(Roster)
      BY <2>1 DEF IInv, Shape, StageFacts, AInv, EvidenceFacts
    <3> QED BY <2>1, <3>1, DemoFindsBothCauses
  <2>3. ModelFailed \notin faults' /\ said' \in Texts \cup {<<>>}
    BY <2>1 DEF AInv, AnswerFacts, TypeRest
  <2> QED BY <2>1, <2>2, <2>3, FailureKeepsAInv
<1>4. CASE \E text \in Texts : ComposeModelFails(text)
  <2>1. PICK text \in Texts : ComposeModelFails(text)
    BY <1>4
  <2>2. /\ at # "idle" /\ at' = "idle" /\ Real /\ ~Usable(said') /\ said' \in Texts \cup {<<>>}
        /\ outcome' = [outcome EXCEPT ![latest] = "failed"]
        /\ UNCHANGED <<wiring, latest, bag, brief, closed, runs, lastEvidence, answer,
                       replanned, memory>>
    BY <2>1 DEF ComposeModelFails, Abort
  <2> QED BY <2>2, FailureKeepsAInv
<1> QED BY <1>2, <1>3, <1>4

\* The stages that only go on.
LEMMA StagesKeepAInv ==
  ASSUME IInv, AInv,
         \/ MatchNothing \/ MatchUnavailable \/ MatchMedium \/ Dispatch \/ StartSynthesis
         \/ WriteBack \/ WriteBackDropped \/ Announce
  PROVE  AInv'
PROOF
<1>1. at # "idle" => ModelFailed \notin faults
  BY DEF AInv, AnswerFacts
<1>2. /\ "memory unavailable" # ModelFailed /\ "write-back dropped" # ModelFailed
  BY DEF ModelFailed
<1>3. CASE MatchNothing \/ MatchUnavailable \/ MatchMedium
  <2>1. /\ Go("matching", "dispatching") /\ UNCHANGED <<bag, brief, lastEvidence, memory>>
        /\ faults' \in {faults, faults \cup {"memory unavailable"}}
    BY <1>3, Zenon DEF MatchNothing, MatchUnavailable, MatchMedium
  <2>2. ModelFailed \notin faults'
    BY <1>1, <1>2, <2>1, Zenon DEF Go
  <2>3. "matching" \in Stages \ {"idle"} /\ "dispatching" \in Stages \ {"idle", "persisting"}
        /\ "dispatching" \notin Late
    BY DEF Stages, Late
  <2> QED BY <2>1, <2>2, <2>3, GoKeepsAInv
<1>4. CASE Dispatch
  <2>1. /\ Go("dispatching", "investigating") /\ UNCHANGED <<bag, brief, lastEvidence, memory>>
        /\ faults' = faults
    BY <1>4 DEF Dispatch
  <2>2. ModelFailed \notin faults'
    BY <1>1, <2>1 DEF Go
  <2>3. "dispatching" \in Stages \ {"idle"} /\ "investigating" \in Stages \ {"idle", "persisting"}
        /\ "investigating" \notin Late
    BY DEF Stages, Late
  <2> QED BY <2>1, <2>2, <2>3, GoKeepsAInv
<1>5. CASE StartSynthesis
  <2>1. /\ Go("dispatching", "composing") /\ UNCHANGED <<bag, brief, lastEvidence, memory>>
        /\ faults' = faults
    BY <1>5 DEF StartSynthesis
  <2>2. ModelFailed \notin faults'
    BY <1>1, <2>1 DEF Go
  <2>3. "dispatching" \in Stages \ {"idle"} /\ "composing" \in Stages \ {"idle", "persisting"}
        /\ "composing" \notin Late
    BY DEF Stages, Late
  <2> QED BY <2>1, <2>2, <2>3, GoKeepsAInv
<1>6. CASE WriteBack \/ WriteBackDropped
  <2>1. /\ Go("sending", "answering") /\ UNCHANGED <<bag, brief, lastEvidence, memory>>
        /\ faults' \in {faults, faults \cup {"write-back dropped"}}
    BY <1>6, Zenon DEF WriteBack, WriteBackDropped
  <2>2. ModelFailed \notin faults'
    BY <1>1, <1>2, <2>1, Zenon DEF Go
  <2>3. "sending" \in Stages \ {"idle"} /\ "answering" \in Stages \ {"idle", "persisting"}
        /\ "sending" \in Late
    BY DEF Stages, Late
  <2> QED BY <2>1, <2>2, <2>3, GoKeepsAInv
<1>7. CASE Announce
  <2>1. /\ Go("answering", "closing") /\ UNCHANGED <<bag, brief, lastEvidence, memory>>
        /\ faults' = faults
    BY <1>7 DEF Announce
  <2>2. ModelFailed \notin faults'
    BY <1>1, <2>1 DEF Go
  <2>3. "answering" \in Stages \ {"idle"} /\ "closing" \in Stages \ {"idle", "persisting"}
        /\ "answering" \in Late
    BY DEF Stages, Late
  <2> QED BY <2>1, <2>2, <2>3, GoKeepsAInv
<1> QED BY <1>3, <1>4, <1>5, <1>6, <1>7

\* The steps of handle that change evidence, brief or memory.
LEMMA ResultsKeepAInv ==
  ASSUME IInv, AInv,
         \/ \E k \in Hypotheses : MatchHigh(k)
         \/ SpecialistFinds \/ SpecialistDegrades \/ Compose
         \/ Persist \/ PersistUnavailable \/ Return
  PROVE  AInv'
PROOF
<1>1. at # "idle" => ModelFailed \notin faults
  BY DEF AInv, AnswerFacts
<1>2. /\ "memory unavailable" # ModelFailed /\ "specialist degraded" # ModelFailed
  BY DEF ModelFailed
<1>3. at = "investigating" => Len(bag) + 1 \in DOMAIN Roster
  BY OrchestratorAssumption DEF IInv, Shape, StageFacts
<1>4. CASE SpecialistFinds
  <2>1. Summoned \in SpecialistNames /\ at # "idle"
    BY <1>3, <1>4, OrchestratorAssumption DEF SpecialistFinds, Summoned
  <2>2. PICK rows \in RowsFound(Summoned) : Complete(Finding(Summoned, rows))
    BY <1>4 DEF SpecialistFinds
  <2>3. Finding(Summoned, rows) \in Evidence
    BY <2>1, <2>2, RowsAreNumbers, FindingIsEvidence
  <2>4. ModelFailed \notin faults'
    BY <1>1, <1>4, <2>1 DEF SpecialistFinds
  <2> QED BY <2>2, <2>3, <2>4, CompleteKeepsAInv
<1>5. CASE SpecialistDegrades
  <2>1. Degraded(Summoned) \in Evidence /\ Real /\ at # "idle" /\ Complete(Degraded(Summoned))
    BY <1>3, <1>5, DegradedIsEvidence DEF SpecialistDegrades, Summoned
  <2>2. ModelFailed \notin faults'
    BY <1>1, <1>2, <1>5, <2>1, Zenon DEF SpecialistDegrades
  <2> QED BY <2>1, <2>2, CompleteKeepsAInv
<1>6. CASE Persist \/ PersistUnavailable
  <2>1. /\ Go("persisting", "sending")
        /\ lastEvidence' = [lastEvidence EXCEPT ![latest] = bag]
        /\ recorded' \in {recorded, recorded \cup KeysOf(brief.hypotheses)}
        /\ UNCHANGED <<bag, brief, confirmed>>
        /\ faults' \in {faults, faults \cup {"memory unavailable"}}
    BY <1>6, Zenon DEF Persist, PersistUnavailable, memory
  <2>2. ModelFailed \notin faults'
    BY <1>1, <1>2, <2>1, Zenon DEF Go
  <2> QED BY <2>1, <2>2, PersistKeepsAInv
<1> QED BY <1>4, <1>5, <1>6, MatchHighKeepsAInv, ComposeKeepsAInv, ReturnKeepsAInv

\* Every step keeps the invariant of the answers.
LEMMA NextKeepsAInv == IInv /\ AInv /\ [OrchestratorNext]_orchestratorVars => AInv'
PROOF
<1> SUFFICES ASSUME IInv, AInv, [OrchestratorNext]_orchestratorVars
             PROVE  AInv'
  OBVIOUS
<1>1. CASE \E p \in Problems : Begin(p)
  BY <1>1, BeginKeepsAInv
<1>2. CASE HandleStep
  BY <1>2, FailuresKeepAInv, StagesKeepAInv, ResultsKeepAInv DEF HandleStep
<1>3. CASE \E p \in Problems, k \in Rejectable :
             Replan(p, k) \/ ReplanFails(p, k) \/ ReplanFromNothing(p, k)
  BY <1>3, ReplansKeepAInv
<1>4. CASE \E k \in Hypotheses : Confirm(k)
  BY <1>4, ConfirmKeepsAInv
<1>5. CASE UNCHANGED orchestratorVars
  BY <1>5, StutterKeepsAInv
<1> QED BY <1>1, <1>2, <1>3, <1>4, <1>5 DEF OrchestratorNext

\* AInv holds throughout: what the answer, the cache, the memory and a replan
\* have to do with each other, for every roster the two wirings could have.
THEOREM AnswerInvariantHolds == OrchestratorSpec => []AInv
PROOF
<1>1. OrchestratorInit => AInv
  BY InitAInv
<1>2. IInv /\ AInv /\ [OrchestratorNext]_orchestratorVars => AInv'
  BY NextKeepsAInv
<1> QED BY <1>1, <1>2, RunInvariantHolds, PTL DEF OrchestratorSpec

\* Every variable of the orchestrator keeps its type.
THEOREM OrchestratorTypeCorrect == OrchestratorSpec => []TypeOK
PROOF
<1>1. IInv /\ AInv => TypeOK
  BY DEF IInv, Shape, AInv, TypeRest, TypeOK
<1> QED BY <1>1, RunInvariantHolds, AnswerInvariantHolds, PTL

\* No placeholder of a degraded specialist is ever shown, recorded, confirmed
\* or served from memory as a root cause.
THEOREM OnlyCausesAreShown == OrchestratorSpec => []OnlyCausalHypotheses
PROOF
<1>1. AInv => OnlyCausalHypotheses
  BY DEF AInv
<1> QED BY <1>1, AnswerInvariantHolds, PTL

\* The evidence kept for replans is that of the answer the on-call has, through
\* failed runs, short-circuits and rejections.
THEOREM TheCacheIsTheAnswers == OrchestratorSpec => []CacheMatchesAnswer
PROOF
<1>1. AInv => CacheMatchesAnswer
  BY DEF AInv
<1> QED BY <1>1, AnswerInvariantHolds, PTL

\* A replan that composes offers all that is left and numbers it from one.
THEOREM ReplansOfferTheRest == OrchestratorSpec => []ReplanIsWhatRemains
PROOF
<1>1. AInv => ReplanIsWhatRemains
  BY DEF AInv, ReplanFacts
<1> QED BY <1>1, AnswerInvariantHolds, PTL

\* Without a hard fault it takes two degraded specialists for a run to fail.
THEOREM OneDegradedSpecialistFailsNoRun ==
  OrchestratorSpec => []OneDegradedSpecialistIsSurvived
PROOF
<1>1. IInv /\ AInv => OneDegradedSpecialistIsSurvived
  <2> SUFFICES ASSUME IInv, AInv, FailedRun, faults \cap HardFaults = {}
               PROVE  Cardinality({i \in DOMAIN bag : bag[i].key \in FallbackKeys}) > 1
    BY DEF OneDegradedSpecialistIsSurvived
  <2>1. Len(bag) = Len(Roster) /\ Kept(bag) = {}
    BY DEF IInv, SoftFaultsAreSurvived
  <2>2. bag \in Seq(Evidence) /\ Claims(bag)
    BY DEF IInv, Shape, AInv, EvidenceFacts
  <2> QED BY <2>1, <2>2, SilenceTakesTwoPlaceholders
<1> QED BY <1>1, RunInvariantHolds, AnswerInvariantHolds, PTL

\* On the demo's stand-ins no run fails, and whatever is rejected of an
\* investigated problem another hypothesis is left.
THEOREM TheDemoAnswers == OrchestratorSpec => []DemoAlwaysAnswers
PROOF
<1>1. IInv /\ AInv => DemoAlwaysAnswers
  <2> SUFFICES ASSUME IInv, AInv, ~Real PROVE
        /\ ~FailedRun
        /\ replanned.of # NoProblem /\ lastEvidence[replanned.of] # <<>> =>
             replanned.hypotheses # <<>>
    BY DEF DemoAlwaysAnswers
  <2>1. ~FailedRun
    BY DEF FailedRun, AInv, DemoNeverFails, IInv, Shape
  <2>2. ASSUME replanned.of # NoProblem, lastEvidence[replanned.of] # <<>>
        PROVE  replanned.hypotheses # <<>>
    <3> DEFINE b == lastEvidence[replanned.of]
    <3>1. replanned.of \in Problems
      BY <2>2 DEF AInv, TypeRest
    <3>2. b \in Seq(Evidence) /\ Claims(b) /\ Len(b) = Len(Roster)
      BY <2>2, <3>1 DEF IInv, Shape, AInv, EvidenceFacts
    <3>3. KeysOf(replanned.hypotheses) = Kept(b) \ {replanned.rejected}
      BY <2>2 DEF AInv, ReplanFacts, ReplanIsWhatRemains
    <3> HIDE DEF b
    <3>4. KeysOf(replanned.hypotheses) # {}
      BY <3>2, <3>3, DemoFindsBothCauses
    <3> QED BY <3>4, NothingShown
  <2> QED BY <2>1, <2>2
<1> QED BY <1>1, RunInvariantHolds, AnswerInvariantHolds, PTL

\* A run the model fails was not told one answer with nothing but blank lines
\* and a fence around it.
THEOREM AnswersAreUnderstood == OrchestratorSpec => []FencedAnswersAreUnderstood
PROOF
<1>1. AInv => FencedAnswersAreUnderstood
  <2> SUFFICES ASSUME AInv, ModelFailed \in faults PROVE ~IsAnswer(said)
    BY DEF FencedAnswersAreUnderstood, ModelFailed
  <2>1. ~Usable(said)
    BY DEF AInv, AnswerFacts
  <2>2. said \in Seq(LineKinds)
    <3>1. <<>> \in Seq(LineKinds)
      OBVIOUS
    <3> HIDE DEF LineKinds
    <3> QED BY <3>1, OrchestratorAssumption DEF AInv, TypeRest
  <2> QED BY <2>1, <2>2, AnswersAreUsable
<1> QED BY <1>1, AnswerInvariantHolds, PTL
=============================================================================
