---------------------------- MODULE Synthesizer -----------------------------
(***************************************************************************)
(* What Synthesizer.compose decides (synthesizer.py): which hypotheses of  *)
(* a bag of evidence are kept and in which order they are surfaced.  The   *)
(* prose is left out; an unusable answer of the language model is a fault  *)
(* of the caller's environment, see Orchestrator.                          *)
(*                                                                         *)
(* Confidences and trusts are percentages, so that the floating-point      *)
(* score of the code becomes a fraction of integers compared exactly.      *)
(***************************************************************************)
EXTENDS Integers, Sequences, FiniteSets, SequencesExt, FiniteSetsExt

CONSTANTS
  Reporters,                \* names evidence may be signed with
  Hypotheses,               \* hypothesis keys
  KeyOrder,                 \* where a key stands in the order of strings
  MinSupportingConfidence,  \* SynthesizerConfig.min_supporting_confidence
  MaxHypotheses             \* SynthesizerConfig.max_hypotheses

ASSUME SynthesizerAssumption ==
  /\ IsFiniteSet(Hypotheses)
  /\ KeyOrder \in [Hypotheses -> Nat]
  /\ \A a, b \in Hypotheses : KeyOrder[a] = KeyOrder[b] => a = b
  /\ MinSupportingConfidence \in 1..100
  /\ MaxHypotheses \in Nat \ {0}

Stances == {"supports", "refutes", "informational"}

\* What Evidence carries that compose reads.
Evidence ==
  [specialist : Reporters, stance : Stances, key : Hypotheses, confidence : 0..100]

TrustTable ==
  [triage |-> 85, deploy_correlation |-> 90, anomaly_window |-> 80,
   topology |-> 75, vuln_sec |-> 70, memory |-> 95]
DefaultTrust == 60

TrustOf(name) ==
  IF name \in DOMAIN TrustTable THEN TrustTable[name] ELSE DefaultTrust

-----------------------------------------------------------------------------
\* The places of a bag that speak for k.
Supporting(bag, k) ==
  {i \in DOMAIN bag : bag[i].key = k /\ bag[i].stance = "supports"}

\* The floor: one confident piece of evidence that does not refute.
Clears(bag, k) ==
  \E i \in DOMAIN bag :
    /\ bag[i].key = k
    /\ bag[i].stance # "refutes"
    /\ bag[i].confidence >= MinSupportingConfidence

Kept(bag) == {k \in Hypotheses : Clears(bag, k)}

Most(bag) == Max({1} \cup {Cardinality(Supporting(bag, k)) : k \in Kept(bag)})

\* FAULT: the mean confidence is taken over all evidence about k.
FaultyScore(bag, k) ==
  LET mine  == Supporting(bag, k)
      all   == {i \in DOMAIN bag : bag[i].key = k}
      n     == Max({1, Cardinality(all)})
      conf  == SumFunction([i \in all |-> bag[i].confidence])
  IN  [weight |-> 400 * Cardinality(mine) * n + Most(bag) * (4 * conf + 2 * DefaultTrust * n),
       share  |-> n]

\* FAULT: the means are divided by the count once more.
TwiceAveragedScore(bag, k) ==
  LET mine  == Supporting(bag, k)
      n     == Max({1, Cardinality(mine)})
      conf  == SumFunction([i \in mine |-> bag[i].confidence])
      trust == SumFunction([i \in mine |-> TrustOf(bag[i].specialist)])
  IN  [weight |-> 400 * Cardinality(mine) * n * n + Most(bag) * (4 * conf + 2 * trust),
       share  |-> n * n]

\* 0.4 * supporting share + 0.4 * mean confidence + 0.2 * mean trust, times
\* 1000 * Most(bag): weight / share.
Score(bag, k) ==
  LET mine  == Supporting(bag, k)
      n     == Max({1, Cardinality(mine)})
      conf  == SumFunction([i \in mine |-> bag[i].confidence])
      trust == IF mine = {} THEN DefaultTrust
               ELSE SumFunction([i \in mine |-> TrustOf(bag[i].specialist)])
  IN  [weight |-> 400 * Cardinality(mine) * n + Most(bag) * (4 * conf + 2 * trust),
       share  |-> n]

\* The sort key: score descending, then the key.
Outranks(bag, a, b) ==
  LET sa == Score(bag, a)
      sb == Score(bag, b)
      x  == sa.weight * sb.share
      y  == sb.weight * sa.share
  IN  x > y \/ (x = y /\ KeyOrder[a] < KeyOrder[b])

Rank(bag, k) == 1 + Cardinality({j \in Kept(bag) : Outranks(bag, j, k)})

\* FAULT: sorted in ascending order.
FaultyRanked(bag) ==
  LET n == Cardinality(Kept(bag))
  IN  [r \in 1..Min({n, MaxHypotheses}) |->
        [key |-> CHOOSE k \in Kept(bag) : Rank(bag, k) = n + 1 - r, rank |-> r]]

\* The ranked hypotheses of a brief, best first, capped.  Empty exactly when
\* compose raises SynthesisFailed because nothing cleared the floor.
Ranked(bag) ==
  [r \in 1..Min({Cardinality(Kept(bag)), MaxHypotheses}) |->
    [key |-> CHOOSE k \in Kept(bag) : Rank(bag, k) = r, rank |-> r]]

KeysOf(hypotheses) == {hypotheses[i].key : i \in DOMAIN hypotheses}
=============================================================================
