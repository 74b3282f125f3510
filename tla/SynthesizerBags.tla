-------------------------- MODULE SynthesizerBags ---------------------------
(***************************************************************************)
(* Every bag of evidence compose can be given, one piece at a time: the    *)
(* states are the inputs of the ranking, the steps compare the ranking     *)
(* before and after one more piece of evidence.                            *)
(***************************************************************************)
EXTENDS Synthesizer

CONSTANTS
  Observations,  \* the pieces of evidence to draw from
  MaxBag         \* bound on the size of a bag

ASSUME BagAssumption == Observations \subseteq Evidence /\ MaxBag \in Nat

VARIABLE given  \* the bag compose is given

BagInit == given = <<>>

\* One more specialist reports; the bag compose sees is the longer one.
Report(e) == Len(given) < MaxBag /\ given' = Append(given, e)

BagNext == \E e \in Observations : Report(e)
BagSpec == BagInit /\ [][BagNext]_given

-----------------------------------------------------------------------------
\* The brief lists the kept hypotheses in strict order of score then key, each
\* once, and what the cap cuts off is outranked by everything listed: the
\* ranking is the sort and truncation of compose, whatever the bag.
RankingIsTopOfTheOrder ==
  LET list == Ranked(given)
  IN  /\ \A i \in 2..Len(list) : Outranks(given, list[i - 1].key, list[i].key)
      /\ KeysOf(list) \subseteq Kept(given)
      /\ \A k \in Kept(given) \ KeysOf(list) :
           /\ Len(list) = MaxHypotheses
           /\ \A i \in DOMAIN list : Outranks(given, list[i].key, k)

\* A hypothesis some specialist supports comes before every hypothesis that
\* rests on informational evidence alone, however the three terms of the score
\* add up.
SupportedComeFirst ==
  \A a, b \in Kept(given) :
    Supporting(given, a) # {} /\ Supporting(given, b) = {} => Outranks(given, a, b)

\* One more supporting observation that is at least as confident and as trusted
\* as those the hypothesis already had never lets another hypothesis overtake
\* it, although the support counts of all are rescaled by it.
StrongerSupportNeverDemotes ==
  [][\A e \in Observations :
       (/\ Report(e)
        /\ e.stance = "supports"
        /\ e.key \in Kept(given)
        /\ \A i \in Supporting(given, e.key) :
             /\ e.confidence >= given[i].confidence
             /\ TrustOf(e.specialist) >= TrustOf(given[i].specialist))
       => \A k \in Kept(given) :
            Outranks(given, e.key, k) => Outranks(given', e.key, k)]_given
=============================================================================
