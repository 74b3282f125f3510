------------------------- MODULE SynthesizerProofs --------------------------
(***************************************************************************)
(* What the ranking of compose (synthesizer.py) does with every bag of     *)
(* evidence, whatever its length and whatever the hypotheses: the three    *)
(* properties of SynthesizerBags, proved.                                  *)
(*                                                                         *)
(* The score of a hypothesis is a sum over the places that support it, so  *)
(* the argument rests on the facts of DataTheorems about sums: a score is  *)
(* written with its parts Support, Share and Quality, the order of two     *)
(* hypotheses becomes a comparison of fractions of those parts, and the    *)
(* rest is arithmetic.                                                     *)
(***************************************************************************)
EXTENDS SynthesizerBags, DataTheorems

-----------------------------------------------------------------------------
(* Counts and sums over a bag *)

\* The maximum of a set of numbers with a bound is its greatest element: the
\* max() calls of the score.
LEMMA MaxOfBounded ==
  ASSUME NEW S \in SUBSET Nat, S # {}, NEW n \in Nat, \A x \in S : x <= n
  PROVE  Max(S) \in S /\ \A x \in S : x <= Max(S)
PROOF
<1> DEFINE Bounds == {b \in Nat : \A x \in S : x <= b}
<1>1. PICK m \in Bounds : \A b \in Bounds : m <= b
  <2>1. Bounds \in SUBSET Nat /\ Bounds # {}
    OBVIOUS
  <2> HIDE DEF Bounds
  <2> QED BY <2>1, LeastNatural
<1>2. m \in S
  <2> SUFFICES ASSUME m \notin S PROVE FALSE
    OBVIOUS
  <2>1. m # 0
    <3> SUFFICES ASSUME m = 0 PROVE FALSE
      OBVIOUS
    <3>1. PICK x \in S : TRUE
      OBVIOUS
    <3> QED BY <3>1
  <2>2. m - 1 \in Nat /\ ~(m <= m - 1)
    BY <2>1
  <2>3. \A x \in S : x <= m - 1
    OBVIOUS
  <2>4. m - 1 \in Bounds
    BY <2>2, <2>3
  <2> QED BY <1>1, <2>2, <2>4
<1>3. \E x \in S : \A y \in S : x >= y
  BY <1>2
<1> QED BY <1>3 DEF Max

\* The support count of a hypothesis is a number, at most the length of the
\* bag, and zero when nothing supports it.
LEMMA SupportingIsFinite ==
  ASSUME NEW b \in Seq(Evidence), NEW k
  PROVE  /\ Supporting(b, k) \in SUBSET (1..Len(b))
         /\ IsFiniteSet(Supporting(b, k))
         /\ Cardinality(Supporting(b, k)) \in Nat
         /\ Cardinality(Supporting(b, k)) <= Len(b)
         /\ Cardinality(Supporting(b, k)) = 0 <=> Supporting(b, k) = {}
PROOF
<1>1. Supporting(b, k) \in SUBSET (1..Len(b))
  BY DEF Supporting
<1>2. Len(b) \in Nat
  OBVIOUS
<1>3. IsFiniteSet(1..Len(b)) /\ Cardinality(1..Len(b)) = Len(b)
  BY <1>2, FS_Interval
<1> QED BY <1>1, <1>3, FS_Subset, FS_CardinalityType, FS_EmptySet

\* The hypotheses over the floor are finitely many.
LEMMA KeptIsFinite ==
  ASSUME NEW b
  PROVE  /\ Kept(b) \in SUBSET Hypotheses
         /\ IsFiniteSet(Kept(b))
         /\ Cardinality(Kept(b)) \in Nat
PROOF
<1>1. Kept(b) \in SUBSET Hypotheses
  BY DEF Kept
<1> QED BY <1>1, SynthesizerAssumption, FS_Subset, FS_CardinalityType

\* max_supporting is at least one, no kept hypothesis has more support, and
\* one has exactly as much unless it is the floor of one.
LEMMA MostIsMost ==
  ASSUME NEW b \in Seq(Evidence)
  PROVE  /\ Most(b) \in Nat \ {0}
         /\ \A k \in Kept(b) : Cardinality(Supporting(b, k)) <= Most(b)
         /\ Most(b) = 1 \/ \E k \in Kept(b) : Most(b) = Cardinality(Supporting(b, k))
PROOF
<1> DEFINE counts == {1} \cup {Cardinality(Supporting(b, k)) : k \in Kept(b)}
<1>1. Len(b) + 1 \in Nat /\ 1 <= Len(b) + 1
  OBVIOUS
<1>2. counts \in SUBSET Nat /\ counts # {}
  BY SupportingIsFinite
<1>3. \A x \in counts : x <= Len(b) + 1
  BY <1>1, SupportingIsFinite
<1>4. Most(b) = Max(counts)
  BY DEF Most
<1>5. 1 \in counts
  OBVIOUS
<1>6. \A k \in Kept(b) : Cardinality(Supporting(b, k)) \in counts
  OBVIOUS
<1>7. \A x \in counts : x = 1 \/ \E k \in Kept(b) : x = Cardinality(Supporting(b, k))
  OBVIOUS
<1> HIDE DEF counts
<1>8. Max(counts) \in counts /\ \A x \in counts : x <= Max(counts)
  BY <1>1, <1>2, <1>3, MaxOfBounded
<1>9. Most(b) \in Nat /\ 1 <= Most(b)
  BY <1>2, <1>4, <1>5, <1>8
<1> QED BY <1>4, <1>6, <1>7, <1>8, <1>9

\* Every trust is between the default and the highest of the table, for names
\* in the table and for any other name.
LEMMA TrustIsBounded == \A name : TrustOf(name) \in DefaultTrust..95
PROOF
<1> SUFFICES ASSUME NEW name PROVE TrustOf(name) \in 60..95
  BY DEF DefaultTrust
<1>1. CASE name \in DOMAIN TrustTable
  <2>1. name \in {"triage", "deploy_correlation", "anomaly_window", "topology",
                  "vuln_sec", "memory"}
    BY <1>1 DEF TrustTable
  <2>2. TrustTable[name] \in 60..95
    BY <2>1 DEF TrustTable
  <2> QED BY <1>1, <2>2 DEF TrustOf
<1>2. CASE name \notin DOMAIN TrustTable
  BY <1>2 DEF TrustOf, DefaultTrust
<1> QED BY <1>1, <1>2

-----------------------------------------------------------------------------
(* The parts of a score *)

Support(b, k) == Cardinality(Supporting(b, k))
Conf(b, k)    == SumFunctionOnSet([i \in Supporting(b, k) |-> b[i].confidence],
                                  Supporting(b, k))
Trust(b, k)   == IF Supporting(b, k) = {} THEN DefaultTrust
                 ELSE SumFunctionOnSet([i \in Supporting(b, k) |-> TrustOf(b[i].specialist)],
                                       Supporting(b, k))
Share(b, k)   == IF Support(b, k) = 0 THEN 1 ELSE Support(b, k)
\* Four times the confidences and twice the trusts.
Quality(b, k) == 4 * Conf(b, k) + 2 * Trust(b, k)

\* The score of the model in terms of the parts: the three terms of _score
\* over the common denominator.
LEMMA ScoreParts ==
  ASSUME NEW b \in Seq(Evidence), NEW k
  PROVE  /\ Score(b, k).share = Share(b, k)
         /\ Score(b, k).weight = 400 * Support(b, k) * Share(b, k)
                                   + Most(b) * Quality(b, k)
PROOF
<1> DEFINE mine == Supporting(b, k)
<1>1. Max({1, Cardinality(mine)}) = Share(b, k)
  <2>1. Cardinality(mine) \in Nat
    BY SupportingIsFinite
  <2> HIDE DEF mine
  <2>2. {1, Cardinality(mine)} \in SUBSET Nat /\ Cardinality(mine) + 1 \in Nat
    BY <2>1
  <2>3. \A x \in {1, Cardinality(mine)} : x <= Cardinality(mine) + 1
    BY <2>1
  <2>4. /\ Max({1, Cardinality(mine)}) \in {1, Cardinality(mine)}
        /\ 1 <= Max({1, Cardinality(mine)})
        /\ Cardinality(mine) <= Max({1, Cardinality(mine)})
    BY <2>2, <2>3, MaxOfBounded
  <2> QED BY <2>1, <2>4 DEF Share, Support, mine
<1>2. SumFunction([i \in mine |-> b[i].confidence]) = Conf(b, k)
  BY DEF SumFunction, Conf
<1>3. SumFunction([i \in mine |-> TrustOf(b[i].specialist)])
        = SumFunctionOnSet([i \in mine |-> TrustOf(b[i].specialist)], mine)
  BY DEF SumFunction
<1> DEFINE trust == IF mine = {} THEN DefaultTrust
                    ELSE SumFunction([i \in mine |-> TrustOf(b[i].specialist)])
<1>4. trust = Trust(b, k)
  BY <1>3 DEF Trust
<1>5. Score(b, k) =
        [weight |-> 400 * Cardinality(mine) * Max({1, Cardinality(mine)})
                      + Most(b) * (4 * SumFunction([i \in mine |-> b[i].confidence])
                                     + 2 * trust),
         share  |-> Max({1, Cardinality(mine)})]
  BY DEF Score
<1>6. Cardinality(mine) = Support(b, k)
  BY DEF Support
<1> HIDE DEF mine, trust
<1> QED BY <1>1, <1>2, <1>4, <1>5, <1>6 DEF Quality

\* The parts are numbers, the denominator is positive, the trusts add up to at
\* least the default each, and without support only the default trust is left.
LEMMA PartsAreNumbers ==
  ASSUME NEW b \in Seq(Evidence), NEW k
  PROVE  /\ Support(b, k) \in Nat
         /\ Share(b, k) \in Nat \ {0}
         /\ Conf(b, k) \in Nat
         /\ Trust(b, k) \in Nat
         /\ DefaultTrust * Share(b, k) <= Trust(b, k)
         /\ Quality(b, k) \in Nat
         /\ Support(b, k) = 0 => Quality(b, k) = 2 * DefaultTrust
PROOF
<1> DEFINE mine == Supporting(b, k)
           f    == [i \in mine |-> b[i].confidence]
           h    == [i \in mine |-> TrustOf(b[i].specialist)]
<1>1. /\ mine \in SUBSET (1..Len(b)) /\ IsFiniteSet(mine)
      /\ Cardinality(mine) \in Nat
      /\ Cardinality(mine) = 0 <=> mine = {}
  BY SupportingIsFinite
<1>2. \A i \in mine : f[i] \in Nat
  <2>1. \A i \in 1..Len(b) : b[i] \in Evidence
    OBVIOUS
  <2>2. \A e \in Evidence : e.confidence \in Nat
    <3>1. \A e \in Evidence : e.confidence \in 0..100
      BY DEF Evidence
    <3>2. \A c \in 0..100 : c \in Nat
      OBVIOUS
    <3> QED BY <3>1, <3>2
  <2>3. \A i \in 1..Len(b) : b[i].confidence \in Nat
    BY <2>1, <2>2
  <2> HIDE DEF mine
  <2> QED BY <1>1, <2>3
<1>3. \A i \in mine : h[i] \in 60..95
  BY TrustIsBounded DEF DefaultTrust
<1>4. Conf(b, k) = SumFunctionOnSet(f, mine)
  BY DEF Conf
<1>5. Trust(b, k) = IF mine = {} THEN 60 ELSE SumFunctionOnSet(h, mine)
  BY DEF Trust, DefaultTrust
<1>6. Support(b, k) = Cardinality(mine)
  BY DEF Support
<1> HIDE DEF mine, f, h
<1>7. Conf(b, k) \in Nat
  BY <1>1, <1>2, <1>4, SumType
<1>8. SumFunctionOnSet(h, mine) \in Nat /\ 60 * Cardinality(mine) <= SumFunctionOnSet(h, mine)
  BY <1>1, <1>3, SumBounds
<1>9. SumFunctionOnSet(f, {}) = 0
  BY FS_EmptySet, SumEquation
<1>10. Share(b, k) \in Nat \ {0} /\ Trust(b, k) \in Nat /\ 60 * Share(b, k) <= Trust(b, k)
  BY <1>1, <1>5, <1>6, <1>8 DEF Share
<1>11. Quality(b, k) \in Nat
  BY <1>7, <1>10 DEF Quality
<1>12. Support(b, k) = 0 => Conf(b, k) = 0 /\ Trust(b, k) = 60
  BY <1>1, <1>4, <1>5, <1>6, <1>9
<1> QED BY <1>1, <1>6, <1>7, <1>10, <1>11, <1>12 DEF DefaultTrust, Quality

\* The sort key of two hypotheses compares their weights cross-multiplied with
\* their shares, then their keys.
LEMMA OutranksParts ==
  ASSUME NEW b \in Seq(Evidence), NEW j, NEW k
  PROVE  LET w(i) == 400 * Support(b, i) * Share(b, i) + Most(b) * Quality(b, i)
             x    == w(j) * Share(b, k)
             y    == w(k) * Share(b, j)
         IN  Outranks(b, j, k) <=> x > y \/ (x = y /\ KeyOrder[j] < KeyOrder[k])
PROOF
  BY ScoreParts DEF Outranks

\* The weight of a hypothesis is a number.
LEMMA WeightIsNumber ==
  ASSUME NEW b \in Seq(Evidence), NEW k
  PROVE  400 * Support(b, k) * Share(b, k) + Most(b) * Quality(b, k) \in Nat
PROOF
<1>1. \A m, n, p, q \in Nat : 400 * m * n + p * q \in Nat
  OBVIOUS
<1> QED BY <1>1, MostIsMost, PartsAreNumbers

-----------------------------------------------------------------------------
(* The order *)

\* Fractions with positive denominators, compared by cross-multiplication, are
\* transitively ordered, and ends that are equal make all three equal.
LEMMA FractionsAreOrdered ==
  ASSUME NEW u \in Nat, NEW v \in Nat, NEW w \in Nat,
         NEW p \in Nat \ {0}, NEW q \in Nat \ {0}, NEW r \in Nat \ {0},
         u * q >= v * p, v * r >= w * q
  PROVE  /\ u * r >= w * p
         /\ u * r = w * p => u * q = v * p /\ v * r = w * q
PROOF
<1>1. (u * r) * q = (u * q) * r
  OBVIOUS
<1>2. (w * p) * q = (w * q) * p
  OBVIOUS
<1>3. (v * p) * r = (v * r) * p
  OBVIOUS
<1>4. \A a, c \in Nat, d \in Nat \ {0} :
        /\ a >= c => a * d >= c * d
        /\ a > c => a * d > c * d
  OBVIOUS
<1>5. /\ u * r \in Nat /\ u * q \in Nat /\ v * p \in Nat /\ v * r \in Nat
      /\ w * p \in Nat /\ w * q \in Nat
  OBVIOUS
<1>6. (u * q) * r >= (v * p) * r /\ (v * r) * p >= (w * q) * p
  BY <1>4, <1>5
<1>7. (u * r) * q >= (w * p) * q
  BY <1>1, <1>2, <1>3, <1>5, <1>6
<1>8. u * r >= w * p
  <2> SUFFICES ASSUME w * p > u * r PROVE FALSE
    BY <1>5
  <2>1. (w * p) * q > (u * r) * q
    BY <1>4, <1>5
  <2> QED BY <1>5, <1>7, <2>1
<1>9. ASSUME u * r = w * p PROVE u * q = v * p /\ v * r = w * q
  <2>1. (u * q) * r = (w * q) * p
    BY <1>1, <1>2, <1>9
  <2>2. (u * q) * r = (v * p) * r /\ (v * r) * p = (w * q) * p
    BY <1>3, <1>5, <1>6, <2>1
  <2>3. ~(u * q > v * p)
    BY <1>4, <1>5, <2>2
  <2>4. ~(v * r > w * q)
    BY <1>4, <1>5, <2>2
  <2> QED BY <1>5, <2>3, <2>4
<1> QED BY <1>8, <1>9

\* The sort key is a strict total order on the hypotheses, for any bag: ties
\* of the score are always broken by the key.
LEMMA OutranksIsAnOrder ==
  ASSUME NEW b \in Seq(Evidence)
  PROVE  /\ \A k \in Hypotheses : ~Outranks(b, k, k)
         /\ \A i, j, k \in Hypotheses :
              Outranks(b, i, j) /\ Outranks(b, j, k) => Outranks(b, i, k)
         /\ \A j, k \in Hypotheses : j = k \/ Outranks(b, j, k) \/ Outranks(b, k, j)
PROOF
<1> DEFINE w(i) == 400 * Support(b, i) * Share(b, i) + Most(b) * Quality(b, i)
           s(i) == Share(b, i)
<1>1. \A j, k : Outranks(b, j, k) <=>
        \/ w(j) * s(k) > w(k) * s(j)
        \/ w(j) * s(k) = w(k) * s(j) /\ KeyOrder[j] < KeyOrder[k]
  BY OutranksParts
<1>2. \A i : w(i) \in Nat /\ s(i) \in Nat \ {0}
  BY WeightIsNumber, PartsAreNumbers
<1> HIDE DEF w, s
<1>3. \A j, k : w(j) * s(k) \in Nat
  <2>1. \A m, n \in Nat : m * n \in Nat
    OBVIOUS
  <2> QED BY <1>2, <2>1
<1>4. \A k \in Hypotheses : KeyOrder[k] \in Nat
  BY SynthesizerAssumption
<1>5. \A k \in Hypotheses : ~Outranks(b, k, k)
  BY <1>1, <1>3, <1>4
<1>6. ASSUME NEW i \in Hypotheses, NEW j \in Hypotheses, NEW k \in Hypotheses,
             Outranks(b, i, j), Outranks(b, j, k)
      PROVE  Outranks(b, i, k)
  <2>1. w(i) * s(j) >= w(j) * s(i) /\ w(j) * s(k) >= w(k) * s(j)
    BY <1>1, <1>3, <1>6
  <2>2. /\ w(i) * s(k) >= w(k) * s(i)
        /\ w(i) * s(k) = w(k) * s(i) =>
             w(i) * s(j) = w(j) * s(i) /\ w(j) * s(k) = w(k) * s(j)
    <3>1. PICK u \in Nat, v \in Nat, x \in Nat : u = w(i) /\ v = w(j) /\ x = w(k)
      BY <1>2
    <3>2. PICK p \in Nat \ {0}, q \in Nat \ {0}, r \in Nat \ {0} :
            p = s(i) /\ q = s(j) /\ r = s(k)
      BY <1>2
    <3>3. u * q >= v * p /\ v * r >= x * q
      BY <2>1, <3>1, <3>2
    <3>4. /\ u * r >= x * p
          /\ u * r = x * p => u * q = v * p /\ v * r = x * q
      BY ONLY <3>3, FractionsAreOrdered
    <3> QED BY <3>1, <3>2, <3>4
  <2>3. CASE w(i) * s(k) = w(k) * s(i)
    <3>1. KeyOrder[i] < KeyOrder[j] /\ KeyOrder[j] < KeyOrder[k]
      BY <1>1, <1>3, <1>6, <2>2, <2>3
    <3> QED BY <1>1, <1>4, <2>3, <3>1
  <2>4. CASE w(i) * s(k) # w(k) * s(i)
    BY <1>1, <1>3, <2>2, <2>4
  <2> QED BY <2>3, <2>4
<1>7. ASSUME NEW j \in Hypotheses, NEW k \in Hypotheses, j # k
      PROVE  Outranks(b, j, k) \/ Outranks(b, k, j)
  <2>1. KeyOrder[j] < KeyOrder[k] \/ KeyOrder[k] < KeyOrder[j]
    BY <1>4, <1>7, SynthesizerAssumption
  <2>2. \/ w(j) * s(k) > w(k) * s(j) \/ w(k) * s(j) > w(j) * s(k)
        \/ w(j) * s(k) = w(k) * s(j)
    BY <1>3
  <2> QED BY <1>1, <2>1, <2>2
<1> QED BY <1>5, <1>6, <1>7

\* The places of the sorted list are taken once each: counting those that
\* outrank a hypothesis numbers the kept ones from one to their count, in
\* their order.
LEMMA RanksOfKept ==
  ASSUME NEW b \in Seq(Evidence)
  PROVE  /\ \A k \in Kept(b) : Rank(b, k) \in 1..Cardinality(Kept(b))
         /\ \A j, k \in Kept(b) : Outranks(b, j, k) <=> Rank(b, j) < Rank(b, k)
         /\ \A r \in 1..Cardinality(Kept(b)) : \E k \in Kept(b) : Rank(b, k) = r
PROOF
<1> DEFINE S     == Kept(b)
           above == [k \in S |-> {j \in S : Outranks(b, j, k)}]
           rank  == [k \in S |-> 1 + Cardinality(above[k])]
<1>1. S \in SUBSET Hypotheses /\ IsFiniteSet(S)
  BY KeptIsFinite
<1>2. above \in [S -> SUBSET S] /\ \A j, k \in S : j \in above[k] <=> Outranks(b, j, k)
  OBVIOUS
<1>3. \A k \in S : rank[k] = Rank(b, k)
  BY DEF Rank
<1>4. /\ \A k \in S : k \notin above[k]
      /\ \A i, j, k \in S : i \in above[j] /\ j \in above[k] => i \in above[k]
      /\ \A j, k \in S : j = k \/ j \in above[k] \/ k \in above[j]
  <2> HIDE DEF S, above
  <2> QED BY <1>1, <1>2, OutranksIsAnOrder
<1>5. rank = [k \in S |-> 1 + Cardinality(above[k])]
  OBVIOUS
<1> HIDE DEF S, above, rank
<1>6. /\ \A k \in S : rank[k] \in 1..Cardinality(S)
      /\ \A j, k \in S : j \in above[k] <=> rank[j] < rank[k]
      /\ \A r \in 1..Cardinality(S) : \E k \in S : rank[k] = r
  BY <1>1, <1>2, <1>4, <1>5, RanksAreAPermutation
<1> QED BY <1>2, <1>3, <1>6 DEF S

-----------------------------------------------------------------------------
(* The list of a brief *)

\* The list of a brief holds a kept hypothesis at each place, the one of that
\* rank, and is as long as the kept ones and the cap allow.
LEMMA RankedIsCapped ==
  ASSUME NEW b \in Seq(Evidence)
  PROVE  LET n == Cardinality(Kept(b))
             m == Len(Ranked(b))
         IN  /\ n \in Nat /\ m \in Nat /\ m <= n /\ m <= MaxHypotheses
             /\ m = n \/ m = MaxHypotheses
             /\ DOMAIN Ranked(b) = 1..m
             /\ \A r \in 1..m : /\ Ranked(b)[r].key \in Kept(b)
                                /\ Rank(b, Ranked(b)[r].key) = r
PROOF
<1> DEFINE n == Cardinality(Kept(b))
           l == Min({n, MaxHypotheses})
           list == [r \in 1..l |->
                     [key |-> CHOOSE k \in Kept(b) : Rank(b, k) = r, rank |-> r]]
<1>1. n \in Nat /\ MaxHypotheses \in Nat
  BY KeptIsFinite, SynthesizerAssumption
<1>2. \A r \in 1..n : \E k \in Kept(b) : Rank(b, k) = r
  BY RanksOfKept
<1>3. Ranked(b) = list
  BY DEF Ranked
<1> HIDE DEF n
<1>4. l \in {n, MaxHypotheses} /\ l <= n /\ l <= MaxHypotheses
  <2>1. \E x \in {n, MaxHypotheses} : \A y \in {n, MaxHypotheses} : x <= y
    BY <1>1
  <2> QED BY <2>1 DEF Min
<1> HIDE DEF l
<1>5. Len(list) = l /\ DOMAIN list = 1..l
  <2>1. l \in Nat
    BY <1>1, <1>4
  <2> QED BY <2>1
<1>6. ASSUME NEW r \in 1..l
      PROVE  list[r].key \in Kept(b) /\ Rank(b, list[r].key) = r
  <2>1. r \in 1..n
    BY <1>1, <1>4
  <2>2. list[r].key = CHOOSE k \in Kept(b) : Rank(b, k) = r
    OBVIOUS
  <2>3. \E k \in Kept(b) : Rank(b, k) = r
    BY <1>2, <2>1
  <2> QED BY <2>2, <2>3
<1> HIDE DEF list
<1> QED BY <1>1, <1>3, <1>4, <1>5, <1>6 DEF n

\* The list of a brief is sorted, holds kept hypotheses only, and is outranked
\* by nothing it leaves out: sort and truncation of compose.
LEMMA RankedIsSorted ==
  ASSUME NEW b \in Seq(Evidence)
  PROVE  /\ \A i \in 2..Len(Ranked(b)) :
              Outranks(b, Ranked(b)[i - 1].key, Ranked(b)[i].key)
         /\ KeysOf(Ranked(b)) \subseteq Kept(b)
         /\ \A k \in Kept(b) \ KeysOf(Ranked(b)) :
              /\ Len(Ranked(b)) = MaxHypotheses
              /\ \A i \in DOMAIN Ranked(b) : Outranks(b, Ranked(b)[i].key, k)
PROOF
<1> DEFINE list == Ranked(b)
           n    == Cardinality(Kept(b))
           m    == Len(list)
<1>1. /\ n \in Nat /\ m \in Nat /\ m <= n /\ m <= MaxHypotheses
      /\ m = n \/ m = MaxHypotheses
      /\ DOMAIN list = 1..m
      /\ \A r \in 1..m : list[r].key \in Kept(b) /\ Rank(b, list[r].key) = r
  BY RankedIsCapped
<1>2. /\ \A k \in Kept(b) : Rank(b, k) \in 1..n
      /\ \A j, k \in Kept(b) : Outranks(b, j, k) <=> Rank(b, j) < Rank(b, k)
      /\ \A j, k \in Hypotheses : j = k \/ Outranks(b, j, k) \/ Outranks(b, k, j)
  BY RanksOfKept, OutranksIsAnOrder
<1>3. Kept(b) \subseteq Hypotheses
  BY DEF Kept
<1>4. KeysOf(list) = {list[i].key : i \in 1..m}
  BY <1>1 DEF KeysOf
<1> HIDE DEF list, n, m
<1>5. ASSUME NEW i \in 2..m PROVE Outranks(b, list[i - 1].key, list[i].key)
  <2>1. i \in 1..m /\ i - 1 \in 1..m /\ i - 1 < i
    BY <1>1
  <2> QED BY <1>1, <1>2, <2>1
<1>6. KeysOf(list) \subseteq Kept(b)
  BY <1>1, <1>4
<1>7. ASSUME NEW k \in Kept(b) \ KeysOf(list)
      PROVE  m = MaxHypotheses /\ \A i \in DOMAIN list : Outranks(b, list[i].key, k)
  <2>1. \A i \in 1..m : list[i].key # k
    BY <1>4, <1>7
  <2>2. Rank(b, k) \in 1..n
    BY <1>2
  <2>3. Rank(b, k) \notin 1..m
    <3> SUFFICES ASSUME Rank(b, k) \in 1..m PROVE FALSE
      OBVIOUS
    <3> DEFINE j == list[Rank(b, k)].key
    <3>1. j \in Kept(b) /\ Rank(b, j) = Rank(b, k) /\ j # k
      BY <1>1, <2>1
    <3> HIDE DEF j
    <3>2. Outranks(b, j, k) \/ Outranks(b, k, j)
      BY <1>2, <1>3, <3>1
    <3>3. \A x \in 1..n : ~(x < x)
      BY <1>1
    <3> QED BY <1>2, <2>2, <3>1, <3>2, <3>3
  <2>4. m < Rank(b, k)
    BY <1>1, <2>2, <2>3
  <2>5. m = MaxHypotheses
    BY <1>1, <2>2, <2>4
  <2>6. ASSUME NEW i \in 1..m PROVE Outranks(b, list[i].key, k)
    <3>1. list[i].key \in Kept(b) /\ Rank(b, list[i].key) = i
      BY <1>1
    <3>2. i < Rank(b, k)
      BY <1>1, <2>2, <2>4
    <3> QED BY <1>2, <3>1, <3>2
  <2> QED BY <1>1, <2>5, <2>6
<1>8. list = Ranked(b) /\ m = Len(Ranked(b))
  BY DEF list, m
<1> QED BY <1>5, <1>6, <1>7, <1>8

\* Within the cap, the list of a brief holds every kept hypothesis.
LEMMA RankedIsComplete ==
  ASSUME NEW b \in Seq(Evidence), Cardinality(Kept(b)) <= MaxHypotheses
  PROVE  KeysOf(Ranked(b)) = Kept(b)
PROOF
<1> DEFINE n == Cardinality(Kept(b))
           m == Len(Ranked(b))
<1>1. /\ n \in Nat /\ m \in Nat /\ m <= n /\ m <= MaxHypotheses
      /\ m = n \/ m = MaxHypotheses
      /\ DOMAIN Ranked(b) = 1..m
      /\ \A r \in 1..m : Ranked(b)[r].key \in Kept(b) /\ Rank(b, Ranked(b)[r].key) = r
  BY RankedIsCapped
<1>2. /\ KeysOf(Ranked(b)) \subseteq Kept(b)
      /\ \A k \in Kept(b) \ KeysOf(Ranked(b)) :
           \A i \in DOMAIN Ranked(b) : Outranks(b, Ranked(b)[i].key, k)
  BY RankedIsSorted
<1>3. /\ \A k \in Kept(b) : Rank(b, k) \in 1..n
      /\ \A j, k \in Kept(b) : Outranks(b, j, k) <=> Rank(b, j) < Rank(b, k)
  BY RanksOfKept
<1>4. MaxHypotheses \in Nat /\ n <= MaxHypotheses
  BY SynthesizerAssumption
<1> HIDE DEF n, m
<1>5. m = n
  BY <1>1, <1>4
<1>6. ASSUME NEW k \in Kept(b) \ KeysOf(Ranked(b)) PROVE FALSE
  <2> DEFINE j == Ranked(b)[Rank(b, k)].key
  <2>1. Rank(b, k) \in 1..m
    BY <1>3, <1>5
  <2>2. j \in Kept(b) /\ Rank(b, j) = Rank(b, k) /\ Outranks(b, j, k)
    BY <1>1, <1>2, <2>1
  <2>3. Rank(b, j) < Rank(b, k)
    BY <1>3, <2>2
  <2>4. \A x \in 1..m : ~(x < x)
    BY <1>1
  <2> QED BY <2>1, <2>2, <2>3, <2>4
<1> QED BY <1>2, <1>6

-----------------------------------------------------------------------------
(* Support beats its absence *)

\* Support beats its absence: with one supporter the support term is positive
\* and the mean trust is at least the default that the unsupported one gets.
LEMMA SupportOutranks ==
  ASSUME NEW b \in Seq(Evidence), NEW j, NEW k,
         Supporting(b, j) # {}, Supporting(b, k) = {}
  PROVE  Outranks(b, j, k)
PROOF
<1> DEFINE n == Support(b, j)
           q == Quality(b, j)
           m == Most(b)
<1>1. n \in Nat \ {0} /\ Support(b, k) = 0
  BY SupportingIsFinite DEF Support
<1>2. /\ Share(b, j) = n /\ Share(b, k) = 1
      /\ q \in Nat /\ 120 * n <= q /\ Quality(b, k) = 120
  <2>1. Share(b, j) = n /\ Share(b, k) = 1
    BY <1>1 DEF Share
  <2>2. Conf(b, j) \in Nat /\ Trust(b, j) \in Nat /\ 60 * n <= Trust(b, j)
    BY <2>1, PartsAreNumbers DEF DefaultTrust
  <2>3. q = 4 * Conf(b, j) + 2 * Trust(b, j)
    BY DEF Quality
  <2>4. Quality(b, k) = 120
    BY <1>1, PartsAreNumbers DEF DefaultTrust
  <2> HIDE DEF n, q
  <2> QED BY <1>1, <2>1, <2>2, <2>3, <2>4
<1>3. m \in Nat
  BY MostIsMost
<1>4. (400 * n * n + m * q) * 1 > (400 * 0 * 1 + m * 120) * n =>
        Outranks(b, j, k)
  BY <1>1, <1>2, OutranksParts
<1> HIDE DEF n, q, m
<1>5. \A i \in Nat, x, y \in Nat : x <= y => i * x <= i * y
  OBVIOUS
<1>6. m * (120 * n) <= m * q
  BY <1>1, <1>2, <1>3, <1>5
<1>7. (400 * 0 * 1 + m * 120) * n = m * (120 * n)
  BY <1>1, <1>3
<1>8. 400 * n * n > 0
  BY <1>1
<1>9. m * q \in Nat /\ m * (120 * n) \in Nat
  BY <1>1, <1>2, <1>3
<1> QED BY <1>1, <1>4, <1>6, <1>7, <1>8, <1>9

-----------------------------------------------------------------------------
(* One more piece of support *)

\* The arithmetic of one more supporter: if the quality grows at least in
\* proportion to the count, and the count of the most supported grows only
\* when this hypothesis was the most supported, then a lead is kept, strictly.
LEMMA ScoreRises ==
  ASSUME NEW n \in Nat, NEW s \in Nat \ {0}, s = IF n = 0 THEN 1 ELSE n,
         NEW m \in Nat, NEW t \in Nat \ {0}, t = IF m = 0 THEN 1 ELSE m,
         NEW a \in Nat, NEW d \in Nat, d * s >= a * (n + 1), NEW c \in Nat,
         m = 0 => c = 120,
         NEW most \in Nat \ {0}, NEW next \in Nat,
         next = most \/ (next = most + 1 /\ n = most),
         (400 * n * s + most * a) * t >= (400 * m * t + most * c) * s
  PROVE  (400 * (n + 1) * (n + 1) + next * d) * t > (400 * m * t + next * c) * (n + 1)
PROOF
<1> DEFINE r == n + 1
<1>1. r \in Nat \ {0} /\ r > n
  OBVIOUS
<1>2. \A i \in Nat \ {0}, x, y \in Int : /\ x >= y => x * i >= y * i
                                         /\ x > y => x * i > y * i
                                         /\ x * i > y * i => x > y
                                         /\ x * i >= y * i => x >= y
  OBVIOUS
<1> HIDE DEF r
<1>3. CASE next = most
  <2> DEFINE x == 400 * n * r * t + most * d * t
             y == (400 * m * t + most * c) * r
  <2>1. x \in Int /\ y \in Int
    BY <1>1
  <2>2. ((400 * n * s + most * a) * t) * r >= ((400 * m * t + most * c) * s) * r
    BY <1>1, <1>2
  <2>3. (d * s) * (most * t) >= (a * r) * (most * t)
    <3>1. most * t \in Nat \ {0} /\ d * s \in Int /\ a * r \in Int
      BY <1>1
    <3>2. d * s >= a * r
      BY DEF r
    <3> QED BY ONLY <1>2, <3>1, <3>2
  <2>4. ((400 * n * s + most * a) * t) * r = 400 * n * s * t * r + (a * r) * (most * t)
    BY <1>1
  <2>5. x * s = 400 * n * s * t * r + (d * s) * (most * t)
    BY <1>1
  <2>6. y * s = ((400 * m * t + most * c) * s) * r
    BY <1>1
  <2>7. /\ 400 * n * s * t * r \in Int /\ (a * r) * (most * t) \in Int
        /\ (d * s) * (most * t) \in Int
        /\ ((400 * m * t + most * c) * s) * r \in Int
    BY <1>1
  <2>8. x * s >= y * s
    BY ONLY <2>2, <2>3, <2>4, <2>5, <2>6, <2>7
  <2>9. x >= y
    <3> HIDE DEF x, y
    <3> QED BY <1>2, <2>1, <2>8
  <2>10. (400 * r * r + next * d) * t > x
    <3>1. (400 * r * r + next * d) * t = 400 * r * r * t + most * d * t
      BY <1>1, <1>3
    <3>2. r * t \in Nat \ {0} /\ 400 * r \in Int /\ 400 * n \in Int /\ 400 * r > 400 * n
      BY <1>1
    <3>3. (400 * r) * (r * t) > (400 * n) * (r * t)
      BY ONLY <1>2, <3>2
    <3>4. (400 * r) * (r * t) = 400 * r * r * t /\ (400 * n) * (r * t) = 400 * n * r * t
      BY <1>1
    <3>5. /\ 400 * r * r * t \in Int /\ 400 * n * r * t \in Int /\ most * d * t \in Int
      BY <1>1
    <3> QED BY ONLY <3>1, <3>3, <3>4, <3>5
  <2>11. (400 * r * r + next * d) * t \in Int
    BY <1>1
  <2> HIDE DEF x
  <2>12. (400 * r * r + next * d) * t > y
    <3> HIDE DEF y
    <3> QED BY ONLY <2>1, <2>9, <2>10, <2>11
  <2> QED BY <1>3, <2>12 DEF r
<1>4. CASE next = most + 1 /\ n = most
  <2>1. s = n /\ n \in Nat \ {0} /\ next = r
    BY <1>4 DEF r
  <2> DEFINE x == 400 * r * t + d * t
             y == 400 * m * t + r * c
  <2>2. x \in Int /\ y \in Int
    BY <1>1
  <2>3. x > y
    <3>1. CASE m = 0
      <4>1. t = 1 /\ c = 120
        BY <3>1
      <4> QED BY <1>1, <3>1, <4>1
    <3>2. CASE m # 0
      <4>1. t = m
        BY <3>2
      <4>2. (400 * n * m + a * m) * n >= (400 * m * m + n * c) * n
        <5>1. (400 * n * n + n * a) * m >= (400 * m * m + n * c) * n
          BY <1>4, <2>1, <4>1
        <5>2. (400 * n * n + n * a) * m = (400 * n * m + a * m) * n
          OBVIOUS
        <5> QED BY <5>1, <5>2
      <4>3. 400 * n * m + a * m >= 400 * m * m + n * c
        <5>1. 400 * n * m + a * m \in Int /\ 400 * m * m + n * c \in Int
          OBVIOUS
        <5> QED BY ONLY <1>2, <2>1, <4>2, <5>1
      <4>4. (400 * n * m + a * m) * r >= (400 * m * m + n * c) * r
        <5>1. 400 * n * m + a * m \in Int /\ 400 * m * m + n * c \in Int
          OBVIOUS
        <5> QED BY ONLY <1>1, <1>2, <4>3, <5>1
      <4>5. (d * n) * m >= (a * r) * m
        <5>1. d * n >= a * r
          BY <2>1 DEF r
        <5>2. d * n \in Int /\ a * r \in Int /\ m \in Nat \ {0}
          BY <1>1, <3>2
        <5> QED BY ONLY <1>2, <5>1, <5>2
      <4>6. (400 * n * m + a * m) * r = 400 * n * m * r + (a * r) * m
        BY <1>1
      <4>7. (400 * m * m + n * c) * r = 400 * m * m * n + 400 * m * m + n * r * c
        <5>1. (400 * m * m + n * c) * r = (400 * m * m) * r + n * r * c
          BY <1>1
        <5>2. (400 * m * m) * r = 400 * m * m * n + 400 * m * m
          BY DEF r
        <5> QED BY <5>1, <5>2
      <4>8. x * n = 400 * n * m * r + (d * n) * m
        BY <1>1, <4>1
      <4>9. y * n = 400 * m * m * n + n * r * c
        BY <1>1, <4>1
      <4>10. 400 * m * m > 0
        BY <3>2
      <4>11. /\ 400 * n * m * r \in Int /\ (a * r) * m \in Int /\ (d * n) * m \in Int
             /\ 400 * m * m * n \in Int /\ 400 * m * m \in Int /\ n * r * c \in Int
        BY <1>1
      <4>12. x * n > y * n
        BY ONLY <4>4, <4>5, <4>6, <4>7, <4>8, <4>9, <4>10, <4>11
      <4> HIDE DEF x, y
      <4> QED BY <1>2, <2>1, <2>2, <4>12
    <3> QED BY <3>1, <3>2
  <2>4. x * r > y * r
    <3> HIDE DEF x, y
    <3> QED BY <1>1, <1>2, <2>2, <2>3
  <2>5. x * r = (400 * r * r + next * d) * t
    BY <1>1, <2>1
  <2>6. y * r = (400 * m * t + next * c) * r
    BY <1>1, <2>1
  <2> HIDE DEF x, y
  <2> QED BY <2>4, <2>5, <2>6 DEF r
<1> QED BY <1>3, <1>4

\* What one more supporting observation about a kept hypothesis changes in the
\* bag: one place more supports it, every other hypothesis keeps its places,
\* and the same ones clear the floor.
LEMMA OneMoreSupporter ==
  ASSUME NEW b \in Seq(Evidence), NEW e \in Evidence, e.stance = "supports"
  PROVE  LET B == Append(b, e)
         IN  /\ B \in Seq(Evidence)
             /\ Supporting(B, e.key) = Supporting(b, e.key) \cup {Len(b) + 1}
             /\ \A k : k # e.key => Supporting(B, k) = Supporting(b, k)
             /\ e.key \in Kept(b) => Kept(B) = Kept(b)
             /\ B[Len(b) + 1] = e /\ \A i \in 1..Len(b) : B[i] = b[i]
PROOF
<1> DEFINE B == Append(b, e)
           n == Len(b)
<1>1. n \in Nat /\ B \in Seq(Evidence)
  OBVIOUS
<1>2. DOMAIN b = 1..n /\ DOMAIN B = 1..(n + 1)
  OBVIOUS
<1>3. B[n + 1] = e /\ \A i \in 1..n : B[i] = b[i]
  OBVIOUS
<1> HIDE DEF B, n
<1>4. 1..(n + 1) = (1..n) \cup {n + 1} /\ n + 1 \notin 1..n
  BY <1>1
<1>5. Supporting(B, e.key) = Supporting(b, e.key) \cup {n + 1}
  BY <1>2, <1>3, <1>4 DEF Supporting
<1>6. ASSUME NEW k, k # e.key PROVE Supporting(B, k) = Supporting(b, k)
  BY <1>2, <1>3, <1>4, <1>6 DEF Supporting
<1>7. ASSUME e.key \in Kept(b) PROVE Kept(B) = Kept(b)
  <2>1. \A k \in Hypotheses : Clears(b, k) => Clears(B, k)
    BY <1>2, <1>3, <1>4 DEF Clears
  <2>2. \A k \in Hypotheses : k # e.key /\ Clears(B, k) => Clears(b, k)
    BY <1>2, <1>3, <1>4 DEF Clears
  <2> QED BY <1>7, <2>1, <2>2 DEF Kept
<1> QED BY <1>1, <1>3, <1>5, <1>6, <1>7 DEF B, n

\* The parts of every other hypothesis are the same after the observation.
LEMMA OthersKeepTheirParts ==
  ASSUME NEW b \in Seq(Evidence), NEW e \in Evidence, e.stance = "supports",
         NEW k, k # e.key
  PROVE  /\ Support(Append(b, e), k) = Support(b, k)
         /\ Share(Append(b, e), k) = Share(b, k)
         /\ Quality(Append(b, e), k) = Quality(b, k)
PROOF
<1> DEFINE B    == Append(b, e)
           mine == Supporting(b, k)
<1>1. Supporting(B, k) = mine /\ \A i \in 1..Len(b) : B[i] = b[i]
  BY OneMoreSupporter
<1>2. mine \in SUBSET (1..Len(b))
  BY SupportingIsFinite
<1> HIDE DEF B, mine
<1>3. Support(B, k) = Support(b, k)
  BY <1>1 DEF Support, mine
<1>4. [i \in mine |-> B[i].confidence] = [i \in mine |-> b[i].confidence]
  BY <1>1, <1>2
<1>5. [i \in mine |-> TrustOf(B[i].specialist)] = [i \in mine |-> TrustOf(b[i].specialist)]
  BY <1>1, <1>2
<1>6. Conf(B, k) = Conf(b, k)
  BY <1>1, <1>4 DEF Conf, mine
<1>7. Trust(B, k) = Trust(b, k)
  BY <1>1, <1>5 DEF Trust, mine
<1> QED BY <1>3, <1>6, <1>7 DEF Share, Quality, B

\* What a sum over the places of support becomes when a place is added whose
\* value is at least that of each of the others.
LEMMA SumOfOneMore ==
  ASSUME NEW n \in Nat, NEW S \in SUBSET (1..n), IsFiniteSet(S),
         NEW f, \A i \in S : f[i] \in Nat, NEW h, \A i \in S : h[i] = f[i],
         h[n + 1] \in 0..100, \A i \in S : f[i] <= h[n + 1]
  PROVE  /\ SumFunctionOnSet(h, S \cup {n + 1}) = SumFunctionOnSet(f, S) + h[n + 1]
         /\ SumFunctionOnSet(f, S) \in Nat
         /\ SumFunctionOnSet(f, S) <= h[n + 1] * Cardinality(S)
PROOF
<1> DEFINE T == S \cup {n + 1}
<1>1. n + 1 \notin S
  <2>1. n + 1 \notin 1..n
    OBVIOUS
  <2> QED BY <2>1
<1>2. IsFiniteSet(T) /\ n + 1 \in T /\ T \ {n + 1} = S
  BY <1>1, FS_AddElement
<1>3. h[n + 1] \in Nat
  <2>1. \A c \in 0..100 : c \in Nat
    OBVIOUS
  <2> QED BY <2>1
<1>4. \A i \in T : h[i] \in Nat
  BY <1>3
<1> HIDE DEF T
<1>5. SumFunctionOnSet(h, T) = h[n + 1] + SumFunctionOnSet(h, T \ {n + 1})
  BY <1>2, <1>4, SumTakeOut
<1>6. SumFunctionOnSet(h, S) = SumFunctionOnSet(f, S)
  BY SumCongruent
<1>7. \A i \in S : f[i] \in 0..h[n + 1]
  BY <1>3
<1>8. /\ SumFunctionOnSet(f, S) \in Nat
      /\ SumFunctionOnSet(f, S) <= h[n + 1] * Cardinality(S)
  <2>1. 0 \in Nat
    OBVIOUS
  <2> QED BY <1>3, <1>7, <2>1, SumBounds
<1>9. SumFunctionOnSet(h, T) = SumFunctionOnSet(f, S) + h[n + 1]
  <2>1. SumFunctionOnSet(h, T) = h[n + 1] + SumFunctionOnSet(f, S)
    BY <1>2, <1>5, <1>6
  <2> QED BY <1>3, <1>8, <2>1
<1> QED BY <1>8, <1>9 DEF T

\* The quality of a hypothesis grows at least in proportion to its count when
\* the new supporter is at least as confident and as trusted as the earlier
\* ones.
LEMMA QualityRises ==
  ASSUME NEW b \in Seq(Evidence), NEW e \in Evidence, e.stance = "supports",
         \A i \in Supporting(b, e.key) :
           /\ e.confidence >= b[i].confidence
           /\ TrustOf(e.specialist) >= TrustOf(b[i].specialist)
  PROVE  LET n == Support(b, e.key)
         IN  /\ Support(Append(b, e), e.key) = n + 1
             /\ Share(Append(b, e), e.key) = n + 1
             /\ Quality(Append(b, e), e.key) * Share(b, e.key)
                  >= Quality(b, e.key) * (n + 1)
PROOF
<1> DEFINE B  == Append(b, e)
           k  == e.key
           S  == Supporting(b, k)
           l  == Len(b)
           T  == S \cup {l + 1}
           n  == Cardinality(S)
           fc == [i \in S |-> b[i].confidence]
           hc == [i \in T |-> B[i].confidence]
           ft == [i \in S |-> TrustOf(b[i].specialist)]
           ht == [i \in T |-> TrustOf(B[i].specialist)]
           c  == e.confidence
           t  == TrustOf(e.specialist)
<1>1. /\ Supporting(B, k) = T /\ B[l + 1] = e
      /\ \A i \in 1..l : B[i] = b[i]
  BY OneMoreSupporter
<1>2. /\ S \in SUBSET (1..l) /\ IsFiniteSet(S) /\ n \in Nat /\ l \in Nat
      /\ n = 0 <=> S = {}
  BY SupportingIsFinite
<1>3. c \in 0..100
  BY DEF Evidence
<1>4. t \in 60..95 /\ \A i \in S : ft[i] \in 60..95
  BY TrustIsBounded DEF DefaultTrust
<1>5. \A i \in S : fc[i] \in Nat
  <2>1. \A i \in 1..l : b[i] \in Evidence
    OBVIOUS
  <2>2. \A x \in Evidence : x.confidence \in 0..100
    BY DEF Evidence
  <2>3. \A x \in 0..100 : x \in Nat
    OBVIOUS
  <2> HIDE DEF S, l
  <2> QED BY <1>2, <2>1, <2>2, <2>3
<1>6. (\A i \in S : fc[i] <= c) /\ (\A i \in S : ft[i] <= t)
  <2>1. \A i \in S : b[i].confidence <= c /\ TrustOf(b[i].specialist) <= t
    <3>1. \A x, y : x >= y <=> y <= x
      OBVIOUS
    <3> QED BY <3>1
  <2> HIDE DEF S
  <2> QED BY <2>1
<1> HIDE DEF B, k, S, l, n, c, t
<1>7. hc[l + 1] = c /\ \A i \in S : hc[i] = fc[i]
  BY <1>1, <1>2 DEF c
<1>8. ht[l + 1] = t /\ \A i \in S : ht[i] = ft[i]
  BY <1>1, <1>2 DEF t
<1>9. /\ Conf(B, k) = SumFunctionOnSet(hc, T)
      /\ Conf(b, k) = SumFunctionOnSet(fc, S)
  BY <1>1 DEF Conf, S
<1>10. /\ Trust(B, k) = SumFunctionOnSet(ht, T)
       /\ Trust(b, k) = IF S = {} THEN 60 ELSE SumFunctionOnSet(ft, S)
  <2>1. T # {}
    OBVIOUS
  <2> QED BY <1>1, <2>1 DEF Trust, S, DefaultTrust
<1>11. Cardinality(T) = n + 1
  <2>1. \A x \in 1..l : x # l + 1
    BY <1>2
  <2>2. l + 1 \notin S
    BY <1>2, <2>1
  <2> QED BY <1>2, <2>2, FS_AddElement DEF n
<1> HIDE DEF fc, hc, ft, ht
<1>12. /\ Conf(B, k) = Conf(b, k) + c
       /\ Conf(b, k) \in Nat /\ Conf(b, k) <= c * n
  <2>1. hc[l + 1] \in 0..100 /\ \A i \in S : fc[i] <= hc[l + 1]
    BY <1>3, <1>6, <1>7
  <2>2. /\ SumFunctionOnSet(hc, S \cup {l + 1}) = SumFunctionOnSet(fc, S) + hc[l + 1]
        /\ SumFunctionOnSet(fc, S) \in Nat
        /\ SumFunctionOnSet(fc, S) <= hc[l + 1] * Cardinality(S)
    BY <1>2, <1>5, <1>7, <2>1, SumOfOneMore
  <2> QED BY <1>7, <1>9, <2>2 DEF n
<1>13. /\ SumFunctionOnSet(ht, T) = SumFunctionOnSet(ft, S) + t
       /\ SumFunctionOnSet(ft, S) \in Nat /\ SumFunctionOnSet(ft, S) <= t * n
  <2>1. \A x \in 60..95 : x \in 0..100 /\ x \in Nat
    OBVIOUS
  <2>2. /\ ht[l + 1] \in 0..100
        /\ \A i \in S : ft[i] <= ht[l + 1]
        /\ \A i \in S : ft[i] \in Nat
    BY <1>4, <1>6, <1>8, <2>1
  <2>3. /\ SumFunctionOnSet(ht, S \cup {l + 1}) = SumFunctionOnSet(ft, S) + ht[l + 1]
        /\ SumFunctionOnSet(ft, S) \in Nat
        /\ SumFunctionOnSet(ft, S) <= ht[l + 1] * Cardinality(S)
    BY <1>2, <1>8, <2>2, SumOfOneMore
  <2> QED BY <1>8, <2>3 DEF n
<1>14. Support(b, k) = n /\ Support(B, k) = n + 1 /\ Share(B, k) = n + 1
  <2>1. n + 1 # 0
    BY <1>2
  <2> HIDE DEF T
  <2> QED BY <1>1, <1>11, <2>1 DEF Support, Share, S, n
<1>15. Quality(B, k) * Share(b, k) >= Quality(b, k) * (n + 1)
  <2>1. c \in Nat /\ t \in Nat /\ t >= 60
    BY <1>3, <1>4
  <2>2. CASE n = 0
    <3>1. Share(b, k) = 1 /\ Quality(b, k) = 120
      BY <1>14, <2>2, PartsAreNumbers DEF Share, DefaultTrust
    <3>2. S = {} /\ SumFunctionOnSet(ft, S) = 0
      <4>1. SumFunctionOnSet(ft, {}) = 0
        BY FS_EmptySet, SumEquation
      <4> QED BY <1>2, <2>2, <4>1
    <3>3. Quality(B, k) = 4 * (Conf(b, k) + c) + 2 * t
      BY <1>10, <1>12, <1>13, <2>1, <3>2 DEF Quality
    <3> QED BY <1>12, <2>1, <2>2, <3>1, <3>3
  <2>3. CASE n # 0
    <3> DEFINE x == Conf(b, k)
               y == SumFunctionOnSet(ft, S)
    <3>1. Share(b, k) = n /\ Trust(b, k) = y
      BY <1>2, <1>10, <1>14, <2>3 DEF Share
    <3>2. Quality(b, k) = 4 * x + 2 * y
      BY <3>1 DEF Quality
    <3>3. Quality(B, k) = 4 * (x + c) + 2 * (y + t)
      BY <1>10, <1>12, <1>13 DEF Quality
    <3>4. x \in Nat /\ y \in Nat /\ x <= c * n /\ y <= t * n
      BY <1>12, <1>13
    <3> HIDE DEF x, y
    <3>5. (4 * (x + c) + 2 * (y + t)) * n = (4 * x + 2 * y) * n + 4 * (c * n) + 2 * (t * n)
      BY <1>2, <2>1, <3>4
    <3>6. (4 * x + 2 * y) * (n + 1) = (4 * x + 2 * y) * n + 4 * x + 2 * y
      BY <1>2, <3>4
    <3>7. (4 * x + 2 * y) * n \in Nat /\ c * n \in Nat /\ t * n \in Nat
      BY <1>2, <2>1, <3>4
    <3>8. (4 * (x + c) + 2 * (y + t)) * n >= (4 * x + 2 * y) * (n + 1)
      BY ONLY <3>4, <3>5, <3>6, <3>7
    <3> QED BY <3>1, <3>2, <3>3, <3>8
  <2> QED BY <2>2, <2>3
<1> HIDE DEF T
<1> QED BY <1>14, <1>15 DEF B, k

\* max_supporting grows by at most one, and only when the supported hypothesis
\* already had the most support.
LEMMA MostRises ==
  ASSUME NEW b \in Seq(Evidence), NEW e \in Evidence, e.stance = "supports",
         e.key \in Kept(b)
  PROVE  \/ Most(Append(b, e)) = Most(b)
         \/ Most(Append(b, e)) = Most(b) + 1 /\ Support(b, e.key) = Most(b)
PROOF
<1> DEFINE B == Append(b, e)
           n == Support(b, e.key)
<1>1. /\ B \in Seq(Evidence) /\ Kept(B) = Kept(b)
      /\ \A k : k # e.key => Support(B, k) = Support(b, k)
  BY OneMoreSupporter, OthersKeepTheirParts
<1>2. Support(B, e.key) = n + 1
  <2>1. Supporting(B, e.key) = Supporting(b, e.key) \cup {Len(b) + 1}
    BY OneMoreSupporter
  <2>2. /\ Supporting(b, e.key) \in SUBSET (1..Len(b))
        /\ IsFiniteSet(Supporting(b, e.key))
    BY SupportingIsFinite
  <2>3. Len(b) + 1 \notin 1..Len(b)
    OBVIOUS
  <2> HIDE DEF B
  <2> QED BY <2>1, <2>2, <2>3, FS_AddElement DEF Support
<1> HIDE DEF B
<1>3. /\ Most(b) \in Nat \ {0}
      /\ \A k \in Kept(b) : Support(b, k) <= Most(b)
      /\ Most(b) = 1 \/ \E k \in Kept(b) : Most(b) = Support(b, k)
  BY MostIsMost DEF Support
<1>4. /\ Most(B) \in Nat \ {0}
      /\ \A k \in Kept(b) : Support(B, k) <= Most(B)
      /\ Most(B) = 1 \/ \E k \in Kept(b) : Most(B) = Support(B, k)
  BY <1>1, MostIsMost DEF Support
<1>5. n \in Nat
  BY PartsAreNumbers
<1> HIDE DEF n
<1>6. \A k \in Kept(b) : Support(b, k) <= Support(B, k)
  <2>1. \A k : Support(b, k) \in Nat
    BY PartsAreNumbers
  <2> QED BY <1>1, <1>2, <1>5, <2>1 DEF n
<1>7. Most(b) <= Most(B)
  <2>1. CASE Most(b) = 1
    BY <1>4, <2>1
  <2>2. CASE \E k \in Kept(b) : Most(b) = Support(b, k)
    <3>1. PICK k \in Kept(b) : Most(b) = Support(b, k)
      BY <2>2
    <3>2. Support(B, k) \in Nat
      BY <1>1, PartsAreNumbers
    <3> QED BY <1>3, <1>4, <1>6, <3>1, <3>2
  <2> QED BY <1>3, <2>1, <2>2
<1>8. Most(B) <= Most(b) \/ Most(B) = n + 1
  <2>1. CASE Most(B) = 1
    BY <1>3, <2>1
  <2>2. CASE \E k \in Kept(b) : Most(B) = Support(B, k)
    <3>1. PICK k \in Kept(b) : Most(B) = Support(B, k)
      BY <2>2
    <3>2. CASE k = e.key
      BY <1>2, <3>1, <3>2
    <3>3. CASE k # e.key
      BY <1>1, <1>3, <3>1, <3>3
    <3> QED BY <3>2, <3>3
  <2> QED BY <1>4, <2>1, <2>2
<1>9. n <= Most(b)
  BY <1>3 DEF n
<1> QED BY <1>3, <1>4, <1>5, <1>7, <1>8, <1>9 DEF B, n

\* One more supporter that is no weaker than the earlier ones keeps the lead
\* over every kept hypothesis, although the counts of all are rescaled.
LEMMA MoreSupportKeepsTheLead ==
  ASSUME NEW b \in Seq(Evidence), NEW e \in Evidence, e.stance = "supports",
         e.key \in Kept(b),
         \A i \in Supporting(b, e.key) :
           /\ e.confidence >= b[i].confidence
           /\ TrustOf(e.specialist) >= TrustOf(b[i].specialist),
         NEW k \in Kept(b), Outranks(b, e.key, k)
  PROVE  Outranks(Append(b, e), e.key, k)
PROOF
<1> DEFINE B == Append(b, e)
           j == e.key
           w(i) == 400 * Support(b, i) * Share(b, i) + Most(b) * Quality(b, i)
           W(i) == 400 * Support(B, i) * Share(B, i) + Most(B) * Quality(B, i)
<1>1. j \in Hypotheses /\ k \in Hypotheses /\ j # k
  BY OutranksIsAnOrder DEF Kept
<1>2. /\ Support(B, k) = Support(b, k) /\ Share(B, k) = Share(b, k)
      /\ Quality(B, k) = Quality(b, k)
  BY <1>1, OthersKeepTheirParts
<1>3. /\ Support(B, j) = Support(b, j) + 1 /\ Share(B, j) = Support(b, j) + 1
      /\ Quality(B, j) * Share(b, j) >= Quality(b, j) * (Support(b, j) + 1)
  BY QualityRises
<1>4. Most(B) = Most(b) \/ (Most(B) = Most(b) + 1 /\ Support(b, j) = Most(b))
  BY MostRises
<1>5. B \in Seq(Evidence)
  OBVIOUS
<1> HIDE DEF B, j
<1>6. /\ Most(b) \in Nat \ {0} /\ Most(B) \in Nat
  BY <1>5, MostIsMost
<1>7. /\ Support(b, j) \in Nat /\ Share(b, j) \in Nat \ {0} /\ Quality(b, j) \in Nat
      /\ Support(b, k) \in Nat /\ Share(b, k) \in Nat \ {0} /\ Quality(b, k) \in Nat
      /\ Support(b, k) = 0 => Quality(b, k) = 120
      /\ Share(b, j) = IF Support(b, j) = 0 THEN 1 ELSE Support(b, j)
      /\ Share(b, k) = IF Support(b, k) = 0 THEN 1 ELSE Support(b, k)
      /\ Quality(B, j) \in Nat
  BY <1>5, PartsAreNumbers DEF Share, DefaultTrust
<1>8. w(j) * Share(b, k) >= w(k) * Share(b, j)
  <2>1. \/ w(j) * Share(b, k) > w(k) * Share(b, j)
        \/ w(j) * Share(b, k) = w(k) * Share(b, j)
    BY OutranksParts DEF j
  <2>2. w(j) * Share(b, k) \in Int /\ w(k) * Share(b, j) \in Int
    <3>1. w(j) \in Nat /\ w(k) \in Nat
      BY WeightIsNumber
    <3> HIDE DEF w
    <3> QED BY <1>7, <3>1
  <2> QED BY <2>1, <2>2
<1>9. (400 * (Support(b, j) + 1) * (Support(b, j) + 1) + Most(B) * Quality(B, j)) * Share(b, k)
        > (400 * Support(b, k) * Share(b, k) + Most(B) * Quality(b, k)) * (Support(b, j) + 1)
  <2>1. PICK n \in Nat, s \in Nat \ {0}, a \in Nat :
          n = Support(b, j) /\ s = Share(b, j) /\ a = Quality(b, j)
    BY <1>7
  <2>2. PICK m \in Nat, t \in Nat \ {0}, c \in Nat :
          m = Support(b, k) /\ t = Share(b, k) /\ c = Quality(b, k)
    BY <1>7
  <2>3. PICK most \in Nat \ {0}, next \in Nat, d \in Nat :
          most = Most(b) /\ next = Most(B) /\ d = Quality(B, j)
    BY <1>6, <1>7
  <2>4. s = IF n = 0 THEN 1 ELSE n
    BY <1>7, <2>1
  <2>5. (t = IF m = 0 THEN 1 ELSE m) /\ (m = 0 => c = 120)
    BY <1>7, <2>2
  <2>6. d * s >= a * (n + 1)
    BY <1>3, <2>1, <2>3
  <2>7. next = most \/ (next = most + 1 /\ n = most)
    BY <1>4, <2>1, <2>3
  <2>8. (400 * n * s + most * a) * t >= (400 * m * t + most * c) * s
    BY <1>8, <2>1, <2>2, <2>3
  <2>9. (400 * (n + 1) * (n + 1) + next * d) * t > (400 * m * t + next * c) * (n + 1)
    BY ONLY <2>4, <2>5, <2>6, <2>7, <2>8, ScoreRises
  <2> QED BY <2>1, <2>2, <2>3, <2>9
<1>10. W(j) * Share(B, k) > W(k) * Share(B, j)
  BY <1>2, <1>3, <1>9
<1> QED BY <1>5, <1>10, OutranksParts DEF B, j

-----------------------------------------------------------------------------
(* The theorems *)

GivenIsBag == given \in Seq(Evidence)

\* Whatever has been reported so far is a list of evidence.
LEMMA GivenIsEvidence == BagSpec => []GivenIsBag
PROOF
<1>1. BagInit => GivenIsBag
  BY DEF BagInit, GivenIsBag
<1>2. GivenIsBag /\ [BagNext]_given => GivenIsBag'
  <2> SUFFICES ASSUME given \in Seq(Evidence), [BagNext]_given
               PROVE  given' \in Seq(Evidence)
    BY DEF GivenIsBag
  <2>1. CASE BagNext
    <3>1. PICK e \in Observations : Report(e)
      BY <2>1 DEF BagNext
    <3>2. e \in Evidence
      BY BagAssumption
    <3> QED BY <3>1, <3>2 DEF Report
  <2>2. CASE UNCHANGED given
    BY <2>2
  <2> QED BY <2>1, <2>2
<1> QED BY <1>1, <1>2, PTL DEF BagSpec

\* The list of a brief is the sort and truncation of the kept hypotheses, for
\* every bag that can be reported (compose, _score).
THEOREM RankingIsTheTop == BagSpec => []RankingIsTopOfTheOrder
PROOF
<1>1. GivenIsBag => RankingIsTopOfTheOrder
  BY RankedIsSorted DEF GivenIsBag, RankingIsTopOfTheOrder
<1> QED BY <1>1, GivenIsEvidence, PTL

\* A hypothesis with support precedes every hypothesis that rests on
\* informational evidence alone (compose, _score).
THEOREM SupportedIsFirst == BagSpec => []SupportedComeFirst
PROOF
<1>1. GivenIsBag => SupportedComeFirst
  BY SupportOutranks DEF GivenIsBag, SupportedComeFirst
<1> QED BY <1>1, GivenIsEvidence, PTL

\* No step that reports one more supporter, at least as confident and as
\* trusted as the earlier ones, lets another hypothesis overtake (compose,
\* _score, max_supporting).
THEOREM SupportNeverDemotes == BagSpec => StrongerSupportNeverDemotes
PROOF
<1> DEFINE Kinder ==
      \A e \in Observations :
        (/\ Report(e)
         /\ e.stance = "supports"
         /\ e.key \in Kept(given)
         /\ \A i \in Supporting(given, e.key) :
              /\ e.confidence >= given[i].confidence
              /\ TrustOf(e.specialist) >= TrustOf(given[i].specialist))
        => \A k \in Kept(given) :
             Outranks(given, e.key, k) => Outranks(given', e.key, k)
<1>1. GivenIsBag /\ [BagNext]_given => [Kinder]_given
  <2> SUFFICES ASSUME GivenIsBag, NEW e \in Observations, Report(e),
                      e.stance = "supports", e.key \in Kept(given),
                      \A i \in Supporting(given, e.key) :
                        /\ e.confidence >= given[i].confidence
                        /\ TrustOf(e.specialist) >= TrustOf(given[i].specialist),
                      NEW k \in Kept(given), Outranks(given, e.key, k)
               PROVE  Outranks(given', e.key, k)
    OBVIOUS
  <2>1. given \in Seq(Evidence) /\ e \in Evidence
    BY BagAssumption DEF GivenIsBag
  <2>2. Outranks(Append(given, e), e.key, k)
    BY <2>1, MoreSupportKeepsTheLead
  <2>3. given' = Append(given, e)
    BY DEF Report
  <2> QED BY <2>2, <2>3
<1>2. []GivenIsBag /\ [][BagNext]_given => [][Kinder]_given
  BY <1>1, PTL
<1> QED BY <1>2, GivenIsEvidence, PTL DEF BagSpec, StrongerSupportNeverDemotes

=============================================================================
