---------------------------- MODULE DataTheorems ----------------------------
(***************************************************************************)
(* What the operators on data of the models return, for every argument:    *)
(* the sum of a function over a finite set (FiniteSetsExt, the sum() calls *)
(* of synthesizer.py and phoenix_tracer.py), the elements of a list at a   *)
(* set of places (Subsequences, the comprehensions with a condition), and  *)
(* the numbering of a finite order (the sort of compose).                  *)
(*                                                                         *)
(* The provers cannot use an induction principle over a predicate, so the  *)
(* proofs take a least counterexample: a set of numbers or of finite sets  *)
(* that is not empty has a minimal member (WellFoundedInduction!WFMin),    *)
(* and the equation of the recursion refutes it.  That the function a      *)
(* recursion defines exists at all is shown the same way.                  *)
(***************************************************************************)
EXTENDS Subsequences, FiniteSetsExt, FiniteSetTheorems, SequenceTheorems,
        WellFoundedInduction, TLAPS

\* A set of natural numbers that is not empty has a least member.
LEMMA LeastNatural ==
  ASSUME NEW S \in SUBSET Nat, S # {}
  PROVE  \E m \in S : \A k \in S : m <= k
PROOF
<1> DEFINE R == OpToRel(<, Nat)
<1>1. IsWellFoundedOn(R, Nat)
  BY NatLessThanWellFounded
<1>2. \A x, y \in Nat : x < y => <<x, y>> \in R
  BY DEF R, OpToRel
<1> HIDE DEF R
<1>3. PICK m \in S : \A k \in S : <<k, m>> \notin R
  BY <1>1, WFMin
<1>4. \A k \in S : ~(k < m)
  BY <1>2, <1>3
<1> QED BY <1>4

\* A set of subsets of a finite set that is not empty has a member none of
\* whose proper subsets is in it.
LEMMA SmallestSubset ==
  ASSUME NEW S, IsFiniteSet(S), NEW Bad \in SUBSET SUBSET S, Bad # {}
  PROVE  \E T \in Bad : /\ IsFiniteSet(T)
                        /\ \A U \in SUBSET T : U # T => U \notin Bad
PROOF
<1> DEFINE Sizes == {Cardinality(T) : T \in Bad}
<1>1. \A T \in SUBSET S : IsFiniteSet(T) /\ Cardinality(T) \in Nat
  BY FS_Subset, FS_CardinalityType
<1>2. PICK m \in Sizes : \A k \in Sizes : m <= k
  <2>1. Sizes \in SUBSET Nat /\ Sizes # {}
    BY <1>1
  <2> HIDE DEF Sizes
  <2> QED BY <2>1, LeastNatural
<1>3. PICK T \in Bad : Cardinality(T) = m
  BY <1>2
<1>4. ASSUME NEW U \in SUBSET T, U # T, U \in Bad
      PROVE  FALSE
  <2>1. Cardinality(U) <= Cardinality(T) /\ Cardinality(U) # Cardinality(T)
    BY <1>1, <1>4, FS_Subset
  <2>2. m <= Cardinality(U)
    BY <1>2, <1>4
  <2> QED BY <1>1, <1>3, <1>4, <2>1, <2>2
<1> QED BY <1>1, <1>3, <1>4

-----------------------------------------------------------------------------
\* The element a fold over s begins with.
Chosen(s) == CHOOSE x \in s : TRUE

\* g sums f over every set of D by the equation of the fold.
Sums(g, f, D) ==
  g = [s \in D |-> IF s = {} THEN 0 ELSE f[Chosen(s)] + g[s \ {Chosen(s)}]]

\* The function the fold of a sum is defined by exists.
LEMMA SumsExist ==
  ASSUME NEW f, NEW S, IsFiniteSet(S)
  PROVE  \E g : Sums(g, f, SUBSET S)
PROOF
<1> DEFINE UpTo(n) == {T \in SUBSET S : Cardinality(T) <= n}
           Bad     == {n \in Nat : ~ \E g : Sums(g, f, UpTo(n))}
<1>0. \A T \in SUBSET S : /\ IsFiniteSet(T) /\ Cardinality(T) \in Nat
                          /\ Cardinality(T) = 0 <=> T = {}
                          /\ Cardinality(T) <= Cardinality(S)
                          /\ T # {} => /\ Chosen(T) \in T
                                       /\ Cardinality(T \ {Chosen(T)}) = Cardinality(T) - 1
  BY FS_Subset, FS_CardinalityType, FS_EmptySet, FS_RemoveElement DEF Chosen
<1>1. SUFFICES ASSUME Bad # {} PROVE FALSE
  <2>1. Cardinality(S) \in Nat /\ UpTo(Cardinality(S)) = SUBSET S
    BY <1>0
  <2> HIDE DEF UpTo
  <2>2. \E g : Sums(g, f, UpTo(Cardinality(S)))
    BY <1>1, <2>1
  <2> QED BY <2>1, <2>2
<1>2. PICK m \in Bad : \A k \in Bad : m <= k
  <2>1. Bad \in SUBSET Nat
    OBVIOUS
  <2> HIDE DEF Bad
  <2> QED BY <1>1, <2>1, LeastNatural
<1>3. CASE m = 0
  <2> DEFINE g == [s \in UpTo(0) |-> 0]
  <2>1. \A s \in UpTo(0) : s = {}
    <3>1. \A c \in Nat : c <= 0 => c = 0
      OBVIOUS
    <3> QED BY <1>0, <3>1
  <2>2. Sums(g, f, UpTo(0))
    BY <2>1 DEF Sums
  <2> QED BY <1>2, <1>3, <2>2
<1>4. CASE m # 0
  <2>1. m - 1 \in Nat /\ m - 1 \notin Bad
    <3>1. m \in Nat
      OBVIOUS
    <3> HIDE DEF Bad
    <3>2. m - 1 \in Nat /\ ~(m <= m - 1)
      BY <3>1, <1>4
    <3> QED BY <1>2, <3>2
  <2>2. PICK g : Sums(g, f, UpTo(m - 1))
    BY <2>1
  <2> DEFINE h == [s \in UpTo(m) |-> IF s = {} THEN 0
                                     ELSE f[Chosen(s)] + g[s \ {Chosen(s)}]]
  <2>3. \A s \in UpTo(m - 1) : h[s] = g[s] /\ s \in UpTo(m)
    <3>1. \A c \in Nat : c <= m - 1 => c <= m
      BY <2>1
    <3>2. UpTo(m - 1) \subseteq UpTo(m)
      BY <1>0, <3>1
    <3> HIDE DEF UpTo
    <3> QED BY <2>2, <3>2 DEF Sums
  <2>4. \A s \in UpTo(m) : s # {} => s \ {Chosen(s)} \in UpTo(m - 1)
    BY <1>0, <2>1
  <2> HIDE DEF UpTo
  <2>5. Sums(h, f, UpTo(m))
    BY <2>3, <2>4 DEF Sums
  <2> QED BY <1>2, <2>5
<1> QED BY <1>3, <1>4

\* The sum over a set is the value at the set of some function that satisfies
\* the equation of the fold.
LEMMA SumIsFold ==
  ASSUME NEW f, NEW S, IsFiniteSet(S)
  PROVE  \E g : Sums(g, f, SUBSET S) /\ SumFunctionOnSet(f, S) = g[S]
PROOF
<1> DEFINE h == CHOOSE g : Sums(g, f, SUBSET S)
<1>1. Sums(h, f, SUBSET S)
  BY SumsExist
<1>2. SumFunctionOnSet(f, S) = h[S]
  BY DEF SumFunctionOnSet, FoldFunctionOnSet, MapThenFoldSet, Sums, Chosen
<1> HIDE DEF h
<1> QED BY <1>1, <1>2


\* The fold over a subset is the same on its own and inside a larger set.
LEMMA SumIsLocal ==
  ASSUME NEW f, NEW S, IsFiniteSet(S), NEW g, Sums(g, f, SUBSET S),
         NEW T \in SUBSET S
  PROVE  SumFunctionOnSet(f, T) = g[T]
PROOF
<1>1. IsFiniteSet(T)
  BY FS_Subset
<1>2. PICK h : Sums(h, f, SUBSET T) /\ SumFunctionOnSet(f, T) = h[T]
  BY <1>1, SumIsFold
<1> DEFINE Bad == {U \in SUBSET T : h[U] # g[U]}
<1>3. SUFFICES ASSUME Bad # {} PROVE FALSE
  BY <1>2
<1>4. PICK U \in Bad : \A V \in SUBSET U : V # U => V \notin Bad
  <2>1. Bad \in SUBSET SUBSET T
    OBVIOUS
  <2> HIDE DEF Bad
  <2> QED BY <1>1, <1>3, <2>1, SmallestSubset
<1>5. U # {}
  BY <1>2 DEF Sums
<1>6. /\ Chosen(U) \in U
      /\ h[U \ {Chosen(U)}] = g[U \ {Chosen(U)}]
  BY <1>4, <1>5 DEF Chosen
<1>7. h[U] = f[Chosen(U)] + h[U \ {Chosen(U)}]
  BY <1>2, <1>5 DEF Sums
<1>8. g[U] = f[Chosen(U)] + g[U \ {Chosen(U)}]
  BY <1>5 DEF Sums
<1> QED BY <1>6, <1>7, <1>8

\* A sum is the chosen element's value and the sum over the rest, and the
\* empty sum is zero.
LEMMA SumEquation ==
  ASSUME NEW f, NEW S, IsFiniteSet(S)
  PROVE  SumFunctionOnSet(f, S) =
           IF S = {} THEN 0
           ELSE f[Chosen(S)] + SumFunctionOnSet(f, S \ {Chosen(S)})
PROOF
<1>1. PICK g : Sums(g, f, SUBSET S)
  BY SumsExist
<1>2. \A T \in SUBSET S : SumFunctionOnSet(f, T) = g[T]
  BY <1>1, SumIsLocal
<1> QED BY <1>1, <1>2 DEF Sums

\* A sum of natural numbers is one.
LEMMA SumType ==
  ASSUME NEW f, NEW S, IsFiniteSet(S), \A x \in S : f[x] \in Nat
  PROVE  SumFunctionOnSet(f, S) \in Nat
PROOF
<1> DEFINE Bad == {T \in SUBSET S : SumFunctionOnSet(f, T) \notin Nat}
<1>1. SUFFICES ASSUME Bad # {} PROVE FALSE
  OBVIOUS
<1>2. PICK T \in Bad : IsFiniteSet(T) /\ \A U \in SUBSET T : U # T => U \notin Bad
  <2>1. Bad \in SUBSET SUBSET S
    OBVIOUS
  <2> HIDE DEF Bad
  <2> QED BY <1>1, <2>1, SmallestSubset
<1>3. T # {}
  <2>1. SumFunctionOnSet(f, {}) = 0
    BY FS_EmptySet, SumEquation
  <2> QED BY <2>1
<1>4. /\ Chosen(T) \in T
      /\ SumFunctionOnSet(f, T \ {Chosen(T)}) \in Nat
  BY <1>2, <1>3 DEF Chosen
<1>5. SumFunctionOnSet(f, T) = f[Chosen(T)] + SumFunctionOnSet(f, T \ {Chosen(T)})
  BY <1>2, <1>3, SumEquation
<1> QED BY <1>4, <1>5

\* A sum is the value of any of its elements and the sum over the rest,
\* whichever element the fold begins with.
LEMMA SumTakeOut ==
  ASSUME NEW f, NEW S, IsFiniteSet(S), \A y \in S : f[y] \in Nat, NEW x \in S
  PROVE  SumFunctionOnSet(f, S) = f[x] + SumFunctionOnSet(f, S \ {x})
PROOF
<1> DEFINE Sum(T) == SumFunctionOnSet(f, T)
           Bad    == {T \in SUBSET S : \E y \in T : Sum(T) # f[y] + Sum(T \ {y})}
<1>1. SUFFICES ASSUME Bad # {} PROVE FALSE
  OBVIOUS
<1>2. PICK T \in Bad : IsFiniteSet(T) /\ \A U \in SUBSET T : U # T => U \notin Bad
  <2>1. Bad \in SUBSET SUBSET S
    OBVIOUS
  <2> HIDE DEF Bad
  <2> QED BY <1>1, <2>1, SmallestSubset
<1>3. PICK y \in T : Sum(T) # f[y] + Sum(T \ {y})
  OBVIOUS
<1>4. PICK c \in T : Sum(T) = f[c] + Sum(T \ {c})
  <2>1. T # {} /\ IsFiniteSet(T)
    BY <1>2
  <2>2. Chosen(T) \in T
    BY <2>1 DEF Chosen
  <2>3. Sum(T) = f[Chosen(T)] + Sum(T \ {Chosen(T)})
    BY <2>1, SumEquation
  <2> HIDE DEF Sum
  <2> QED BY <2>2, <2>3
<1>5. \A U \in SUBSET T : Sum(U) \in Nat
  BY <1>2, FS_Subset, SumType
<1>6. c # y
  BY <1>3, <1>4
<1>7. \A U \in SUBSET T : U # T => \A z \in U : Sum(U) = f[z] + Sum(U \ {z})
  BY <1>2
<1>8. Sum(T \ {c}) = f[y] + Sum((T \ {c}) \ {y})
  BY <1>6, <1>7
<1>9. Sum(T \ {y}) = f[c] + Sum((T \ {y}) \ {c})
  BY <1>6, <1>7
<1>10. (T \ {y}) \ {c} = (T \ {c}) \ {y}
  OBVIOUS
<1> DEFINE rest == Sum((T \ {c}) \ {y})
<1>11. f[y] \in Nat /\ f[c] \in Nat /\ rest \in Nat
  BY <1>5
<1>12. Sum(T) = f[c] + (f[y] + rest)
  BY <1>4, <1>8
<1>13. f[y] + Sum(T \ {y}) = f[y] + (f[c] + rest)
  BY <1>9, <1>10
<1> HIDE DEF Sum, Bad, rest
<1>14. f[c] + (f[y] + rest) = f[y] + (f[c] + rest)
  BY <1>11
<1> QED BY <1>3, <1>12, <1>13, <1>14

\* A sum depends only on the values of the function on the set.
LEMMA SumCongruent ==
  ASSUME NEW f, NEW h, NEW S, IsFiniteSet(S), \A x \in S : f[x] = h[x]
  PROVE  SumFunctionOnSet(f, S) = SumFunctionOnSet(h, S)
PROOF
<1> DEFINE Bad == {T \in SUBSET S : SumFunctionOnSet(f, T) # SumFunctionOnSet(h, T)}
<1>1. SUFFICES ASSUME Bad # {} PROVE FALSE
  OBVIOUS
<1>2. PICK T \in Bad : IsFiniteSet(T) /\ \A U \in SUBSET T : U # T => U \notin Bad
  <2>1. Bad \in SUBSET SUBSET S
    OBVIOUS
  <2> HIDE DEF Bad
  <2> QED BY <1>1, <2>1, SmallestSubset
<1>3. T # {}
  <2>1. SumFunctionOnSet(f, {}) = 0 /\ SumFunctionOnSet(h, {}) = 0
    BY FS_EmptySet, SumEquation
  <2> QED BY <2>1
<1>4. /\ Chosen(T) \in T
      /\ SumFunctionOnSet(f, T \ {Chosen(T)}) = SumFunctionOnSet(h, T \ {Chosen(T)})
  BY <1>2, <1>3 DEF Chosen
<1>5. /\ SumFunctionOnSet(f, T) = f[Chosen(T)] + SumFunctionOnSet(f, T \ {Chosen(T)})
      /\ SumFunctionOnSet(h, T) = h[Chosen(T)] + SumFunctionOnSet(h, T \ {Chosen(T)})
  BY <1>2, <1>3, SumEquation
<1> QED BY <1>4, <1>5

\* A sum is between the count times a lower bound and the count times an upper
\* bound of the values.
LEMMA SumBounds ==
  ASSUME NEW f, NEW S, IsFiniteSet(S), NEW lo \in Nat, NEW hi \in Nat,
         \A x \in S : f[x] \in lo..hi
  PROVE  /\ SumFunctionOnSet(f, S) \in Nat
         /\ lo * Cardinality(S) <= SumFunctionOnSet(f, S)
         /\ SumFunctionOnSet(f, S) <= hi * Cardinality(S)
PROOF
<1> DEFINE Within(T) == /\ lo * Cardinality(T) <= SumFunctionOnSet(f, T)
                        /\ SumFunctionOnSet(f, T) <= hi * Cardinality(T)
           Bad       == {T \in SUBSET S : ~Within(T)}
<1>0. \A T \in SUBSET S : SumFunctionOnSet(f, T) \in Nat
  BY FS_Subset, SumType
<1>1. SUFFICES ASSUME Bad # {} PROVE FALSE
  BY <1>0
<1>2. PICK T \in Bad : IsFiniteSet(T) /\ \A U \in SUBSET T : U # T => U \notin Bad
  <2>1. Bad \in SUBSET SUBSET S
    OBVIOUS
  <2> HIDE DEF Bad
  <2> QED BY <1>1, <2>1, SmallestSubset
<1>3. T # {}
  <2>1. SumFunctionOnSet(f, {}) = 0 /\ Cardinality({}) = 0
    BY FS_EmptySet, SumEquation
  <2> QED BY <2>1
<1> DEFINE c    == Chosen(T)
           rest == SumFunctionOnSet(f, T \ {c})
           size == Cardinality(T \ {c})
<1>4. /\ c \in T
      /\ lo * size <= rest /\ rest <= hi * size
  BY <1>2, <1>3 DEF Chosen
<1>5. SumFunctionOnSet(f, T) = f[c] + rest
  BY <1>2, <1>3, SumEquation
<1>6. size \in Nat /\ Cardinality(T) = size + 1
  <2>1. Cardinality(T) \in Nat /\ IsFiniteSet(T \ {c})
    BY <1>2, FS_CardinalityType, FS_RemoveElement
  <2>2. size = Cardinality(T) - 1 /\ size \in Nat
    BY <1>2, <1>4, <2>1, FS_RemoveElement, FS_CardinalityType
  <2> QED BY <2>1, <2>2
<1>7. f[c] \in lo..hi /\ rest \in Nat
  BY <1>0, <1>4
<1> HIDE DEF c, rest, size
<1>8. /\ lo * (size + 1) = lo * size + lo
      /\ hi * (size + 1) = hi * size + hi
      /\ lo * size \in Nat /\ hi * size \in Nat
  <2>1. \A i, j \in Nat : i * (j + 1) = i * j + i /\ i * j \in Nat
    OBVIOUS
  <2> QED BY <1>6, <2>1
<1>9. lo * (size + 1) <= f[c] + rest /\ f[c] + rest <= hi * (size + 1)
  BY <1>4, <1>7, <1>8
<1> QED BY <1>5, <1>6, <1>9

\* Counting a finite set bin by bin gives its size.
LEMMA SumOfBins ==
  ASSUME NEW S, IsFiniteSet(S), NEW B, IsFiniteSet(B), NEW h \in [S -> B]
  PROVE  SumFunctionOnSet([b \in B |-> Cardinality({x \in S : h[x] = b})], B)
           = Cardinality(S)
PROOF
<1> DEFINE f       == [b \in B |-> Cardinality({x \in S : h[x] = b})]
           From(C) == {x \in S : h[x] \in C}
           Bad     == {C \in SUBSET B : SumFunctionOnSet(f, C) # Cardinality(From(C))}
<1>1. SUFFICES ASSUME Bad # {} PROVE FALSE
  <2>1. From(B) = S
    OBVIOUS
  <2> QED BY <2>1
<1>2. PICK C \in Bad : IsFiniteSet(C) /\ \A U \in SUBSET C : U # C => U \notin Bad
  <2>1. Bad \in SUBSET SUBSET B
    OBVIOUS
  <2> HIDE DEF Bad
  <2> QED BY <1>1, <2>1, SmallestSubset
<1>3. C # {}
  <2>1. SumFunctionOnSet(f, {}) = 0 /\ Cardinality({}) = 0 /\ From({}) = {}
    BY FS_EmptySet, SumEquation
  <2> QED BY <2>1
<1> DEFINE c    == Chosen(C)
           mine == {x \in S : h[x] = c}
           rest == From(C \ {c})
<1>4. c \in C /\ SumFunctionOnSet(f, C \ {c}) = Cardinality(rest)
  BY <1>2, <1>3 DEF Chosen
<1>5. SumFunctionOnSet(f, C) = f[c] + SumFunctionOnSet(f, C \ {c})
  <2> HIDE DEF f
  <2> QED BY <1>2, <1>3, SumEquation
<1>6. f[c] = Cardinality(mine)
  BY <1>4
<1>7. /\ IsFiniteSet(mine) /\ IsFiniteSet(rest)
      /\ Cardinality(mine) \in Nat /\ Cardinality(rest) \in Nat
  <2>1. mine \in SUBSET S /\ rest \in SUBSET S
    OBVIOUS
  <2> HIDE DEF mine, rest
  <2> QED BY <2>1, FS_Subset, FS_CardinalityType
<1>8. From(C) = mine \cup rest /\ mine \cap rest = {}
  BY <1>4
<1>9. Cardinality(From(C)) = Cardinality(mine) + Cardinality(rest)
  <2> HIDE DEF mine, rest, From
  <2>1. Cardinality(mine \cup rest)
          = Cardinality(mine) + Cardinality(rest) - Cardinality(mine \cap rest)
    BY <1>7, FS_Union
  <2>2. Cardinality(mine \cap rest) = 0
    BY <1>8, FS_EmptySet
  <2> QED BY <1>7, <1>8, <2>1, <2>2
<1>10. SumFunctionOnSet(f, C) # Cardinality(From(C))
  OBVIOUS
<1> HIDE DEF f, From, Bad, c, mine, rest
<1> QED BY <1>4, <1>5, <1>6, <1>9, <1>10

-----------------------------------------------------------------------------
\* part holds the subsequences of the first 0, 1, ..., n elements of s.
Parts(part, s, places, n) ==
  part = [i \in 0..n |->
           IF i = 0 THEN <<>>
           ELSE IF i \in places THEN Append(part[i - 1], s[i]) ELSE part[i - 1]]

\* The function Subsequence is defined by, prefix by prefix, exists.
LEMMA PartsExist ==
  ASSUME NEW s, NEW places, NEW n \in Nat
  PROVE  \E part : Parts(part, s, places, n)
PROOF
<1> DEFINE Bad == {i \in Nat : ~ \E part : Parts(part, s, places, i)}
<1>1. SUFFICES ASSUME Bad # {} PROVE FALSE
  OBVIOUS
<1>2. PICK m \in Bad : \A k \in Bad : m <= k
  <2>1. Bad \in SUBSET Nat
    OBVIOUS
  <2> HIDE DEF Bad
  <2> QED BY <1>1, <2>1, LeastNatural
<1>3. m \in Nat
  OBVIOUS
<1>4. CASE m = 0
  <2>1. 0..0 = {0}
    OBVIOUS
  <2>2. Parts([i \in 0..0 |-> <<>>], s, places, 0)
    BY <2>1 DEF Parts
  <2> QED BY <1>2, <1>4, <2>2
<1>5. CASE m # 0
  <2>1. m - 1 \in Nat /\ m - 1 \notin Bad
    <3> HIDE DEF Bad
    <3>1. m - 1 \in Nat /\ ~(m <= m - 1)
      BY <1>3, <1>5
    <3> QED BY <1>2, <3>1
  <2>2. PICK q : Parts(q, s, places, m - 1)
    BY <2>1
  <2> DEFINE p == [i \in 0..m |->
                    IF i = 0 THEN <<>>
                    ELSE IF i \in places THEN Append(q[i - 1], s[i]) ELSE q[i - 1]]
  <2>3. \A i \in 0..(m - 1) : i \in 0..m /\ p[i] = q[i]
    <3>1. \A i \in 0..(m - 1) : i \in 0..m
      BY <1>3
    <3> QED BY <2>2, <3>1 DEF Parts
  <2>4. \A i \in 0..m : i # 0 => i - 1 \in 0..(m - 1)
    BY <1>3
  <2>5. Parts(p, s, places, m)
    BY <2>3, <2>4 DEF Parts
  <2> QED BY <1>2, <2>5
<1> QED BY <1>4, <1>5

\* r is what g picks from s: the places P, in their order.
Picks(r, g, s, P) ==
  /\ g \in [1..Len(r) -> P]
  /\ \A i, j \in 1..Len(r) : i < j => g[i] < g[j]
  /\ \A p \in P : \E i \in 1..Len(r) : g[i] = p
  /\ \A i \in 1..Len(r) : r[i] = s[g[i]]

\* Appending the next element to a selection from the places so far selects
\* from those places and the next.
LEMMA PickOneMore ==
  ASSUME NEW S, NEW s \in Seq(S), NEW n \in Nat, n + 1 <= Len(s),
         NEW P \in SUBSET (1..n), NEW r \in Seq(S), NEW g, Picks(r, g, s, P)
  PROVE  /\ Append(r, s[n + 1]) \in Seq(S)
         /\ \E h : Picks(Append(r, s[n + 1]), h, s, P \cup {n + 1})
PROOF
<1> DEFINE t == Append(r, s[n + 1])
           h == [i \in 1..(Len(r) + 1) |-> IF i = Len(r) + 1 THEN n + 1 ELSE g[i]]
<1>1. s[n + 1] \in S /\ Len(r) \in Nat
  OBVIOUS
<1>2. /\ t \in Seq(S) /\ Len(t) = Len(r) + 1 /\ t[Len(r) + 1] = s[n + 1]
      /\ \A i \in 1..Len(r) : t[i] = r[i]
  BY <1>1, AppendProperties
<1>3. \A i \in 1..(Len(r) + 1) : i # Len(r) + 1 => i \in 1..Len(r)
  BY <1>1
<1>4. \A i \in 1..Len(r) : i \in 1..(Len(r) + 1) /\ i # Len(r) + 1
  BY <1>1
<1>5. Len(r) + 1 \in 1..(Len(r) + 1)
  BY <1>1
<1>6. h \in [1..Len(t) -> P \cup {n + 1}]
  BY <1>2, <1>3 DEF Picks
<1>7. \A i, j \in 1..Len(t) : i < j => h[i] < h[j]
  <2> SUFFICES ASSUME NEW i \in 1..Len(t), NEW j \in 1..Len(t), i < j
               PROVE  h[i] < h[j]
    OBVIOUS
  <2>1. i \in 1..Len(r) /\ i # Len(r) + 1 /\ g[i] \in P
    BY <1>1, <1>2 DEF Picks
  <2>2. g[i] < n + 1
    <3>1. \A p \in P : p \in 1..n
      OBVIOUS
    <3>2. \A p \in 1..n : p < n + 1
      OBVIOUS
    <3> QED BY <2>1, <3>1, <3>2
  <2>3. CASE j = Len(r) + 1
    BY <1>2, <2>1, <2>2, <2>3
  <2>4. CASE j # Len(r) + 1
    BY <1>2, <1>3, <2>1, <2>4 DEF Picks
  <2> QED BY <2>3, <2>4
<1>8. \A p \in P \cup {n + 1} : \E i \in 1..Len(t) : h[i] = p
  BY <1>2, <1>4, <1>5 DEF Picks
<1>9. \A i \in 1..Len(t) : t[i] = s[h[i]]
  BY <1>2, <1>3 DEF Picks
<1>10. t \in Seq(S)
  BY <1>2
<1> HIDE DEF t, h
<1>11. Picks(t, h, s, P \cup {n + 1})
  BY <1>6, <1>7, <1>8, <1>9 DEF Picks
<1>12. t \in Seq(S) /\ \E k : Picks(t, k, s, P \cup {n + 1})
  BY <1>10, <1>11
<1> QED BY <1>12 DEF t

\* Subsequence is a list of elements of the original, one for each place, in
\* the order of the places.
LEMMA SubsequencePicks ==
  ASSUME NEW S, NEW s \in Seq(S), NEW places \in SUBSET (1..Len(s))
  PROVE  /\ Subsequence(s, places) \in Seq(S)
         /\ \E g : Picks(Subsequence(s, places), g, s, places)
PROOF
<1> DEFINE p == CHOOSE part : Parts(part, s, places, Len(s))
<1>0. /\ Len(s) \in Nat
      /\ \A i \in places : i \in Nat /\ 1 <= i /\ i <= Len(s)
  OBVIOUS
<1>1. Parts(p, s, places, Len(s))
  BY <1>0, PartsExist
<1>2. Subsequence(s, places) = p[Len(s)]
  BY DEF Subsequence, Parts
<1> HIDE DEF p
<1> DEFINE First(n) == {i \in places : i <= n}
           Good(n)  == /\ p[n] \in Seq(S)
                       /\ \E g : Picks(p[n], g, s, First(n))
           Bad      == {n \in 0..Len(s) : ~Good(n)}
<1>3. SUFFICES ASSUME Bad # {} PROVE FALSE
  <2>1. First(Len(s)) = places
    <3>1. \A i \in places : i <= Len(s)
      BY <1>0
    <3> QED BY <3>1
  <2>2. Len(s) \in 0..Len(s)
    BY <1>0
  <2> HIDE DEF First
  <2> QED BY <1>2, <2>1, <2>2
<1>4. PICK m \in Bad : \A k \in Bad : m <= k
  <2>1. Bad \in SUBSET Nat
    BY <1>0
  <2> HIDE DEF Bad
  <2> QED BY <1>3, <2>1, LeastNatural
<1>5. m \in 0..Len(s) /\ ~Good(m)
  OBVIOUS
<1>6. m # 0
  <2> SUFFICES ASSUME m = 0 PROVE FALSE
    OBVIOUS
  <2>1. p[0] = <<>> /\ First(0) = {}
    <3>1. 0 \in 0..Len(s)
      BY <1>0
    <3>2. p[0] = <<>>
      BY <1>1, <3>1 DEF Parts
    <3>3. \A i \in places : ~(i <= 0)
      BY <1>0
    <3> QED BY <3>2, <3>3
  <2>2. Picks(<<>>, [i \in 1..0 |-> 0], s, {})
    BY DEF Picks
  <2> HIDE DEF First
  <2>3. \E g : Picks(p[0], g, s, First(0))
    <3>1. Picks(p[0], [i \in 1..0 |-> 0], s, First(0))
      BY ONLY <2>1, <2>2
    <3> QED BY <3>1
  <2>4. p[0] \in Seq(S)
    BY <2>1
  <2> QED BY <1>5, <2>3, <2>4
<1> DEFINE n == m - 1
<1>7. n \in Nat /\ n \in 0..Len(s) /\ m = n + 1 /\ n + 1 <= Len(s)
  BY <1>0, <1>5, <1>6
<1>8. Good(n)
  <2>1. ~(m <= n)
    BY <1>7
  <2>2. n \notin Bad
    <3> HIDE DEF Bad
    <3> QED BY <1>4, <2>1
  <2> QED BY <1>7, <2>2
<1>9. p[m] = IF m \in places THEN Append(p[n], s[m]) ELSE p[n]
  BY <1>1, <1>5, <1>6 DEF Parts
<1>10. First(n) \in SUBSET (1..n)
  <2>1. \A i \in places : i <= n => i \in 1..n
    BY <1>0, <1>7
  <2> HIDE DEF n
  <2> QED BY <2>1
<1>11. CASE m \in places
  <2>1. First(m) = First(n) \cup {n + 1}
    <3>1. \A i \in places : i <= m <=> i <= n \/ i = n + 1
      BY <1>0, <1>7
    <3>2. n + 1 \in places
      BY <1>7, <1>11
    <3> HIDE DEF n
    <3> QED BY <3>1, <3>2
  <2>2. p[m] = Append(p[n], s[n + 1])
    BY <1>7, <1>9, <1>11
  <2>3. PICK g : Picks(p[n], g, s, First(n))
    BY <1>8
  <2>4. p[n] \in Seq(S)
    BY <1>8
  <2> HIDE DEF First, n
  <2>5. /\ Append(p[n], s[n + 1]) \in Seq(S)
        /\ \E h : Picks(Append(p[n], s[n + 1]), h, s, First(n) \cup {n + 1})
    BY <1>7, <1>10, <2>3, <2>4, PickOneMore
  <2> QED BY <1>5, <2>1, <2>2, <2>5
<1>12. CASE m \notin places
  <2>1. First(m) = First(n)
    <3>1. \A i \in places : i <= m <=> i <= n \/ i = n + 1
      BY <1>0, <1>7
    <3>2. n + 1 \notin places
      BY <1>7, <1>12
    <3> HIDE DEF n
    <3> QED BY <3>1, <3>2
  <2> HIDE DEF First, n
  <2> QED BY <1>5, <1>8, <1>9, <1>12, <2>1
<1> QED BY <1>11, <1>12

\* Subsequence has as many elements as there are places.
LEMMA SubsequenceLength ==
  ASSUME NEW S, NEW s \in Seq(S), NEW places \in SUBSET (1..Len(s))
  PROVE  Len(Subsequence(s, places)) = Cardinality(places)
PROOF
<1> DEFINE r == Subsequence(s, places)
<1>1. PICK g : Picks(r, g, s, places)
  BY SubsequencePicks
<1>2. Len(r) \in Nat
  <2>1. r \in Seq(S)
    BY SubsequencePicks
  <2> HIDE DEF r
  <2> QED BY <2>1
<1> HIDE DEF r
<1>3. \A i, j \in 1..Len(r) : g[i] = g[j] => i = j
  <2> SUFFICES ASSUME NEW i \in 1..Len(r), NEW j \in 1..Len(r), g[i] = g[j], i # j
               PROVE  FALSE
    OBVIOUS
  <2>1. g[i] \in Nat /\ g[j] \in Nat
    <3>1. g[i] \in places /\ g[j] \in places
      BY <1>1 DEF Picks
    <3>2. \A p \in 1..Len(s) : p \in Nat
      OBVIOUS
    <3> QED BY <3>1, <3>2
  <2>2. i < j \/ j < i
    BY <1>2
  <2>3. g[i] < g[j] \/ g[j] < g[i]
    BY <1>1, <2>2 DEF Picks
  <2> QED BY <2>1, <2>3
<1>4. g \in Bijection(1..Len(r), places)
  BY <1>1, <1>3 DEF Picks, Bijection, Injection, Surjection, IsInjective
<1>5. Cardinality(places) = Len(r)
  BY <1>2, <1>4, FS_CountingElements DEF ExistsBijection
<1> QED BY <1>5 DEF r

-----------------------------------------------------------------------------
\* Numbering the elements of a finite strict total order by how many are above
\* them uses each number from one to their count once, in the order.
LEMMA RanksAreAPermutation ==
  ASSUME NEW S, IsFiniteSet(S), NEW above \in [S -> SUBSET S],
         \A a \in S : a \notin above[a],
         \A a, b, c \in S : a \in above[b] /\ b \in above[c] => a \in above[c],
         \A a, b \in S : a = b \/ a \in above[b] \/ b \in above[a],
         NEW rank, rank = [k \in S |-> 1 + Cardinality(above[k])]
  PROVE  /\ \A k \in S : rank[k] \in 1..Cardinality(S)
         /\ \A a, b \in S : a \in above[b] <=> rank[a] < rank[b]
         /\ \A r \in 1..Cardinality(S) : \E k \in S : rank[k] = r
PROOF
<1>1. \A k \in S : /\ IsFiniteSet(above[k])
                   /\ Cardinality(above[k]) \in Nat
                   /\ Cardinality(above[k]) < Cardinality(S)
  <2> SUFFICES ASSUME NEW k \in S
               PROVE  /\ IsFiniteSet(above[k])
                      /\ Cardinality(above[k]) \in Nat
                      /\ Cardinality(above[k]) < Cardinality(S)
    OBVIOUS
  <2>1. above[k] \in SUBSET S /\ above[k] # S
    OBVIOUS
  <2>2. /\ IsFiniteSet(above[k]) /\ Cardinality(above[k]) \in Nat
        /\ Cardinality(S) \in Nat
        /\ Cardinality(above[k]) <= Cardinality(S)
        /\ Cardinality(above[k]) # Cardinality(S)
    BY <2>1, FS_Subset, FS_CardinalityType
  <2> QED BY <2>2
<1>2. Cardinality(S) \in Nat
  BY FS_CardinalityType
<1>3. rank \in [S -> 1..Cardinality(S)]
  <2>1. \A k \in S : rank[k] = 1 + Cardinality(above[k])
    OBVIOUS
  <2>2. \A k \in S : rank[k] \in 1..Cardinality(S)
    <3>1. \A m \in Nat : m < Cardinality(S) => 1 + m \in 1..Cardinality(S)
      BY <1>2
    <3> QED BY <1>1, <2>1, <3>1
  <2> QED BY <2>2
<1>4. ASSUME NEW a \in S, NEW b \in S, a \in above[b]
      PROVE  rank[a] < rank[b]
  <2>1. above[a] \in SUBSET above[b] /\ above[a] # above[b]
    BY <1>4
  <2>2. rank[a] = 1 + Cardinality(above[a]) /\ rank[b] = 1 + Cardinality(above[b])
    OBVIOUS
  <2>3. Cardinality(above[a]) <= Cardinality(above[b])
        /\ Cardinality(above[a]) # Cardinality(above[b])
    BY <1>1, <2>1, FS_Subset
  <2> QED BY <1>1, <2>2, <2>3
<1>5. \A a, b \in S : rank[a] < rank[b] => a \in above[b]
  <2> SUFFICES ASSUME NEW a \in S, NEW b \in S, rank[a] < rank[b], a \notin above[b]
               PROVE  FALSE
    OBVIOUS
  <2>1. rank[a] = rank[b] \/ rank[b] < rank[a]
    BY <1>4
  <2>2. rank[a] \in Nat /\ rank[b] \in Nat
    BY <1>3
  <2>3. \A m, n \in Nat : m < n => ~(m = n \/ n < m)
    OBVIOUS
  <2> QED BY <2>1, <2>2, <2>3
<1>6. rank \in Injection(S, 1..Cardinality(S))
  <2>1. \A a, b \in S : rank[a] = rank[b] => a = b
    <3> SUFFICES ASSUME NEW a \in S, NEW b \in S, rank[a] = rank[b], a # b
                 PROVE  FALSE
      OBVIOUS
    <3>1. rank[a] < rank[b] \/ rank[b] < rank[a]
      BY <1>4
    <3>2. rank[a] \in Nat /\ rank[b] \in Nat
      BY <1>3
    <3>3. \A m, n \in Nat : m = n => ~(m < n \/ n < m)
      OBVIOUS
    <3> QED BY <3>1, <3>2, <3>3
  <2>2. DOMAIN rank = S
    BY <1>3
  <2> QED BY <1>3, <2>1, <2>2 DEF Injection, IsInjective
<1>7. IsFiniteSet(1..Cardinality(S)) /\ Cardinality(1..Cardinality(S)) = Cardinality(S)
  BY <1>2, FS_Interval
<1>8. rank \in Surjection(S, 1..Cardinality(S))
  BY <1>6, <1>7, FS_Injection
<1> QED BY <1>3, <1>4, <1>5, <1>8 DEF Surjection
=============================================================================
