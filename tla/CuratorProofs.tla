--------------------------- MODULE CuratorProofs ----------------------------
(***************************************************************************)
(* What is proved of Curator and MemoryStore, for any number of incidents, *)
(* processes, runs and verdicts.  The accounts of the model's askings need *)
(* two facts the properties do not state: while a pattern is not filed,    *)
(* every asking for it was wasted or is under way (Accounts), and no more  *)
(* runs are under way than overlapped, plus one (Running).                 *)
(***************************************************************************)
EXTENDS Curator, FiniteSetTheorems, TLAPS

Stages == {"off", "listing", "choosing", "asking", "writing", "done"}

MemoryShape ==
  /\ recorded \subseteq Incidents
  /\ cause \in [Incidents -> Causes \cup {Open}]
  /\ resolved \in [Incidents -> Nat]
  /\ now \in Nat
  /\ verdicts \in Nat

Shape ==
  /\ MemoryShape
  /\ stage \in [Processes -> Stages]
  /\ window = [r \in Processes |-> window[r]]
  /\ todo = [r \in Processes |-> todo[r]]
  /\ active = [r \in Processes |-> active[r]]
  /\ asked \in [Patterns -> Nat]
  /\ wasted \in [Patterns -> Nat]
  /\ overlaps \in Nat

\* The runs under way, and those that have asked for a pattern and not filed it.
Running   == {r \in Processes : stage[r] \notin {"off", "done"}}
Asking(t) == {r \in Processes : stage[r] = "asking" /\ Current(r) = t}

Accounts ==
  /\ IsFiniteSet(Running)
  /\ Cardinality(Running) <= 1 + overlaps
  /\ \A t \in Patterns \ bank : asked[t] <= wasted[t] + Cardinality(Asking(t))
  /\ PatternsArePaidOnce

\* What a run knows of or has taken is in the bank; a file that is not whole
\* is being written, or was when a run ended.
Coverage ==
  /\ \A r \in Processes :
       /\ active[r] \subseteq bank
       /\ window[r] \ todo[r] \subseteq bank
       /\ stage[r] = "writing" => Current(r) \in bank
       /\ stage[r] = "done" => todo[r] = {}
  /\ \A t \in torn : t \in spoiled \/ \E q \in Processes :
                                        stage[q] = "writing" /\ Current(q) = t

IInv == Shape /\ Accounts /\ Coverage

-----------------------------------------------------------------------------
\* Where nothing is asked for and nothing filed.
LEMMA InitIInv == CuratorInit => IInv
PROOF
<1>. SUFFICES ASSUME CuratorInit PROVE IInv
  OBVIOUS
<1>1. Shape
  BY MemoryAssumption DEF CuratorInit, MemoryInit, Shape, MemoryShape, Stages
<1>2. Running = {}
  BY DEF CuratorInit, Running
<1>3. IsFiniteSet(Running) /\ Cardinality(Running) = 0
  BY <1>2, FS_EmptySet
<1>4. \A t \in Patterns : Asking(t) = {} /\ Cardinality(Asking(t)) = 0
  BY FS_EmptySet DEF CuratorInit, Asking
<1>5. /\ overlaps = 0
      /\ \A t \in Patterns : asked[t] = 0 /\ wasted[t] = 0
  BY DEF CuratorInit
<1>6. Accounts
  BY <1>3, <1>4, <1>5 DEF Accounts, PatternsArePaidOnce
<1>7. Coverage
  BY DEF CuratorInit, Coverage
<1>. QED
  BY <1>1, <1>6, <1>7 DEF IInv

\* The askings for a pattern are runs under way, and so is their number.
LEMMA AskingsAreRunning ==
  ASSUME IInv, NEW t
  PROVE  /\ IsFiniteSet(Asking(t))
         /\ Cardinality(Asking(t)) \in Nat
         /\ Cardinality(Asking(t)) <= Cardinality(Running)
         /\ Cardinality(Running) \in Nat
PROOF
<1>1. IsFiniteSet(Running) /\ Asking(t) \subseteq Running
  BY DEF IInv, Accounts, Asking, Running
<1>. QED
  BY <1>1, FS_Subset, FS_CardinalityType

\* A step of a run that starts and ends no asking, and no run, keeps the
\* accounts.
LEMMA AccountsKeep ==
  ASSUME IInv, UNCHANGED <<asked, wasted, overlaps>>,
         Running' = Running,
         \A t \in Patterns \ bank' : Asking(t)' = Asking(t),
         bank \subseteq bank'
  PROVE  Accounts'
PROOF
  BY DEF IInv, Accounts, PatternsArePaidOnce

\* The collection is written: each command keeps the documents in shape.
LEMMA MemoryKeepsShape ==
  ASSUME MemoryShape, MemoryNext
  PROVE  MemoryShape'
PROOF
<1>1. ASSUME NEW i \in Incidents, Record(i) \/ Seed(i)
      PROVE  MemoryShape'
  BY <1>1, MemoryAssumption DEF Record, Seed, Upsert, MemoryShape
<1>2. ASSUME NEW i \in Incidents, NEW c \in Causes, UpdateResolution(i, c)
      PROVE  MemoryShape'
  BY <1>2 DEF UpdateResolution, MemoryShape
<1>3. CASE Tick
  BY <1>3 DEF Tick, MemoryShape
<1>. QED
  BY <1>1, <1>2, <1>3 DEF MemoryNext

\* Writes of the collection are none of the runs' business.
LEMMA RememberKeeps ==
  ASSUME IInv, Remember \/ UNCHANGED curatorVars
  PROVE  IInv'
PROOF
<1>1. UNCHANGED <<stage, window, todo, active, bank, torn, asked, overlaps, wasted, spoiled>>
  BY DEF Remember, curatorVars, runs, files, curatorHistory
<1>2. MemoryShape'
  <2>1. CASE Remember
    BY <2>1, MemoryKeepsShape DEF Remember, IInv, Shape
  <2>2. CASE UNCHANGED curatorVars
    BY <2>2 DEF curatorVars, memory, IInv, Shape, MemoryShape
  <2>. QED
    BY <2>1, <2>2
<1>3. Shape'
  BY <1>1, <1>2 DEF IInv, Shape
<1>4. \A r : Current(r)' = Current(r)
  BY <1>1 DEF Current
<1>5. Running' = Running /\ \A t : Asking(t)' = Asking(t)
  BY <1>1, <1>4 DEF Running, Asking
<1>6. Accounts'
  BY <1>1, <1>5, AccountsKeep
<1>7. Coverage'
  BY <1>1, <1>4 DEF IInv, Coverage
<1>. QED
  BY <1>3, <1>6, <1>7 DEF IInv

-----------------------------------------------------------------------------
(* The steps of a run *)

\* A run of another process is where it was.
LEMMA OthersStand ==
  ASSUME NEW r \in Processes, IInv, NEW x, NEW y,
         stage' = [stage EXCEPT ![r] = x], todo' = [todo EXCEPT ![r] = y]
  PROVE  /\ \A q \in Processes \ {r} :
              stage'[q] = stage[q] /\ todo'[q] = todo[q] /\ Current(q)' = Current(q)
         /\ stage'[r] = x /\ todo'[r] = y
PROOF
<1>1. \A q \in Processes \ {r} : stage'[q] = stage[q] /\ todo'[q] = todo[q]
  BY DEF IInv, Shape
<1>2. stage'[r] = x /\ todo'[r] = y
  BY DEF IInv, Shape
<1>3. \A q \in Processes \ {r} : Current(q)' = Current(q)
  BY <1>1 DEF Current
<1>. QED
  BY <1>1, <1>2, <1>3

\* The same, where no cluster is taken.
LEMMA OnlyOneMoves ==
  ASSUME NEW r \in Processes, IInv, NEW x,
         stage' = [stage EXCEPT ![r] = x], todo' = todo
  PROVE  /\ \A q \in Processes \ {r} : stage'[q] = stage[q]
         /\ stage'[r] = x
         /\ \A q : Current(q)' = Current(q)
         /\ todo' = [todo EXCEPT ![r] = todo[r]]
PROOF
<1>1. (\A q \in Processes \ {r} : stage'[q] = stage[q]) /\ stage'[r] = x
  BY DEF IInv, Shape
<1>2. \A q : Current(q)' = Current(q)
  BY DEF Current
<1>3. todo' = [todo EXCEPT ![r] = todo[r]]
  BY DEF IInv, Shape
<1>. QED
  BY <1>1, <1>2, <1>3

\* The shape of the state after a step of run r.
LEMMA ShapeKeeps ==
  ASSUME Shape, NEW r \in Processes, NEW x \in Stages, NEW w, NEW y, NEW a,
         UNCHANGED <<now, recorded, cause, resolved, verdicts>>,
         stage' = [stage EXCEPT ![r] = x],
         window' = window \/ window' = [window EXCEPT ![r] = w],
         todo' = todo \/ todo' = [todo EXCEPT ![r] = y],
         active' = active \/ active' = [active EXCEPT ![r] = a],
         asked' \in [Patterns -> Nat], wasted' \in [Patterns -> Nat],
         overlaps' \in Nat
  PROVE  Shape'
PROOF
<1>1. MemoryShape'
  BY DEF Shape, MemoryShape
<1>2. stage' \in [Processes -> Stages]
  BY DEF Shape
<1>3. window' = [q \in Processes |-> window'[q]]
  BY DEF Shape
<1>4. todo' = [q \in Processes |-> todo'[q]]
  BY DEF Shape
<1>5. active' = [q \in Processes |-> active'[q]]
  BY DEF Shape
<1>. QED
  BY <1>1, <1>2, <1>3, <1>4, <1>5 DEF Shape

\* A run more is under way, and it overlaps another or is the only one.
LEMMA StartKeeps ==
  ASSUME IInv, NEW r \in Processes, NEW since, Start(r, since)
  PROVE  IInv'
PROOF
<1>. DEFINE read == Eligible(ResolvedSince(since))
<1>1. /\ stage[r] \in {"off", "done"}
      /\ stage' = [stage EXCEPT ![r] = "listing"]
      /\ window' = [window EXCEPT ![r] = read]
      /\ todo' = [todo EXCEPT ![r] = read]
      /\ active' = [active EXCEPT ![r] = {}]
      /\ overlaps' = IF \E q \in Processes : stage[q] \notin {"off", "done"}
                       THEN overlaps + 1 ELSE overlaps
      /\ UNCHANGED <<now, recorded, cause, resolved, verdicts>>
      /\ UNCHANGED <<bank, torn, asked, wasted, spoiled>>
  BY DEF Start, memory, files
<1>. HIDE DEF read
<1>2. /\ \A q \in Processes \ {r} :
           stage'[q] = stage[q] /\ todo'[q] = todo[q] /\ Current(q)' = Current(q)
      /\ stage'[r] = "listing" /\ todo'[r] = read
  BY <1>1, OthersStand
<1>3. Shape'
  <2>1. overlaps' \in Nat /\ asked' \in [Patterns -> Nat] /\ wasted' \in [Patterns -> Nat]
    BY <1>1 DEF IInv, Shape
  <2>2. "listing" \in Stages
    BY DEF Stages
  <2>. QED
    BY <1>1, <2>1, <2>2, ShapeKeeps DEF IInv
<1>4. Running' = Running \cup {r} /\ r \notin Running
  BY <1>1, <1>2 DEF Running
<1>5. \A t : Asking(t)' = Asking(t)
  BY <1>1, <1>2 DEF Asking
<1>6. Accounts'
  <2>1. /\ IsFiniteSet(Running) /\ Cardinality(Running) \in Nat
        /\ Cardinality(Running) <= 1 + overlaps /\ overlaps \in Nat
    BY FS_CardinalityType DEF IInv, Accounts, Shape
  <2>2. IsFiniteSet(Running') /\ Cardinality(Running') = Cardinality(Running) + 1
    BY <1>4, <2>1, FS_AddElement
  <2>3. Cardinality(Running') <= 1 + overlaps'
    <3>1. CASE Running = {}
      <4>1. Cardinality(Running) = 0
        BY <3>1, FS_EmptySet
      <4>2. overlaps' \in Nat
        BY <1>3 DEF Shape
      <4>3. Cardinality(Running') = 1
        BY <2>1, <2>2, <4>1
      <4>4. \A n \in Nat : 1 <= 1 + n
        OBVIOUS
      <4>. QED
        BY <4>2, <4>3, <4>4
    <3>2. CASE Running # {}
      <4>1. overlaps' = overlaps + 1
        BY <1>1, <3>2 DEF Running
      <4>. QED
        BY <2>1, <2>2, <4>1
    <3>. QED
      BY <3>1, <3>2
  <2>4. \A t \in Patterns \ bank' :
          asked'[t] <= wasted'[t] + Cardinality(Asking(t)')
    BY <1>1, <1>5 DEF IInv, Accounts
  <2>5. PatternsArePaidOnce'
    <3>1. overlaps' \in Nat /\ overlaps' >= overlaps
      BY <1>1, <2>1
    <3>. QED
      BY <1>1, <2>1, <3>1 DEF IInv, Accounts, PatternsArePaidOnce, Shape
  <2>. QED
    BY <2>2, <2>3, <2>4, <2>5 DEF Accounts
<1>7. Coverage'
  <2>1. window'[r] = read /\ active'[r] = {}
    BY <1>1 DEF IInv, Shape
  <2>2. \A q \in Processes \ {r} : window'[q] = window[q] /\ active'[q] = active[q]
    BY <1>1 DEF IInv, Shape
  <2>. QED
    BY <1>1, <1>2, <2>1, <2>2 DEF IInv, Coverage
<1>. QED
  BY <1>3, <1>6, <1>7 DEF IInv

\* A step within a run: the run stays under way, and the step asks for nothing.
LEMMA WithinARun ==
  ASSUME IInv, NEW r \in Processes,
         NEW x \in Stages \ {"off", "asking"}, NEW y,
         stage[r] \notin {"off", "done"},
         stage' = [stage EXCEPT ![r] = x], todo' = [todo EXCEPT ![r] = y],
         UNCHANGED <<now, recorded, cause, resolved, verdicts>>,
         UNCHANGED <<window, asked, overlaps, wasted>>,
         active' = [q \in Processes |-> active'[q]],
         x # "done", bank \subseteq bank',
         stage[r] = "asking" => Current(r) \in bank'
  PROVE  Shape' /\ Accounts'
PROOF
<1>1. /\ \A q \in Processes \ {r} :
           stage'[q] = stage[q] /\ todo'[q] = todo[q] /\ Current(q)' = Current(q)
      /\ stage'[r] = x /\ todo'[r] = y
  BY OthersStand
<1>2. Shape'
  BY DEF IInv, Shape, MemoryShape
<1>3. Running' = Running
  BY <1>1 DEF Running
<1>4. \A t \in Patterns \ bank' : Asking(t)' = Asking(t)
  BY <1>1 DEF Asking
<1>5. Accounts'
  BY <1>3, <1>4, AccountsKeep
<1>. QED
  BY <1>2, <1>5

\* The keys listed are names of files.
LEMMA ListKeeps ==
  ASSUME IInv, NEW r \in Processes, List(r)
  PROVE  IInv'
PROOF
<1>1. /\ stage[r] = "listing" /\ stage' = [stage EXCEPT ![r] = "choosing"]
      /\ active' = [active EXCEPT ![r] = bank]
      /\ UNCHANGED <<now, recorded, cause, resolved, verdicts>>
      /\ UNCHANGED <<window, todo, bank, torn, asked, overlaps, wasted, spoiled>>
  BY DEF List, Go, memory, files, curatorHistory
<1>2. todo' = [todo EXCEPT ![r] = todo[r]]
  BY <1>1 DEF IInv, Shape
<1>3. /\ active' = [q \in Processes |-> active'[q]] /\ active'[r] = bank
      /\ \A q \in Processes \ {r} : active'[q] = active[q]
  BY <1>1 DEF IInv, Shape
<1>4. Shape' /\ Accounts'
  BY <1>1, <1>2, <1>3, WithinARun DEF Stages
<1>5. /\ \A q \in Processes \ {r} : stage'[q] = stage[q]
      /\ stage'[r] = "choosing" /\ \A q : Current(q)' = Current(q)
  BY <1>1, OnlyOneMoves
<1>6. Coverage'
  BY <1>1, <1>3, <1>5 DEF IInv, Coverage
<1>. QED
  BY <1>4, <1>6 DEF IInv

\* What is skipped is filed.
LEMMA SkipKeeps ==
  ASSUME IInv, NEW r \in Processes, Skip(r)
  PROVE  IInv'
PROOF
<1>1. /\ stage[r] = "choosing" /\ stage' = [stage EXCEPT ![r] = "choosing"]
      /\ todo' = [todo EXCEPT ![r] = todo[r] \ {Current(r)}]
      /\ Current(r) \in active[r] \/ Current(r) \in bank
      /\ UNCHANGED <<now, recorded, cause, resolved, verdicts>>
      /\ UNCHANGED <<window, active, bank, torn, asked, overlaps, wasted, spoiled>>
  BY DEF Skip, Go, Known, memory, files, curatorHistory
<1>2. Current(r) \in bank
  BY <1>1 DEF IInv, Coverage
<1>3. Shape' /\ Accounts'
  BY <1>1, WithinARun DEF Stages, IInv, Shape
<1>4. /\ \A q \in Processes \ {r} :
           stage'[q] = stage[q] /\ todo'[q] = todo[q] /\ Current(q)' = Current(q)
      /\ stage'[r] = "choosing" /\ todo'[r] = todo[r] \ {Current(r)}
  BY <1>1, OthersStand
<1>5. Coverage'
  BY <1>1, <1>2, <1>4 DEF IInv, Coverage
<1>. QED
  BY <1>3, <1>5 DEF IInv

\* A pattern is asked for that is not filed: one more asking under way.
LEMMA AskKeeps ==
  ASSUME IInv, NEW r \in Processes, Ask(r)
  PROVE  IInv'
PROOF
<1>. DEFINE t0 == Current(r)
<1>1. /\ stage[r] = "choosing" /\ stage' = [stage EXCEPT ![r] = "asking"]
      /\ asked' = [asked EXCEPT ![t0] = @ + 1]
      /\ t0 \notin bank
      /\ UNCHANGED <<now, recorded, cause, resolved, verdicts>>
      /\ UNCHANGED <<window, todo, active, bank, torn, overlaps, wasted, spoiled>>
  BY DEF Ask, Go, Known, memory, files
<1>3. /\ \A q \in Processes \ {r} : stage'[q] = stage[q]
      /\ stage'[r] = "asking" /\ \A q : Current(q)' = Current(q)
  BY <1>1, OnlyOneMoves
<1>. HIDE DEF t0
<1>4. Shape'
  <2>1. wasted' \in [Patterns -> Nat] /\ overlaps' \in Nat
    BY <1>1 DEF IInv, Shape
  <2>2. asked' \in [Patterns -> Nat]
    <3>1. asked \in [Patterns -> Nat]
      BY DEF IInv, Shape
    <3>2. \A t \in Patterns : asked[t] + 1 \in Nat
      BY <3>1
    <3>. QED
      BY <1>1, <3>1, <3>2
  <2>3. "asking" \in Stages
    BY DEF Stages
  <2>. QED
    BY <1>1, <2>1, <2>2, <2>3, ShapeKeeps DEF IInv
<1>5. Running' = Running
  BY <1>1, <1>3 DEF Running
<1>6. \A t : /\ t = t0 => Asking(t)' = Asking(t) \cup {r} /\ r \notin Asking(t)
             /\ t # t0 => Asking(t)' = Asking(t)
  BY <1>1, <1>3 DEF Asking, t0
<1>7. ASSUME NEW t, t = t0
      PROVE  /\ Cardinality(Asking(t)) \in Nat
             /\ Cardinality(Asking(t)') = Cardinality(Asking(t)) + 1
  BY <1>6, <1>7, AskingsAreRunning, FS_AddElement
<1>8. /\ IsFiniteSet(Running') /\ Cardinality(Running') \in Nat
      /\ Cardinality(Running') <= 1 + overlaps /\ overlaps \in Nat
  BY <1>5, AskingsAreRunning DEF IInv, Accounts, Shape
<1>9. ASSUME NEW t
      PROVE  Cardinality(Asking(t)') \in Nat /\ Cardinality(Asking(t)') <= 1 + overlaps
  <2>1. Asking(t)' \subseteq Running'
    BY DEF Asking, Running
  <2>2. /\ Cardinality(Asking(t)') \in Nat
        /\ Cardinality(Asking(t)') <= Cardinality(Running')
    BY <1>8, <2>1, FS_Subset, FS_CardinalityType
  <2>. QED
    BY <1>8, <2>2
<1>10. ASSUME NEW t \in Patterns
       PROVE  /\ asked[t] \in Nat /\ asked'[t] \in Nat /\ wasted[t] \in Nat
              /\ asked'[t] = IF t = t0 THEN asked[t] + 1 ELSE asked[t]
  BY <1>1, <1>4 DEF IInv, Shape
<1>11. ASSUME NEW t \in Patterns, t \notin bank
       PROVE  asked'[t] <= wasted[t] + Cardinality(Asking(t)')
  <2>1. asked[t] <= wasted[t] + Cardinality(Asking(t))
    BY <1>11 DEF IInv, Accounts
  <2>2. CASE t = t0
    <3>1. /\ Cardinality(Asking(t)) \in Nat
          /\ Cardinality(Asking(t)') = Cardinality(Asking(t)) + 1
      BY <1>7, <2>2
    <3>. QED
      BY <1>10, <2>1, <2>2, <3>1
  <2>3. CASE t # t0
    <3>1. Asking(t)' = Asking(t) /\ asked'[t] = asked[t]
      BY <1>6, <1>10, <2>3
    <3>. QED
      BY <2>1, <3>1
  <2>. QED
    BY <2>2, <2>3
<1>12. ASSUME NEW t \in Patterns
       PROVE  asked'[t] <= 1 + wasted[t] + overlaps
  <2>1. CASE t = t0
    <3>1. asked'[t] <= wasted[t] + Cardinality(Asking(t)')
      BY <1>1, <1>11, <2>1
    <3>. QED
      BY <1>8, <1>9, <1>10, <3>1
  <2>2. CASE t # t0
    <3>1. asked'[t] = asked[t]
      BY <1>10, <2>2
    <3>. QED
      BY <3>1 DEF IInv, Accounts, PatternsArePaidOnce
  <2>. QED
    BY <2>1, <2>2
<1>13. Accounts'
  BY <1>1, <1>8, <1>11, <1>12 DEF Accounts, PatternsArePaidOnce
<1>14. Coverage'
  BY <1>1, <1>3 DEF IInv, Coverage
<1>. QED
  BY <1>4, <1>13, <1>14 DEF IInv

\* An asking ends in a file, and the file is being written.
LEMMA OpenFileKeeps ==
  ASSUME IInv, NEW r \in Processes, OpenFile(r)
  PROVE  IInv'
PROOF
<1>1. /\ stage[r] = "asking" /\ stage' = [stage EXCEPT ![r] = "writing"]
      /\ bank' = bank \cup {Current(r)}
      /\ torn' = torn \cup {Current(r)}
      /\ UNCHANGED <<now, recorded, cause, resolved, verdicts>>
      /\ UNCHANGED <<window, todo, active, asked, overlaps, wasted, spoiled>>
  BY DEF OpenFile, Go, memory, curatorHistory
<1>2. todo' = [todo EXCEPT ![r] = todo[r]]
  BY <1>1 DEF IInv, Shape
<1>3. Shape' /\ Accounts'
  BY <1>1, <1>2, WithinARun DEF Stages, IInv, Shape
<1>4. /\ \A q \in Processes \ {r} : stage'[q] = stage[q]
      /\ stage'[r] = "writing" /\ \A q : Current(q)' = Current(q)
  BY <1>1, OnlyOneMoves
<1>5. Coverage'
  BY <1>1, <1>4 DEF IInv, Coverage
<1>. QED
  BY <1>3, <1>5 DEF IInv

\* The file is whole, or spoiled by another writer.
LEMMA CloseFileKeeps ==
  ASSUME IInv, NEW r \in Processes, CloseFile(r)
  PROVE  IInv'
PROOF
<1>1. /\ stage[r] = "writing" /\ stage' = [stage EXCEPT ![r] = "choosing"]
      /\ todo' = [todo EXCEPT ![r] = todo[r] \ {Current(r)}]
      /\ \/ torn' = torn \ {Current(r)} /\ spoiled' = spoiled
         \/ /\ torn' = torn \cup {Current(r)}
            /\ spoiled' = spoiled \cup {Current(r)}
      /\ UNCHANGED <<now, recorded, cause, resolved, verdicts>>
      /\ UNCHANGED <<window, active, bank, asked, overlaps, wasted>>
  BY DEF CloseFile, Go, memory
<1>2. Current(r) \in bank
  BY <1>1 DEF IInv, Coverage
<1>3. Shape' /\ Accounts'
  BY <1>1, WithinARun DEF Stages, IInv, Shape
<1>4. /\ \A q \in Processes \ {r} :
           stage'[q] = stage[q] /\ todo'[q] = todo[q] /\ Current(q)' = Current(q)
      /\ stage'[r] = "choosing" /\ todo'[r] = todo[r] \ {Current(r)}
  BY <1>1, OthersStand
<1>5. \A t \in torn' : t \in spoiled' \/ \E q \in Processes :
                                           stage'[q] = "writing" /\ Current(q)' = t
  <2>. SUFFICES ASSUME NEW t \in torn', t \notin spoiled'
                PROVE  \E q \in Processes : stage'[q] = "writing" /\ Current(q)' = t
    OBVIOUS
  <2>1. t \in torn /\ t \notin spoiled /\ t # Current(r)
    BY <1>1
  <2>2. PICK q \in Processes : stage[q] = "writing" /\ Current(q) = t
    BY <2>1 DEF IInv, Coverage
  <2>. QED
    BY <1>4, <2>1, <2>2
<1>6. Coverage'
  BY <1>1, <1>2, <1>4, <1>5 DEF IInv, Coverage
<1>. QED
  BY <1>3, <1>6 DEF IInv

\* A run less is under way, and no asking is.
LEMMA ReportKeeps ==
  ASSUME IInv, NEW r \in Processes, Report(r)
  PROVE  IInv'
PROOF
<1>1. /\ todo[r] = {}
      /\ stage[r] = "choosing" /\ stage' = [stage EXCEPT ![r] = "done"]
      /\ UNCHANGED <<now, recorded, cause, resolved, verdicts>>
      /\ UNCHANGED <<window, todo, active, bank, torn, asked, overlaps, wasted, spoiled>>
  BY DEF Report, Go, memory, files, curatorHistory
<1>3. /\ \A q \in Processes \ {r} : stage'[q] = stage[q]
      /\ stage'[r] = "done" /\ \A q : Current(q)' = Current(q)
  BY <1>1, OnlyOneMoves
<1>4. Shape'
  <2>1. asked' \in [Patterns -> Nat] /\ wasted' \in [Patterns -> Nat] /\ overlaps' \in Nat
    BY <1>1 DEF IInv, Shape
  <2>2. "done" \in Stages
    BY DEF Stages
  <2>. QED
    BY <1>1, <2>1, <2>2, ShapeKeeps DEF IInv
<1>5. Running' \subseteq Running /\ \A t : Asking(t)' = Asking(t)
  BY <1>1, <1>3 DEF Running, Asking
<1>6. Accounts'
  <2>1. /\ IsFiniteSet(Running) /\ Cardinality(Running) \in Nat
        /\ Cardinality(Running) <= 1 + overlaps /\ overlaps \in Nat
    BY FS_CardinalityType DEF IInv, Accounts, Shape
  <2>2. /\ IsFiniteSet(Running') /\ Cardinality(Running') \in Nat
        /\ Cardinality(Running') <= Cardinality(Running)
    BY <1>5, <2>1, FS_Subset, FS_CardinalityType
  <2>3. Cardinality(Running') <= 1 + overlaps'
    BY <1>1, <2>1, <2>2
  <2>. QED
    BY <1>1, <1>5, <2>2, <2>3 DEF IInv, Accounts, PatternsArePaidOnce
<1>7. Coverage'
  BY <1>1, <1>3 DEF IInv, Coverage
<1>. QED
  BY <1>4, <1>6, <1>7 DEF IInv

\* An asking under way becomes a wasted one, a file being written a spoiled one.
LEMMA BreakKeeps ==
  ASSUME IInv, NEW r \in Processes, Break(r)
  PROVE  IInv'
PROOF
<1>. DEFINE t0 == Current(r)
<1>1. /\ stage[r] \in {"listing", "choosing", "asking", "writing"}
      /\ stage' = [stage EXCEPT ![r] = "off"]
      /\ wasted' = IF stage[r] = "asking"
                     THEN [wasted EXCEPT ![t0] = @ + 1] ELSE wasted
      /\ IF stage[r] = "writing"
           THEN /\ spoiled' = spoiled \cup {t0}
                /\ torn' \in {torn, torn \cup {t0}}
           ELSE UNCHANGED <<spoiled, torn>>
      /\ window' = [window EXCEPT ![r] = {}]
      /\ todo' = [todo EXCEPT ![r] = {}]
      /\ active' = [active EXCEPT ![r] = {}]
      /\ UNCHANGED <<now, recorded, cause, resolved, verdicts>>
      /\ UNCHANGED <<bank, asked, overlaps>>
  BY DEF Break, memory
<1>2. /\ \A q \in Processes \ {r} :
           stage'[q] = stage[q] /\ todo'[q] = todo[q] /\ Current(q)' = Current(q)
      /\ stage'[r] = "off" /\ todo'[r] = {}
  BY <1>1, OthersStand
<1>. HIDE DEF t0
<1>3. Shape'
  <2>1. asked' \in [Patterns -> Nat] /\ overlaps' \in Nat
    BY <1>1 DEF IInv, Shape
  <2>2. wasted' \in [Patterns -> Nat]
    <3>1. wasted \in [Patterns -> Nat]
      BY DEF IInv, Shape
    <3>2. \A t \in Patterns : wasted[t] + 1 \in Nat
      BY <3>1
    <3>. QED
      BY <1>1, <3>1, <3>2
  <2>3. "off" \in Stages
    BY DEF Stages
  <2>. QED
    BY <1>1, <2>1, <2>2, <2>3, ShapeKeeps DEF IInv
<1>4. Running' \subseteq Running
  BY <1>1, <1>2 DEF Running
<1>5. \A t : Asking(t)' = IF stage[r] = "asking" /\ t = t0
                            THEN Asking(t) \ {r} ELSE Asking(t)
  BY <1>1, <1>2 DEF Asking, t0
<1>6. /\ IsFiniteSet(Running') /\ Cardinality(Running') <= 1 + overlaps'
  <2>1. /\ IsFiniteSet(Running) /\ Cardinality(Running) \in Nat
        /\ Cardinality(Running) <= 1 + overlaps /\ overlaps \in Nat
    BY FS_CardinalityType DEF IInv, Accounts, Shape
  <2>2. /\ IsFiniteSet(Running') /\ Cardinality(Running') \in Nat
        /\ Cardinality(Running') <= Cardinality(Running)
    BY <1>4, <2>1, FS_Subset, FS_CardinalityType
  <2>. QED
    BY <1>1, <2>1, <2>2
<1>7. \A t \in Patterns : /\ asked[t] \in Nat /\ wasted[t] \in Nat /\ overlaps \in Nat
                          /\ wasted'[t] = IF stage[r] = "asking" /\ t = t0
                                            THEN wasted[t] + 1 ELSE wasted[t]
  BY <1>1 DEF IInv, Shape
<1>8. \A t \in Patterns \ bank' : asked'[t] <= wasted'[t] + Cardinality(Asking(t)')
  <2>. SUFFICES ASSUME NEW t \in Patterns \ bank
                PROVE  asked[t] <= wasted'[t] + Cardinality(Asking(t)')
    BY <1>1
  <2>1. asked[t] <= wasted[t] + Cardinality(Asking(t))
    BY DEF IInv, Accounts
  <2>2. CASE stage[r] = "asking" /\ t = t0
    <3>1. r \in Asking(t) /\ Asking(t)' = Asking(t) \ {r}
      BY <1>5, <2>2 DEF Asking, t0
    <3>2. /\ Cardinality(Asking(t)) \in Nat
          /\ Cardinality(Asking(t)') = Cardinality(Asking(t)) - 1
      BY <3>1, AskingsAreRunning, FS_RemoveElement
    <3>. QED
      BY <1>7, <2>1, <2>2, <3>2
  <2>3. CASE ~(stage[r] = "asking" /\ t = t0)
    BY <1>5, <1>7, <2>1, <2>3
  <2>. QED
    BY <2>2, <2>3
<1>9. PatternsArePaidOnce'
  <2>. SUFFICES ASSUME NEW t \in Patterns
                PROVE  asked[t] <= 1 + wasted'[t] + overlaps
    BY <1>1 DEF PatternsArePaidOnce
  <2>1. asked[t] <= 1 + wasted[t] + overlaps
    BY DEF IInv, Accounts, PatternsArePaidOnce
  <2>. QED
    BY <1>7, <2>1
<1>10. Accounts'
  BY <1>6, <1>8, <1>9 DEF Accounts
<1>11. \A t \in torn' : t \in spoiled' \/ \E q \in Processes :
                                            stage'[q] = "writing" /\ Current(q)' = t
  <2>. SUFFICES ASSUME NEW t \in torn', t \notin spoiled'
                PROVE  \E q \in Processes : stage'[q] = "writing" /\ Current(q)' = t
    OBVIOUS
  <2>1. t \in torn /\ t \notin spoiled /\ (stage[r] = "writing" => t # t0)
    BY <1>1
  <2>2. PICK q \in Processes : stage[q] = "writing" /\ Current(q) = t
    BY <2>1 DEF IInv, Coverage
  <2>3. q # r
    BY <2>1, <2>2 DEF t0
  <2>. QED
    BY <1>2, <2>2, <2>3
<1>12. Coverage'
  <2>1. /\ window'[r] = {} /\ active'[r] = {}
        /\ \A q \in Processes \ {r} : window'[q] = window[q] /\ active'[q] = active[q]
    BY <1>1 DEF IInv, Shape
  <2>. QED
    BY <1>1, <1>2, <1>11, <2>1 DEF IInv, Coverage
<1>. QED
  BY <1>3, <1>10, <1>12 DEF IInv

\* Every step keeps the invariant.
LEMMA NextKeepsIInv == IInv /\ [CuratorNext]_curatorVars => IInv'
PROOF
<1>. SUFFICES ASSUME IInv, [CuratorNext]_curatorVars PROVE IInv'
  OBVIOUS
<1>1. CASE Remember \/ UNCHANGED curatorVars
  BY <1>1, RememberKeeps
<1>2. ASSUME NEW r \in Processes, NEW since \in 0..MaxTime, Start(r, since)
      PROVE  IInv'
  BY <1>2, StartKeeps
<1>3. ASSUME NEW r \in Processes, RunStep(r)
      PROVE  IInv'
  BY <1>3, ListKeeps, SkipKeeps, AskKeeps, OpenFileKeeps, CloseFileKeeps,
     ReportKeeps, BreakKeeps DEF RunStep
<1>. QED
  BY <1>1, <1>2, <1>3 DEF CuratorNext

-----------------------------------------------------------------------------
(* The theorems *)

\* The invariant holds for any number of incidents, processes and runs.
THEOREM CuratorInvariantHolds == CuratorSpec => []IInv
PROOF
<1>. QED
  BY InitIInv, NextKeepsIInv, PTL DEF CuratorSpec

\* However runs overlap, fail and are stopped, the model is asked for a pattern
\* once, plus once for each wasted answer and each overlap.
THEOREM TheModelIsPaidOnce == CuratorSpec => []PatternsArePaidOnce
PROOF
<1>1. IInv => PatternsArePaidOnce
  BY DEF IInv, Accounts
<1>. QED
  BY <1>1, CuratorInvariantHolds, PTL

\* A run that reports has left a pattern for each cluster it read, whole unless
\* someone spoiled it or is writing it.
THEOREM ReportsAreComplete == CuratorSpec => []ReportedRunsCoverTheirWindow
PROOF
<1>1. IInv => ReportedRunsCoverTheirWindow
  BY DEF IInv, Coverage, ReportedRunsCoverTheirWindow
<1>. QED
  BY <1>1, CuratorInvariantHolds, PTL

\* No record of an investigation and no run of the curator takes a verdict
\* back; the on-call does, or the seeding script for what it seeds.
THEOREM OnlyVerdictsChangeVerdicts == CuratorSpec => VerdictsStand
PROOF
<1>1. ASSUME IInv, [CuratorNext]_curatorVars,
             NEW i \in recorded, cause[i] # Open
      PROVE  /\ i \in recorded'
             /\ \/ cause'[i] = cause[i]
                \/ verdicts' > verdicts
                \/ i \in Seeds /\ cause'[i] = SeedCause[i]
  <2>. i \in Incidents /\ cause \in [Incidents -> Causes \cup {Open}] /\ verdicts \in Nat
    BY <1>1 DEF IInv, Shape, MemoryShape
  <2>1. CASE UNCHANGED <<recorded, cause>>
    BY <1>1, <2>1
  <2>2. ASSUME NEW j \in Incidents, Record(j)
        PROVE  i \in recorded' /\ cause'[i] = cause[i]
    <3>1. j # i /\ recorded' = recorded \cup {j} /\ cause' = [cause EXCEPT ![j] = Open]
      BY <1>1, <2>2 DEF Record, Upsert
    <3>. QED
      BY <1>1, <3>1
  <2>3. ASSUME NEW j \in Incidents, Seed(j)
        PROVE  /\ i \in recorded'
               /\ cause'[i] = cause[i] \/ (i \in Seeds /\ cause'[i] = SeedCause[i])
    BY <1>1, <2>3 DEF Seed, Upsert
  <2>4. ASSUME NEW j \in Incidents, NEW c \in Causes, UpdateResolution(j, c)
        PROVE  i \in recorded' /\ verdicts' > verdicts
    BY <1>1, <2>4 DEF UpdateResolution
  <2>5. CASE Remember
    BY <1>1, <2>1, <2>2, <2>3, <2>4, <2>5 DEF Remember, MemoryNext, Tick
  <2>6. ASSUME NEW r \in Processes, (\E since \in 0..MaxTime : Start(r, since)) \/ RunStep(r)
        PROVE  UNCHANGED <<recorded, cause>>
    BY <2>6 DEF Start, RunStep, List, Skip, Ask, OpenFile, CloseFile, Report, Break, memory
  <2>7. CASE UNCHANGED curatorVars
    BY <2>1, <2>7 DEF curatorVars, memory
  <2>. QED
    BY <1>1, <2>1, <2>5, <2>6, <2>7 DEF CuratorNext
<1>2. IInv /\ [CuratorNext]_curatorVars =>
        [\A i \in recorded : cause[i] # Open =>
           /\ i \in recorded'
           /\ \/ cause'[i] = cause[i]
              \/ verdicts' > verdicts
              \/ i \in Seeds /\ cause'[i] = SeedCause[i]]_memory
  BY <1>1
<1>. QED
  BY <1>2, CuratorInvariantHolds, PTL DEF CuratorSpec, VerdictsStand
=============================================================================
