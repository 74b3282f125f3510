------------------------ MODULE PhoenixTracerProofs -------------------------
(***************************************************************************)
(* What is proved of PhoenixTracer for every number of processes, verdicts *)
(* and failed writes: a failed write can spoil one verdict beside its own, *)
(* and a dashboard has no other reason to fail.                            *)
(***************************************************************************)
EXTENDS PhoenixTracer, DataTheorems

Lines == [kind : {"row", "blank", "torn"}, at : Int, correct : BOOLEAN]

Shape ==
  /\ now \in Nat
  /\ file \in Seq(Lines)
  /\ ragged \in BOOLEAN
  /\ IsFiniteSet(acked)
  /\ failures \in Nat

\* Every recorded verdict has its line, and the line a failed write left
\* unfinished is nobody's.
Ledger ==
  /\ ragged => file # <<>>
  /\ \A v \in acked : v.line \in 1..Len(file) /\ (ragged => v.line # Len(file))

Spoilt == {v \in acked : IsTorn(file[v.line])}

\* An unfinished line is one that may still cost a verdict.
Budget == Cardinality(Spoilt) + (IF ragged THEN 1 ELSE 0) <= failures

TornAfterAWrite == ragged \/ ~Readable(file) => failures > 0

\* The lines of failed writes that no verdict has joined.
Foreign == {i \in 1..Len(file) : /\ file[i].at # Ancient
                                 /\ \A v \in acked : v.line # i}

\* A copy of the rows: each is on the line it was read from, at least its time,
\* which no write changes.
IsCopy(rows) ==
  /\ DOMAIN rows \subseteq 1..Len(file)
  /\ \A i \in DOMAIN rows : rows[i].at = file[i].at /\ rows[i].correct \in BOOLEAN

\* A copy of the rows has every verdict of its process.
HasOwn(p, rows) ==
  \A v \in acked : v.by = p => v.line \in DOMAIN rows /\ rows[v.line] = v.row

\* What the answers rest on: every verdict has a line to itself, which says what
\* the verdict said or is torn; failed writes leave no more lines than there
\* were; and what a process holds is a copy that has its own verdicts.
Answers ==
  /\ \A v \in acked :
       /\ v.row.at \in Nat
       /\ v.row.correct \in BOOLEAN
       /\ v.row.kind = "row"
       /\ v.row.at >= file[v.line].at
       /\ (file[v.line] = v.row \/ IsTorn(file[v.line]))
  /\ \A v, w \in acked : v.line = w.line => v = w
  /\ Cardinality(Foreign) <= failures
  /\ \A i \in 1..Len(file) : file[i].at <= now
  /\ cached = [p \in Processes |-> cached[p]]
  /\ \A p \in Processes : cached[p].loaded =>
       IsCopy(cached[p].rows) /\ HasOwn(p, cached[p].rows)
  /\ now >= Window

IInv == Shape /\ Ledger /\ Budget /\ TornAfterAWrite /\ DashboardFailsAfterAWrite

-----------------------------------------------------------------------------
\* Where a line goes: behind the others, or into the unfinished one, which is
\* torn from then on.  The other lines stay as they are, and all keep their time.
LEMMA ExtendedLines ==
  ASSUME Shape, Ledger, NEW line \in Lines
  PROVE  /\ Extended(line) \in Seq(Lines)
         /\ Len(Extended(line)) = IF ragged THEN Len(file) ELSE Len(file) + 1
         /\ Len(Extended(line)) > 0
         /\ \A i \in 1..Len(file) :
              (ragged /\ i = Len(file)) \/ Extended(line)[i] = file[i]
         /\ \A i \in 1..Len(file) : Extended(line)[i].at = file[i].at
         /\ Extended(line)[Len(Extended(line))].kind = IF ragged THEN "torn" ELSE line.kind
         /\ ragged \/ Extended(line)[Len(Extended(line))] = line
PROOF
<1>1. CASE ragged
  <2>1. file # <<>> /\ Len(file) \in 1..Len(file) /\ file[Len(file)] \in Lines
    BY <1>1 DEF Shape, Ledger
  <2>2. [file[Len(file)] EXCEPT !.kind = "torn"] \in Lines
    BY <2>1 DEF Lines
  <2>3. Extended(line) = [file EXCEPT ![Len(file)] = [file[Len(file)] EXCEPT !.kind = "torn"]]
    BY <1>1 DEF Extended
  <2>4. /\ Extended(line) \in Seq(Lines)
        /\ Len(Extended(line)) = Len(file)
        /\ \A i \in 1..Len(file) :
             Extended(line)[i] = IF i = Len(file)
               THEN [file[Len(file)] EXCEPT !.kind = "torn"] ELSE file[i]
    BY <2>1, <2>2, <2>3, ExceptSeq DEF Shape
  <2>. QED
    BY <1>1, <2>1, <2>4 DEF Lines
<1>2. CASE ~ragged
  <2>1. Extended(line) = Append(file, line)
    BY <1>2 DEF Extended
  <2>2. /\ Extended(line) \in Seq(Lines)
        /\ Len(Extended(line)) = Len(file) + 1
        /\ \A i \in 1..Len(file) : Extended(line)[i] = file[i]
        /\ Extended(line)[Len(file) + 1] = line
    BY <2>1, AppendProperties DEF Shape
  <2>. QED
    BY <1>2, <2>2 DEF Shape
<1>. QED
  BY <1>1, <1>2

\* An empty file owes nobody anything.
LEMMA InitIInv ==
  ASSUME TracerAssumption, TracerInit
  PROVE  IInv
PROOF
<1>1. PICK old \in OldFiles : file = old
  BY DEF TracerInit
<1>2. /\ file \in Seq([kind : {"row", "blank"}, at : {Ancient}, correct : BOOLEAN])
      /\ Window \in Nat
  BY <1>1 DEF TracerAssumption
<1>3. /\ file \in Seq(Lines)
      /\ \A i \in DOMAIN file : file[i].kind # "torn"
  <2>1. [kind : {"row", "blank"}, at : {Ancient}, correct : BOOLEAN] \subseteq Lines
    BY DEF Lines, Ancient
  <2>2. \A i \in 1..Len(file) :
          file[i] \in [kind : {"row", "blank"}, at : {Ancient}, correct : BOOLEAN]
    BY <1>2, ElementOfSeq
  <2>3. DOMAIN file = 1..Len(file)
    BY <1>2
  <2>. QED
    BY <1>2, <2>1, <2>2, <2>3
<1>4. acked = {} /\ ragged = FALSE /\ failures = 0 /\ answer.kind # "raised" /\ now \in Nat
  BY <1>2 DEF TracerInit, NoAnswer
<1>5. Spoilt = {} /\ IsFiniteSet(acked) /\ Cardinality(Spoilt) = 0
  BY <1>4, FS_EmptySet DEF Spoilt
<1>6. Shape /\ Ledger
  BY <1>3, <1>4, <1>5 DEF Shape, Ledger
<1>7. Budget
  BY <1>4, <1>5 DEF Budget
<1>8. TornAfterAWrite /\ DashboardFailsAfterAWrite
  BY <1>3, <1>4 DEF TornAfterAWrite, Readable, IsTorn, DashboardFailsAfterAWrite
<1>. QED
  BY <1>6, <1>7, <1>8 DEF IInv

-----------------------------------------------------------------------------
\* A recorded verdict is spoilt at once if it joins an unfinished line, and
\* that line is then finished.
LEMMA RecordOutcomeKeeps ==
  ASSUME IInv, NEW p \in Processes, NEW correct \in BOOLEAN,
         RecordOutcome(p, correct)
  PROVE  IInv'
PROOF
<1>. DEFINE row     == [kind |-> "row", at |-> now, correct |-> correct]
            verdict == [by |-> p, line |-> Len(file'), row |-> row]
<1>1. /\ file' = Extended(row)
      /\ ragged' = FALSE
      /\ acked' = acked \cup {verdict}
      /\ answer' = NoAnswer
      /\ now' = now /\ failures' = failures
  BY DEF RecordOutcome
<1>2. row \in Lines
  BY DEF Lines, IInv, Shape
<1>3. /\ file' \in Seq(Lines)
      /\ Len(file') = IF ragged THEN Len(file) ELSE Len(file) + 1
      /\ Len(file') > 0
      /\ \A i \in 1..Len(file) : (ragged /\ i = Len(file)) \/ file'[i] = file[i]
      /\ file'[Len(file')].kind = IF ragged THEN "torn" ELSE "row"
  BY <1>1, <1>2, ExtendedLines DEF IInv
<1>4. \A v \in acked : v.line \in 1..Len(file) /\ file'[v.line] = file[v.line]
  BY <1>3 DEF IInv, Ledger
<1>5. Shape'
  BY <1>1, <1>3, FS_AddElement DEF IInv, Shape
<1>6. Ledger'
  BY <1>1, <1>3, <1>4 DEF IInv, Shape, Ledger
<1>7. Spoilt' = IF ragged THEN Spoilt \cup {verdict} ELSE Spoilt
  <2>1. Spoilt' = Spoilt \cup {v \in {verdict} : IsTorn(file'[v.line])}
    BY <1>1, <1>4 DEF Spoilt, IsTorn
  <2>2. IsTorn(file'[verdict.line]) <=> ragged
    BY <1>3 DEF IsTorn
  <2>. QED
    BY <2>1, <2>2
<1>8. Budget'
  <2>1. IsFiniteSet(Spoilt) /\ Cardinality(Spoilt) \in Nat
    BY FS_Subset, FS_CardinalityType DEF Spoilt, IInv, Shape
  <2>2. Cardinality(Spoilt \cup {verdict}) \in {Cardinality(Spoilt), Cardinality(Spoilt) + 1}
    BY <2>1, FS_AddElement
  <2>. QED
    BY <1>1, <1>7, <2>1, <2>2 DEF Budget, IInv, Shape
<1>9. TornAfterAWrite'
  BY <1>1, <1>3 DEF IInv, Shape, TornAfterAWrite, Readable, IsTorn
<1>10. DashboardFailsAfterAWrite'
  BY <1>1 DEF DashboardFailsAfterAWrite, NoAnswer
<1>. QED
  BY <1>5, <1>6, <1>8, <1>9, <1>10 DEF IInv

\* What a failed write leaves: the lines as they were but for an unfinished
\* one, perhaps one more, and an unfinished one only where it was so before or
\* where the new one is.
LEMMA FailedWriteLines ==
  ASSUME IInv, NEW correct \in BOOLEAN, RecordFails(correct)
  PROVE  /\ file' \in Seq(Lines)
         /\ Len(file') \in {Len(file), Len(file) + 1}
         /\ \A i \in 1..Len(file) :
              /\ (ragged /\ i = Len(file)) \/ file'[i] = file[i]
              /\ file'[i].at = file[i].at
         /\ Len(file') # Len(file) => file'[Len(file')].at = now
         /\ ragged' \in BOOLEAN
         /\ ragged' => Len(file') > 0 /\ (Len(file') = Len(file) => ragged)
PROOF
<1>1. CASE UNCHANGED <<file, ragged>>
  <2>1. file \in Seq(Lines) /\ Len(file) \in Nat /\ ragged \in BOOLEAN
    BY DEF IInv, Shape
  <2>2. ragged => Len(file) > 0
    BY <2>1, EmptySeq DEF IInv, Ledger
  <2>. QED
    BY <1>1, <2>1, <2>2
<1>2. CASE \E written \in {"torn", "row"} :
             /\ file' = Extended([kind |-> written, at |-> now, correct |-> correct])
             /\ ragged' \in {TRUE, written = "torn"}
  <2>1. PICK written \in {"torn", "row"} :
          /\ file' = Extended([kind |-> written, at |-> now, correct |-> correct])
          /\ ragged' \in {TRUE, written = "torn"}
    BY <1>2
  <2>. DEFINE row == [kind |-> written, at |-> now, correct |-> correct]
  <2>2. row \in Lines /\ row.at = now
    BY DEF Lines, IInv, Shape
  <2>3. ragged' \in BOOLEAN
    BY <2>1
  <2>4. file' = Extended(row)
    BY <2>1
  <2>. HIDE DEF row
  <2>5. /\ file' \in Seq(Lines)
        /\ Len(file') = IF ragged THEN Len(file) ELSE Len(file) + 1
        /\ Len(file') > 0
        /\ \A i \in 1..Len(file) : (ragged /\ i = Len(file)) \/ file'[i] = file[i]
        /\ \A i \in 1..Len(file) : file'[i].at = file[i].at
        /\ ragged \/ file'[Len(file')] = row
    BY <2>2, <2>4, ExtendedLines DEF IInv
  <2>6. Len(file) \in Nat
    BY DEF IInv, Shape
  <2>. QED
    BY <2>2, <2>3, <2>5, <2>6
<1>. QED
  BY <1>1, <1>2 DEF RecordFails

\* A failed write puts no verdict on a line it leaves unfinished.
LEMMA RecordFailsKeeps ==
  ASSUME IInv, NEW correct \in BOOLEAN, RecordFails(correct)
  PROVE  IInv'
PROOF
<1>2. /\ failures' = failures + 1
      /\ answer' = NoAnswer
      /\ now' = now /\ acked' = acked
  BY DEF RecordFails
<1>3. Len(file) \in Nat /\ Len(file') \in Nat /\ ragged' \in BOOLEAN
  BY FailedWriteLines DEF IInv, Shape
<1>4. /\ file' \in Seq(Lines)
      /\ Len(file') \in {Len(file), Len(file) + 1}
      /\ ragged' => Len(file') > 0 /\ (Len(file') = Len(file) => ragged)
      /\ \A i \in 1..Len(file) : (ragged /\ i = Len(file)) \/ file'[i] = file[i]
  BY FailedWriteLines
<1>5. \A v \in acked : v.line \in 1..Len(file) /\ file'[v.line] = file[v.line]
  BY <1>4 DEF IInv, Ledger
<1>6. Shape'
  BY <1>2, <1>3, <1>4 DEF IInv, Shape
<1>7. Ledger'
  <2>1. ragged' => file' # <<>>
    BY <1>4, EmptySeq
  <2>2. \A v \in acked : ragged => v.line # Len(file)
    BY DEF IInv, Ledger
  <2>. QED
    BY <1>2, <1>3, <1>4, <1>5, <2>1, <2>2 DEF Ledger
<1>8. Spoilt' = Spoilt
  BY <1>2, <1>5 DEF Spoilt, IsTorn
<1>9. Cardinality(Spoilt) \in Nat
  BY FS_Subset, FS_CardinalityType DEF Spoilt, IInv, Shape
<1>10. Budget'
  BY <1>2, <1>3, <1>8, <1>9 DEF Budget, IInv, Shape
<1>11. TornAfterAWrite' /\ DashboardFailsAfterAWrite'
  BY <1>2 DEF IInv, Shape, TornAfterAWrite, DashboardFailsAfterAWrite
<1>. QED
  BY <1>6, <1>7, <1>10, <1>11 DEF IInv

\* Every step keeps the invariant.
LEMMA NextIInv == IInv /\ [TracerNext]_tracerVars => IInv'
PROOF
<1>. SUFFICES ASSUME IInv, [TracerNext]_tracerVars PROVE IInv'
  OBVIOUS
<1>1. ASSUME NEW p \in Processes, NEW correct \in BOOLEAN, RecordOutcome(p, correct)
      PROVE  IInv'
  BY <1>1, RecordOutcomeKeeps
<1>2. ASSUME NEW correct \in BOOLEAN, RecordFails(correct)
      PROVE  IInv'
  BY <1>2, RecordFailsKeeps
<1>3. ASSUME now' \in Nat, UNCHANGED store, DashboardFailsAfterAWrite'
      PROVE  IInv'
  BY <1>3 DEF IInv, store, Shape, Ledger, Budget, Spoilt, TornAfterAWrite, Readable, IsTorn
<1>4. ASSUME NEW p \in Processes, Dashboard(p)
      PROVE  IInv'
  <2>1. now' = now /\ UNCHANGED store /\ answer'.kind = "snapshot"
    BY <1>4 DEF Dashboard
  <2>. QED
    BY <1>3, <2>1 DEF IInv, Shape, DashboardFailsAfterAWrite
<1>5. ASSUME NEW p \in Processes, DashboardRaises(p)
      PROVE  IInv'
  <2>1. now' = now /\ UNCHANGED store /\ ~Readable(file)
    BY <1>5 DEF DashboardRaises
  <2>2. failures' > 0
    BY <2>1 DEF store, IInv, TornAfterAWrite
  <2>. QED
    BY <1>3, <2>1, <2>2 DEF IInv, Shape, DashboardFailsAfterAWrite
<1>6. ASSUME NEW p \in Processes, Restart(p)
      PROVE  IInv'
  BY <1>3, <1>6 DEF Restart, NoAnswer, IInv, Shape, DashboardFailsAfterAWrite
<1>7. CASE Tick
  BY <1>3, <1>7 DEF Tick, NoAnswer, IInv, Shape, DashboardFailsAfterAWrite
<1>8. CASE UNCHANGED tracerVars
  BY <1>3, <1>8 DEF tracerVars, store, IInv, Shape, DashboardFailsAfterAWrite
<1>. QED
  BY <1>1, <1>2, <1>4, <1>5, <1>6, <1>7, <1>8 DEF TracerNext

\* The invariant holds for any number of processes, verdicts and failed writes.
THEOREM TracerInvariantHolds == TracerSpec => []IInv
PROOF
<1>1. TracerInit => IInv
  BY InitIInv, TracerAssumption
<1>. QED
  BY <1>1, NextIInv, PTL DEF TracerSpec

\* A failed write costs at most one verdict beside its own, whatever is
\* recorded, by however many processes and with whatever restarts in between.
THEOREM LossIsBounded == TracerSpec => []AckedLossIsBounded
PROOF
<1>1. IInv => AckedLossIsBounded
  <2>. SUFFICES ASSUME IInv PROVE AckedLossIsBounded
    OBVIOUS
  <2>1. Cardinality(Spoilt) \in Nat
    BY FS_Subset, FS_CardinalityType DEF Spoilt, IInv, Shape
  <2>2. Cardinality(Spoilt) <= failures
    BY <2>1 DEF IInv, Budget, Shape
  <2>. QED
    BY <2>2 DEF Spoilt, AckedLossIsBounded
<1>. QED
  BY <1>1, TracerInvariantHolds, PTL

\* Where no write has failed, the dashboard answers.
THEOREM DashboardAnswers == TracerSpec => []DashboardFailsAfterAWrite
PROOF
<1>1. IInv => DashboardFailsAfterAWrite
  BY DEF IInv
<1>. QED
  BY <1>1, TracerInvariantHolds, PTL

-----------------------------------------------------------------------------
(* What the dashboard counts *)

\* The answers start right: nobody has given a verdict or read a row, and no old
\* row has a time.
LEMMA InitAnswers ==
  ASSUME TracerAssumption, TracerInit
  PROVE  Answers
PROOF
<1>1. PICK old \in OldFiles : file = old
  BY DEF TracerInit
<1>2. /\ file \in Seq([kind : {"row", "blank"}, at : {Ancient}, correct : BOOLEAN])
      /\ Window \in Nat
  BY <1>1 DEF TracerAssumption
<1>3. \A i \in 1..Len(file) : file[i].at = Ancient
  <2>1. \A i \in 1..Len(file) :
          file[i] \in [kind : {"row", "blank"}, at : {Ancient}, correct : BOOLEAN]
    BY <1>2, ElementOfSeq
  <2>. QED
    BY <2>1
<1>4. /\ acked = {} /\ failures = 0 /\ now = Window
      /\ cached = [p \in Processes |-> NoRows]
  BY DEF TracerInit
<1>5. Foreign = {}
  BY <1>3 DEF Foreign
<1>6. Cardinality(Foreign) <= failures
  BY <1>4, <1>5, FS_EmptySet
<1>7. cached = [p \in Processes |-> cached[p]] /\ \A p \in Processes : ~cached[p].loaded
  BY <1>4 DEF NoRows
<1>8. \A i \in 1..Len(file) : file[i].at <= now
  BY <1>2, <1>3, <1>4 DEF Ancient
<1>. QED
  BY <1>2, <1>4, <1>6, <1>7, <1>8 DEF Answers

\* Every line has a time.
LEMMA LinesHaveTimes ==
  ASSUME Shape
  PROVE  \A i \in 1..Len(file) : file[i].at \in Int
PROOF
<1>1. \A i \in 1..Len(file) : file[i] \in Lines
  BY ElementOfSeq DEF Shape
<1>. QED
  BY <1>1 DEF Lines

\* The lines of failed writes are finite in number.
LEMMA ForeignIsFinite ==
  ASSUME Shape
  PROVE  IsFiniteSet(Foreign) /\ Cardinality(Foreign) \in Nat
PROOF
<1>1. Len(file) \in Nat
  BY DEF Shape
<1>2. IsFiniteSet(1..Len(file)) /\ Foreign \subseteq 1..Len(file)
  BY <1>1, FS_Interval DEF Foreign
<1>. QED
  BY <1>2, FS_Subset, FS_CardinalityType

\* A recorded verdict gets a line of its own, which is a failed write's no more.
LEMMA RecordOutcomeKeepsAnswers ==
  ASSUME IInv, Answers, NEW p \in Processes, NEW correct \in BOOLEAN,
         RecordOutcome(p, correct)
  PROVE  Answers'
PROOF
<1>. DEFINE row     == [kind |-> "row", at |-> now, correct |-> correct]
            verdict == [by |-> p, line |-> Len(file'), row |-> row]
<1>1. /\ file' = Extended(row)
      /\ cached' = [cached EXCEPT ![p] = NoRows]
      /\ acked' = acked \cup {verdict}
      /\ now' = now /\ failures' = failures
  BY DEF RecordOutcome
<1>2. row \in Lines
  BY DEF Lines, IInv, Shape
<1>3. /\ file' \in Seq(Lines)
      /\ Len(file') = IF ragged THEN Len(file) ELSE Len(file) + 1
      /\ Len(file') > 0
      /\ \A i \in 1..Len(file) : (ragged /\ i = Len(file)) \/ file'[i] = file[i]
      /\ \A i \in 1..Len(file) : file'[i].at = file[i].at
      /\ file'[Len(file')].kind = IF ragged THEN "torn" ELSE "row"
      /\ ragged \/ file'[Len(file')] = row
  BY <1>1, <1>2, ExtendedLines DEF IInv
<1>4. /\ Len(file) \in Nat /\ Len(file') \in Nat /\ now \in Nat /\ failures \in Nat
      /\ now >= Window /\ \A i \in 1..Len(file) : file[i].at <= now
      /\ cached = [q \in Processes |-> cached[q]]
  BY <1>3 DEF IInv, Shape, Answers
<1>5. \A i \in 1..Len(file') : file'[i].at <= now
  <2>1. CASE ragged
    BY <1>3, <1>4, <2>1
  <2>2. CASE ~ragged
    <3>1. file'[Len(file')].at = now
      BY <1>3, <2>2
    <3>2. \A i \in 1..Len(file') : i \in 1..Len(file) \/ i = Len(file')
      BY <1>3, <1>4, <2>2
    <3>. QED
      BY <1>3, <1>4, <3>1, <3>2
  <2>. QED
    BY <2>1, <2>2
<1>6. \A v \in acked : /\ v.line \in 1..Len(file) /\ v.line # Len(file')
                       /\ file'[v.line] = file[v.line]
  BY <1>3, <1>4 DEF IInv, Ledger
<1>. HIDE DEF row
<1>7. /\ row.at = now /\ row.correct \in BOOLEAN /\ row.kind = "row"
      /\ verdict.row = row /\ verdict.line = Len(file') /\ verdict.by = p
  BY DEF row
<1>. HIDE DEF verdict
<1>8. \A v \in acked' :
        /\ v.row.at \in Nat
        /\ v.row.correct \in BOOLEAN
        /\ v.row.kind = "row"
        /\ v.row.at >= file'[v.line].at
        /\ (file'[v.line] = v.row \/ IsTorn(file'[v.line]))
  <2>1. Len(file') \in 1..Len(file')
    BY <1>3, <1>4
  <2>2. ASSUME NEW v \in acked
        PROVE  /\ v.row.at \in Nat
               /\ v.row.correct \in BOOLEAN
               /\ v.row.kind = "row"
               /\ v.row.at >= file'[v.line].at
               /\ (file'[v.line] = v.row \/ IsTorn(file'[v.line]))
    BY <1>6 DEF Answers
  <2>3. /\ verdict.row.at \in Nat
        /\ verdict.row.correct \in BOOLEAN
        /\ verdict.row.kind = "row"
        /\ verdict.row.at >= file'[verdict.line].at
        /\ (file'[verdict.line] = verdict.row \/ IsTorn(file'[verdict.line]))
    BY <1>3, <1>4, <1>5, <1>7, <2>1 DEF IsTorn
  <2>. QED
    BY <1>1, <2>2, <2>3
<1>9. \A v, w \in acked' : v.line = w.line => v = w
  BY <1>1, <1>6, <1>7 DEF Answers
<1>10. Cardinality(Foreign') <= failures
  <2>1. \A v \in acked : v \in acked'
    BY <1>1
  <2>2. verdict \in acked' /\ verdict.line = Len(file')
    BY <1>1, <1>7
  <2>3. \A i \in 1..Len(file') : i # Len(file') => i \in 1..Len(file)
    BY <1>3, <1>4
  <2>4. Foreign' \subseteq Foreign
    BY <1>3, <2>1, <2>2, <2>3 DEF Foreign
  <2>5. /\ IsFiniteSet(Foreign) /\ Cardinality(Foreign) \in Nat
        /\ Cardinality(Foreign) <= failures
    BY ForeignIsFinite DEF IInv, Answers
  <2>6. IsFiniteSet(Foreign') /\ Cardinality(Foreign') <= Cardinality(Foreign)
    BY <2>4, <2>5, FS_Subset
  <2>7. Cardinality(Foreign') \in Nat
    BY <2>6, FS_CardinalityType
  <2>. QED
    BY <1>4, <2>5, <2>6, <2>7
<1>11. /\ cached' = [q \in Processes |-> cached'[q]]
       /\ \A q \in Processes : cached'[q].loaded => q # p /\ cached'[q] = cached[q]
  BY <1>1, <1>4 DEF NoRows
<1>12. \A i \in 1..Len(file) : i \in 1..Len(file')
  BY <1>3, <1>4
<1>13. ASSUME NEW q \in Processes, cached'[q].loaded
       PROVE  IsCopy(cached[q].rows)' /\ HasOwn(q, cached[q].rows)'
  <2>1. q # p /\ cached'[q].rows = cached[q].rows /\ cached[q].loaded
    BY <1>11, <1>13
  <2>2. IsCopy(cached[q].rows) /\ HasOwn(q, cached[q].rows)
    BY <2>1 DEF Answers
  <2>3. IsCopy(cached[q].rows)'
    BY <1>3, <1>12, <2>1, <2>2 DEF IsCopy
  <2>4. HasOwn(q, cached[q].rows)'
    BY <1>1, <1>7, <2>1, <2>2 DEF HasOwn
  <2>. QED
    BY <2>3, <2>4
<1>. QED
  BY <1>1, <1>4, <1>5, <1>8, <1>9, <1>10, <1>11, <1>13 DEF Answers

\* A failed write adds at most one line that is nobody's.
LEMMA RecordFailsKeepsAnswers ==
  ASSUME IInv, Answers, NEW correct \in BOOLEAN, RecordFails(correct)
  PROVE  Answers'
PROOF
<1>2. /\ failures' = failures + 1
      /\ now' = now /\ acked' = acked /\ cached' = cached
  BY DEF RecordFails
<1>4. /\ file' \in Seq(Lines)
      /\ Len(file') \in {Len(file), Len(file) + 1}
      /\ \A i \in 1..Len(file) : (ragged /\ i = Len(file)) \/ file'[i] = file[i]
      /\ \A i \in 1..Len(file) : file'[i].at = file[i].at
      /\ Len(file') # Len(file) => file'[Len(file')].at = now
  BY FailedWriteLines
<1>5. /\ Len(file) \in Nat /\ Len(file') \in Nat /\ now \in Nat /\ failures \in Nat
      /\ now >= Window /\ \A i \in 1..Len(file) : file[i].at <= now
  BY <1>4 DEF IInv, Shape, Answers
<1>7. \A i \in 1..Len(file') :
        i \in 1..Len(file) \/ (Len(file') # Len(file) /\ i = Len(file'))
  BY <1>4, <1>5
<1>8. \A i \in 1..Len(file') : file'[i].at <= now
  BY <1>4, <1>5, <1>7
<1>9. \A v \in acked : v.line \in 1..Len(file) /\ file'[v.line] = file[v.line]
  BY <1>4 DEF IInv, Ledger
<1>10. \A v \in acked :
         /\ v.row.at \in Nat
         /\ v.row.correct \in BOOLEAN
         /\ v.row.kind = "row"
         /\ v.row.at >= file'[v.line].at
         /\ (file'[v.line] = v.row \/ IsTorn(file'[v.line]))
  BY <1>9 DEF Answers
<1>11. Cardinality(Foreign') <= failures + 1
  <2>1. Foreign' \subseteq Foreign \cup {Len(file')}
    BY <1>2, <1>4, <1>7 DEF Foreign
  <2>2. /\ IsFiniteSet(Foreign) /\ Cardinality(Foreign) \in Nat
        /\ Cardinality(Foreign) <= failures
    BY ForeignIsFinite DEF IInv, Answers
  <2>3. /\ IsFiniteSet(Foreign \cup {Len(file')})
        /\ Cardinality(Foreign \cup {Len(file')})
              \in {Cardinality(Foreign), Cardinality(Foreign) + 1}
    BY <2>2, FS_AddElement
  <2>4. /\ IsFiniteSet(Foreign')
        /\ Cardinality(Foreign') <= Cardinality(Foreign \cup {Len(file')})
    BY <2>1, <2>3, FS_Subset
  <2>5. Cardinality(Foreign') \in Nat
    BY <2>4, FS_CardinalityType
  <2>. QED
    BY <1>5, <2>2, <2>3, <2>4, <2>5
<1>12. \A i \in 1..Len(file) : i \in 1..Len(file')
  BY <1>4, <1>5
<1>13. ASSUME NEW q \in Processes, cached'[q].loaded
       PROVE  IsCopy(cached[q].rows)' /\ HasOwn(q, cached[q].rows)'
  <2>1. IsCopy(cached[q].rows) /\ HasOwn(q, cached[q].rows)
    BY <1>2, <1>13 DEF Answers
  <2>2. IsCopy(cached[q].rows)'
    BY <1>2, <1>4, <1>12, <2>1 DEF IsCopy
  <2>3. HasOwn(q, cached[q].rows)'
    BY <1>2, <2>1 DEF HasOwn
  <2>. QED
    BY <2>2, <2>3
<1>14. \A v, w \in acked' : v.line = w.line => v = w
  BY <1>2 DEF Answers
<1>15. cached' = [q \in Processes |-> cached'[q]]
  BY <1>2 DEF Answers
<1>. QED
  BY <1>2, <1>5, <1>8, <1>10, <1>11, <1>13, <1>14, <1>15 DEF Answers

\* The rows a dashboard counts are a copy with the verdicts of its process: what
\* it holds, or what it reads from a file without torn lines.
LEMMA SeenIsACopy ==
  ASSUME IInv, Answers, NEW p \in Processes, cached[p].loaded \/ Readable(file)
  PROVE  IsCopy(RowsSeen(p)) /\ HasOwn(p, RowsSeen(p))
PROOF
<1>1. CASE cached[p].loaded
  BY <1>1 DEF RowsSeen, Answers
<1>2. CASE ~cached[p].loaded
  <2>1. Readable(file) /\ RowsSeen(p) = RowsOf(file)
    BY <1>2 DEF RowsSeen
  <2>2. DOMAIN file = 1..Len(file) /\ \A i \in 1..Len(file) : file[i] \in Lines
    BY ElementOfSeq DEF IInv, Shape
  <2>3. /\ DOMAIN RowsOf(file) \subseteq 1..Len(file)
        /\ \A i \in DOMAIN RowsOf(file) : RowsOf(file)[i] = file[i]
        /\ \A i \in 1..Len(file) : file[i].kind = "row" => i \in DOMAIN RowsOf(file)
    BY <2>2 DEF RowsOf
  <2>4. IsCopy(RowsOf(file))
    BY <2>2, <2>3 DEF IsCopy, Lines
  <2>5. ASSUME NEW v \in acked
        PROVE  v.line \in DOMAIN RowsOf(file) /\ RowsOf(file)[v.line] = v.row
    <3>1. v.line \in 1..Len(file) /\ file[v.line] = v.row /\ v.row.kind = "row"
      BY <2>1, <2>2 DEF IInv, Ledger, Answers, Readable
    <3>. QED
      BY <2>3, <3>1
  <2>. QED
    BY <2>1, <2>4, <2>5 DEF HasOwn
<1>. QED
  BY <1>1, <1>2

\* No two verdicts are on one line: they are as many as their lines.
LEMMA AsManyAsLines ==
  ASSUME Shape, Answers, NEW V \in SUBSET acked
  PROVE  /\ IsFiniteSet(V) /\ Cardinality(V) \in Nat
         /\ IsFiniteSet({v.line : v \in V})
         /\ Cardinality({v.line : v \in V}) = Cardinality(V)
PROOF
<1>. DEFINE L == {v.line : v \in V}
            f == [v \in V |-> v.line]
<1>1. IsFiniteSet(V) /\ Cardinality(V) \in Nat
  BY FS_Subset, FS_CardinalityType DEF Shape
<1>2. \A v, w \in V : v.line = w.line => v = w
  BY DEF Answers
<1>3. f \in Bijection(V, L)
  BY <1>2 DEF Bijection, Injection, Surjection, IsInjective
<1>4. ExistsBijection(V, L)
  BY <1>3 DEF ExistsBijection
<1>. QED
  BY <1>1, <1>4, FS_Bijection, FS_CardinalityType

\* Counting a copy of the rows: every verdict of the process in the window is
\* among the rows on its side, and what is counted beside verdicts comes from
\* failed writes.
LEMMA WindowIsCounted ==
  ASSUME IInv, Answers, NEW p \in Processes, NEW rows, IsCopy(rows), HasOwn(p, rows),
         NEW W, W = {i \in DOMAIN rows : rows[i].at >= WindowStart},
         NEW R, R = Right(rows, W)
  PROVE  /\ IsFiniteSet(W) /\ IsFiniteSet(R)
         /\ Cardinality({v \in Verdicts(TRUE) : v.by = p}) <= Cardinality(R)
         /\ Cardinality({v \in Verdicts(FALSE) : v.by = p})
              <= Cardinality(W) - Cardinality(R)
         /\ Cardinality(W) <= Cardinality(Verdicts(TRUE) \cup Verdicts(FALSE)) + failures
PROOF
<1>1. /\ Len(file) \in Nat /\ failures \in Nat /\ Window \in Nat /\ now \in Nat
      /\ now >= Window
  BY TracerAssumption DEF IInv, Shape, Answers
<1>2. /\ IsFiniteSet(W) /\ Cardinality(W) \in Nat
      /\ R \subseteq W /\ IsFiniteSet(R) /\ Cardinality(R) \in Nat
      /\ IsFiniteSet(W \ R) /\ Cardinality(W \ R) = Cardinality(W) - Cardinality(R)
  <2>1. W \subseteq 1..Len(file) /\ IsFiniteSet(1..Len(file))
    BY <1>1, FS_Interval DEF IsCopy
  <2>2. R \subseteq W
    BY DEF Right
  <2>3. IsFiniteSet(W) /\ IsFiniteSet(R) /\ IsFiniteSet(W \ R)
    BY <2>1, <2>2, FS_Subset
  <2>4. Cardinality(W) \in Nat /\ Cardinality(R) \in Nat
    BY <2>3, FS_CardinalityType
  <2>5. R \cup (W \ R) = W /\ R \cap (W \ R) = {}
    BY <2>2
  <2>6. Cardinality(W \ R) = Cardinality(W) - Cardinality(R)
    <3>1. Cardinality(W) = Cardinality(R) + Cardinality(W \ R) - Cardinality({})
      BY <2>3, <2>5, FS_Union
    <3>2. Cardinality({}) = 0 /\ Cardinality(W \ R) \in Nat
      BY <2>3, FS_EmptySet, FS_CardinalityType
    <3>. QED
      BY <2>4, <3>1, <3>2
  <2>. QED
    BY <2>2, <2>3, <2>4, <2>6
<1>3. ASSUME NEW c \in BOOLEAN, NEW T,
             T = {i \in W : rows[i].correct = c}, IsFiniteSet(T)
      PROVE  Cardinality({v \in Verdicts(c) : v.by = p}) <= Cardinality(T)
  <2>. DEFINE V == {v \in Verdicts(c) : v.by = p}
  <2>1. V \in SUBSET acked
    BY DEF Verdicts
  <2>2. {v.line : v \in V} \subseteq T
    BY <1>3 DEF Verdicts, HasOwn
  <2>. HIDE DEF V
  <2>3. Cardinality({v.line : v \in V}) = Cardinality(V)
    BY <2>1, AsManyAsLines DEF IInv
  <2>4. Cardinality({v.line : v \in V}) <= Cardinality(T)
    BY <1>3, <2>2, FS_Subset
  <2>5. Cardinality(V) <= Cardinality(T)
    BY <2>3, <2>4
  <2>. QED
    BY <2>5 DEF V
<1>4. Cardinality({v \in Verdicts(TRUE) : v.by = p}) <= Cardinality(R)
  <2>1. R = {i \in W : rows[i].correct = TRUE}
    BY DEF Right, IsCopy
  <2>. QED
    BY <1>2, <1>3, <2>1
<1>5. Cardinality({v \in Verdicts(FALSE) : v.by = p}) <= Cardinality(W \ R)
  <2>1. W \ R = {i \in W : rows[i].correct = FALSE}
    BY DEF Right, IsCopy
  <2>. QED
    BY <1>2, <1>3, <2>1
<1>6. Cardinality(W) <= Cardinality(Verdicts(TRUE) \cup Verdicts(FALSE)) + failures
  <2>. DEFINE V == Verdicts(TRUE) \cup Verdicts(FALSE)
              L == {v.line : v \in V}
  <2>1. V = {v \in acked : v.row.at >= WindowStart}
    BY DEF Verdicts, Answers
  <2>2. W \subseteq Foreign \cup L
    <3>. SUFFICES ASSUME NEW i \in W, i \notin Foreign
                  PROVE  i \in L
      OBVIOUS
    <3>1. i \in 1..Len(file) /\ file[i].at >= WindowStart
      BY DEF IsCopy
    <3>2. file[i].at # Ancient
      BY <1>1, <3>1 DEF WindowStart, Ancient
    <3>3. PICK v \in acked : v.line = i
      BY <3>1, <3>2 DEF Foreign
    <3>4. v.row.at >= file[i].at /\ v.row.at \in Nat
      BY <3>3 DEF Answers
    <3>5. file[i].at \in Int /\ WindowStart \in Int
      BY <1>1, <3>1, LinesHaveTimes DEF IInv, WindowStart
    <3>6. v.row.at >= WindowStart
      BY <3>1, <3>4, <3>5
    <3>. QED
      BY <2>1, <3>3, <3>6
  <2>3. V \in SUBSET acked
    BY <2>1
  <2>. HIDE DEF V
  <2>4. /\ IsFiniteSet(L) /\ Cardinality(L) = Cardinality(V)
        /\ Cardinality(V) \in Nat
    BY <2>3, AsManyAsLines DEF IInv
  <2>. HIDE DEF L
  <2>5. /\ IsFiniteSet(Foreign) /\ Cardinality(Foreign) \in Nat
        /\ Cardinality(Foreign) <= failures
    BY ForeignIsFinite DEF IInv, Answers
  <2>6. /\ IsFiniteSet(Foreign \cup L)
        /\ Cardinality(Foreign \cup L) <= Cardinality(Foreign) + Cardinality(L)
    <3>1. IsFiniteSet(Foreign \cap L) /\ Cardinality(Foreign \cap L) \in Nat
      BY <2>5, FS_Subset, FS_CardinalityType
    <3>2. /\ IsFiniteSet(Foreign \cup L)
          /\ Cardinality(Foreign \cup L)
               = Cardinality(Foreign) + Cardinality(L) - Cardinality(Foreign \cap L)
      BY <2>4, <2>5, FS_Union
    <3>. QED
      BY <2>4, <2>5, <3>1, <3>2
  <2>7. /\ Cardinality(W) <= Cardinality(Foreign \cup L)
        /\ Cardinality(Foreign \cup L) \in Nat
    BY <2>2, <2>6, FS_Subset, FS_CardinalityType
  <2>8. Cardinality(W) <= Cardinality(V) + failures
    BY <1>1, <1>2, <2>4, <2>5, <2>6, <2>7
  <2>. QED
    BY <2>8 DEF V
<1>. QED
  BY <1>2, <1>4, <1>5, <1>6

-----------------------------------------------------------------------------
(* The trend *)

\* A row in the window has a bin.
LEMMA BinsAreInRange ==
  ASSUME TracerAssumption, Window > 0, Buckets > 0, now \in Nat,
         NEW row, row.at \in Int, row.at >= WindowStart
  PROVE  BucketOf(row) \in 0..(Buckets - 1)
PROOF
<1>1. Window \in Nat \ {0} /\ Buckets \in Nat \ {0}
  BY DEF TracerAssumption
<1>2. row.at - WindowStart \in Nat
  BY <1>1 DEF WindowStart
<1>3. \A x, y \in Nat : x * y \in Nat
  OBVIOUS
<1>4. (row.at - WindowStart) * Buckets \in Nat
  BY <1>1, <1>2, <1>3
<1>5. \A x \in Nat, y \in Nat \ {0} : x \div y \in Nat
  OBVIOUS
<1>6. ((row.at - WindowStart) * Buckets) \div Window \in Nat
  BY <1>1, <1>4, <1>5
<1>. QED
  BY <1>1, <1>6 DEF BucketOf

\* The bins of the trend hold every row in the window once, and so on each side.
LEMMA BinsPartition ==
  ASSUME TracerAssumption, Window > 0, Buckets > 0, now \in Nat, NEW rows,
         NEW W, IsFiniteSet(W), \A i \in W : rows[i].at \in Int /\ rows[i].at >= WindowStart,
         NEW trend, trend = BucketTrend(rows, W)
  PROVE  /\ SumFunction([b \in DOMAIN trend |-> trend[b].total]) = Cardinality(W)
         /\ SumFunction([b \in DOMAIN trend |-> trend[b].correct])
              = Cardinality(Right(rows, W))
PROOF
<1>1. Window \in Nat \ {0} /\ Buckets \in Nat \ {0}
  BY DEF TracerAssumption
<1>. DEFINE B    == 1..Buckets
            bin  == [i \in W |-> BucketOf(rows[i]) + 1]
            In(V, b) == {i \in V : bin[i] = b}
<1>2. IsFiniteSet(B)
  BY <1>1, FS_Interval
<1>3. \A i \in W : bin[i] = BucketOf(rows[i]) + 1 /\ bin[i] \in B
                  /\ BucketOf(rows[i]) \in Int
  <2>. SUFFICES ASSUME NEW i \in W
                PROVE  BucketOf(rows[i]) \in 0..(Buckets - 1)
    BY <1>1
  <2>. QED
    BY BinsAreInRange
<1>4. \A b \in B : {i \in W : Window > 0 /\ BucketOf(rows[i]) = b - 1} = {i \in W : bin[i] = b}
  BY <1>1, <1>3
<1>5. /\ DOMAIN trend = B
      /\ \A b \in B : /\ trend[b].total = Cardinality({i \in W : bin[i] = b})
                      /\ trend[b].correct = Cardinality(Right(rows, {i \in W : bin[i] = b}))
  BY <1>4 DEF BucketTrend
<1>6. bin \in [W -> B]
  BY <1>3
<1>. HIDE DEF bin, B
<1>7. ASSUME NEW V, V \subseteq W
      PROVE  SumFunction([b \in B |-> Cardinality({i \in V : bin[i] = b})]) = Cardinality(V)
  <2>. DEFINE h == [i \in V |-> bin[i]]
              f == [b \in B |-> Cardinality({i \in V : h[i] = b})]
              g == [b \in B |-> Cardinality({i \in V : bin[i] = b})]
  <2>1. h \in [V -> B] /\ IsFiniteSet(V)
    BY <1>6, <1>7, FS_Subset
  <2>2. \A b \in B : {i \in V : h[i] = b} = {i \in V : bin[i] = b}
    OBVIOUS
  <2>3. f = g
    BY <2>2
  <2>4. SumFunctionOnSet(f, B) = Cardinality(V)
    <3>. HIDE DEF h
    <3>. QED
      BY <1>2, <2>1, SumOfBins
  <2>5. DOMAIN g = B
    OBVIOUS
  <2>. HIDE DEF f, g
  <2>6. SumFunction(g) = Cardinality(V)
    BY <2>3, <2>4, <2>5 DEF SumFunction
  <2>. QED
    BY <2>6 DEF g
<1>8. [b \in DOMAIN trend |-> trend[b].total]
        = [b \in B |-> Cardinality({i \in W : bin[i] = b})]
  BY <1>5
<1>9. [b \in DOMAIN trend |-> trend[b].correct]
        = [b \in B |-> Cardinality({i \in Right(rows, W) : bin[i] = b})]
  <2>1. \A b \in B : Right(rows, {i \in W : bin[i] = b}) = {i \in Right(rows, W) : bin[i] = b}
    BY DEF Right
  <2>. QED
    BY <1>5, <2>1
<1>10. Right(rows, W) \subseteq W
  BY DEF Right
<1>. QED
  BY <1>7, <1>8, <1>9, <1>10

-----------------------------------------------------------------------------
\* The invariant of the answers, the two properties of them included.
AInv == Answers /\ FeedbackIsCounted /\ TrendAddsUp

\* An answer counts what its process can see, which is a copy from then on.
LEMMA DashboardKeepsAnswers ==
  ASSUME IInv, Answers, NEW p \in Processes, Dashboard(p)
  PROVE  AInv'
PROOF
<1>. DEFINE rows == RowsSeen(p)
            W    == {i \in DOMAIN rows : rows[i].at >= WindowStart}
<1>1. /\ cached[p].loaded \/ Readable(file)
      /\ cached' = [cached EXCEPT ![p] = [loaded |-> TRUE, rows |-> rows]]
      /\ answer' = [kind |-> "snapshot", by |-> p, total |-> Cardinality(W),
                    confirmed |-> Cardinality(Right(rows, W)),
                    trend |-> BucketTrend(rows, W)]
      /\ now' = now /\ file' = file /\ acked' = acked /\ failures' = failures
  BY DEF Dashboard, store
<1>2. IsCopy(rows) /\ HasOwn(p, rows)
  BY <1>1, SeenIsACopy
<1>. HIDE DEF rows
<1>3. Answers'
  <2>1. /\ cached' = [q \in Processes |-> cached'[q]]
        /\ cached'[p].rows = rows
        /\ \A q \in Processes : q # p => cached'[q] = cached[q]
    BY <1>1 DEF Answers
  <2>2. ASSUME NEW q \in Processes, cached'[q].loaded
        PROVE  IsCopy(cached'[q].rows) /\ HasOwn(q, cached'[q].rows)
    BY <1>2, <2>1, <2>2 DEF Answers
  <2>3. ASSUME NEW q \in Processes, cached'[q].loaded
        PROVE  IsCopy(cached[q].rows)' /\ HasOwn(q, cached[q].rows)'
    BY <1>1, <2>2, <2>3 DEF IsCopy, HasOwn
  <2>. QED
    BY <1>1, <2>1, <2>3 DEF Answers, Foreign
<1>4. /\ IsFiniteSet(W) /\ IsFiniteSet(Right(rows, W))
      /\ Cardinality({v \in Verdicts(TRUE) : v.by = p}) <= Cardinality(Right(rows, W))
      /\ Cardinality({v \in Verdicts(FALSE) : v.by = p})
           <= Cardinality(W) - Cardinality(Right(rows, W))
      /\ Cardinality(W) <= Cardinality(Verdicts(TRUE) \cup Verdicts(FALSE)) + failures
  BY <1>2, WindowIsCounted
<1>5. \A i \in W : rows[i].at \in Int /\ rows[i].at >= WindowStart
  <2>1. \A i \in 1..Len(file) : file[i].at \in Int
    BY LinesHaveTimes DEF IInv
  <2>. QED
    BY <1>2, <2>1 DEF IsCopy
<1>6. TrendAddsUp'
  <2>1. CASE Buckets > 0 /\ Window > 0
    <3>1. now \in Nat
      BY DEF IInv, Shape
    <3>. DEFINE trend == BucketTrend(rows, W)
    <3>. HIDE DEF W
    <3>2. /\ SumFunction([b \in DOMAIN trend |-> trend[b].total]) = Cardinality(W)
          /\ SumFunction([b \in DOMAIN trend |-> trend[b].correct])
               = Cardinality(Right(rows, W))
      BY <1>4, <1>5, <2>1, <3>1, TracerAssumption, BinsPartition
    <3>3. /\ answer'.trend = trend
          /\ answer'.total = Cardinality(W)
          /\ answer'.confirmed = Cardinality(Right(rows, W))
      BY <1>1
    <3>. HIDE DEF trend
    <3>. QED
      BY <3>2, <3>3 DEF TrendAddsUp
  <2>2. CASE ~(Buckets > 0 /\ Window > 0)
    BY <2>2 DEF TrendAddsUp
  <2>. QED
    BY <2>1, <2>2
<1>7. FeedbackIsCounted'
  <2>. HIDE DEF W
  <2>1. /\ answer'.by = p
        /\ answer'.total = Cardinality(W)
        /\ answer'.confirmed = Cardinality(Right(rows, W))
    BY <1>1
  <2>2. /\ Own(Verdicts(TRUE))' = {v \in Verdicts(TRUE) : v.by = p}
        /\ Own(Verdicts(FALSE))' = {v \in Verdicts(FALSE) : v.by = p}
        /\ Verdicts(TRUE)' = Verdicts(TRUE) /\ Verdicts(FALSE)' = Verdicts(FALSE)
    BY <1>1, <2>1 DEF Own, Verdicts, WindowStart
  <2>. QED
    BY <1>1, <1>4, <2>1, <2>2 DEF FeedbackIsCounted
<1>. QED
  BY <1>3, <1>6, <1>7 DEF AInv

\* Every step keeps the invariant of the answers.
LEMMA NextAInv == IInv /\ AInv /\ [TracerNext]_tracerVars => AInv'
PROOF
<1>. SUFFICES ASSUME IInv, AInv, [TracerNext]_tracerVars PROVE AInv'
  OBVIOUS
<1>1. ASSUME Answers', answer'.kind # "snapshot"
      PROVE  AInv'
  BY <1>1 DEF AInv, FeedbackIsCounted, TrendAddsUp
<1>2. ASSUME NEW p \in Processes, NEW correct \in BOOLEAN, RecordOutcome(p, correct)
      PROVE  AInv'
  <2>1. answer'.kind # "snapshot"
    BY <1>2 DEF RecordOutcome, NoAnswer
  <2>. QED
    BY <1>1, <1>2, <2>1, RecordOutcomeKeepsAnswers DEF AInv
<1>3. ASSUME NEW correct \in BOOLEAN, RecordFails(correct)
      PROVE  AInv'
  <2>1. answer'.kind # "snapshot"
    BY <1>3 DEF RecordFails, NoAnswer
  <2>. QED
    BY <1>1, <1>3, <2>1, RecordFailsKeepsAnswers DEF AInv
<1>4. ASSUME NEW p \in Processes, Dashboard(p)
      PROVE  AInv'
  BY <1>4, DashboardKeepsAnswers DEF AInv
<1>5. ASSUME UNCHANGED store, now' \in Nat, now' >= now,
             cached' = [q \in Processes |-> cached'[q]],
             \A q \in Processes : cached'[q].loaded => cached'[q] = cached[q]
      PROVE  Answers'
  <2>1. file' = file /\ acked' = acked /\ failures' = failures
    BY <1>5 DEF store
  <2>2. ASSUME NEW q \in Processes, cached'[q].loaded
        PROVE  IsCopy(cached[q].rows)' /\ HasOwn(q, cached[q].rows)'
    <3>1. cached'[q] = cached[q] /\ IsCopy(cached[q].rows) /\ HasOwn(q, cached[q].rows)
      BY <1>5, <2>2 DEF AInv, Answers
    <3>. QED
      BY <2>1, <3>1 DEF IsCopy, HasOwn
  <2>3. now \in Nat /\ Window \in Nat /\ now >= Window
    BY TracerAssumption DEF IInv, Shape, AInv, Answers
  <2>4. \A i \in 1..Len(file) : file[i].at \in Int /\ file[i].at <= now
    BY LinesHaveTimes DEF IInv, AInv, Answers
  <2>5. (\A i \in 1..Len(file) : file[i].at <= now)' /\ (now >= Window)'
    BY <1>5, <2>1, <2>3, <2>4
  <2>6. Foreign' = Foreign
    BY <2>1 DEF Foreign
  <2>. QED
    BY <1>5, <2>1, <2>2, <2>5, <2>6 DEF AInv, Answers
<1>6. ASSUME NEW p \in Processes, DashboardRaises(p)
      PROVE  AInv'
  <2>1. answer'.kind # "snapshot" /\ now' = now /\ UNCHANGED store /\ cached' = cached
    BY <1>6 DEF DashboardRaises, NoAnswer
  <2>2. cached = [q \in Processes |-> cached[q]] /\ now \in Nat
    BY DEF AInv, Answers, IInv, Shape
  <2>. QED
    BY <1>1, <1>5, <2>1, <2>2
<1>7. ASSUME NEW p \in Processes, Restart(p)
      PROVE  AInv'
  <2>1. /\ answer'.kind # "snapshot" /\ now' = now /\ UNCHANGED store
        /\ cached' = [cached EXCEPT ![p] = NoRows]
    BY <1>7 DEF Restart, NoAnswer
  <2>2. cached = [q \in Processes |-> cached[q]] /\ now \in Nat
    BY DEF AInv, Answers, IInv, Shape
  <2>3. /\ cached' = [q \in Processes |-> cached'[q]]
        /\ \A q \in Processes : cached'[q].loaded => cached'[q] = cached[q]
    BY <2>1, <2>2 DEF NoRows
  <2>. QED
    BY <1>1, <1>5, <2>1, <2>2, <2>3
<1>8. CASE Tick
  <2>1. answer'.kind # "snapshot" /\ now' = now + 1 /\ UNCHANGED store /\ cached' = cached
    BY <1>8 DEF Tick, NoAnswer
  <2>2. cached = [q \in Processes |-> cached[q]] /\ now \in Nat
    BY DEF AInv, Answers, IInv, Shape
  <2>. QED
    BY <1>1, <1>5, <2>1, <2>2
<1>9. CASE UNCHANGED tracerVars
  <2>1. UNCHANGED <<now, file, ragged, acked, failures, cached, answer>>
    BY <1>9 DEF tracerVars, store
  <2>2. cached = [q \in Processes |-> cached[q]] /\ now \in Nat
    BY DEF AInv, Answers, IInv, Shape
  <2>3. Answers'
    BY <1>5, <2>1, <2>2 DEF store
  <2>4. FeedbackIsCounted'
    BY <2>1 DEF AInv, FeedbackIsCounted, Own, Verdicts, WindowStart
  <2>5. TrendAddsUp'
    BY <2>1 DEF AInv, TrendAddsUp
  <2>. QED
    BY <2>3, <2>4, <2>5 DEF AInv
<1>. QED
  BY <1>2, <1>3, <1>4, <1>6, <1>7, <1>8, <1>9 DEF TracerNext

\* The invariant of the answers holds for any number of processes, of verdicts,
\* of failed writes and of bins, and for a window of any width.
THEOREM AnswersInvariantHolds == TracerSpec => []AInv
PROOF
<1>1. TracerInit => AInv
  <2>1. TracerInit => Answers
    BY TracerAssumption, InitAnswers
  <2>2. TracerInit => answer.kind # "snapshot"
    BY DEF TracerInit, NoAnswer
  <2>. QED
    BY <2>1, <2>2 DEF AInv, FeedbackIsCounted, TrendAddsUp
<1>. QED
  BY <1>1, NextAInv, TracerInvariantHolds, PTL DEF TracerSpec

\* An answer of the dashboard counts every verdict in the window that its own
\* process recorded, on the right side, and none that nobody gave, however many
\* processes share the file and whenever they restart.
THEOREM FeedbackCounts == TracerSpec => []FeedbackIsCounted
PROOF
<1>1. AInv => FeedbackIsCounted
  BY DEF AInv
<1>. QED
  BY <1>1, AnswersInvariantHolds, PTL

\* The bins of the trend partition the window, for every number of bins and
\* every width of the window.
THEOREM TheTrendAddsUp == TracerSpec => []TrendAddsUp
PROOF
<1>1. AInv => TrendAddsUp
  BY DEF AInv
<1>. QED
  BY <1>1, AnswersInvariantHolds, PTL

=============================================================================
