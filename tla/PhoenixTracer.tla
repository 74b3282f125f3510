--------------------------- MODULE PhoenixTracer ----------------------------
(***************************************************************************)
(* PhoenixTracer (phoenix_tracer.py): the verdicts of the on-call in a     *)
(* file of one JSON line each, and the accuracy dashboard computed from    *)
(* that file (dashboard.py, app.py).                                       *)
(*                                                                         *)
(* The file is the only thing a restart leaves, and .env.example has it on *)
(* a volume that the instances of the service share; every process has its *)
(* own copy of the rows, kept here by the line each was read from.  A line *)
(* is a verdict, blank, or torn: text that json.loads refuses.  What a row *)
(* says beside its time and its verdict, and the spans, which are exported *)
(* and never read back, are left out.                                      *)
(***************************************************************************)
EXTENDS Integers, SequencesExt

CONSTANTS
  Processes,    \* the processes with a tracer on the file
  Window,       \* rolling_window_days
  Buckets,      \* trend_buckets
  OldFiles,     \* what may be in the file at first
  MaxTime,      \* bound of the model: the clock
  MaxVerdicts,  \* bound of the model: verdicts recorded, or tried to
  MaxFailures   \* bound of the model: writes that fail

Ancient == -1   \* datetime.min, the time of a row that has none

ASSUME TracerAssumption ==
  /\ Window \in Nat
  /\ Buckets \in Nat
  /\ OldFiles \subseteq Seq([kind : {"row", "blank"}, at : {Ancient}, correct : BOOLEAN])
  /\ MaxTime \in Nat /\ MaxVerdicts \in Nat /\ MaxFailures \in Nat

VARIABLES
  now,       \* the clock
  file,      \* the lines of the outcome store
  ragged,    \* its last line has no newline
  cached,    \* process -> _cached: whether it holds rows, and which
  acked,     \* history: the verdicts record_outcome returned for, by line
  failures,  \* history: how many writes failed
  answer     \* what the dashboard was just told, "none" when anything came after

store      == <<file, ragged, acked, failures>>
tracerVars == <<now, store, cached, answer>>

NoRows   == [loaded |-> FALSE, rows |-> <<>>]
NoAnswer == [kind |-> "none", by |-> "nobody",
             total |-> 0, confirmed |-> 0, trend |-> <<>>]

TracerInit ==
  /\ now = Window
  /\ file \in OldFiles
  /\ ragged = FALSE
  /\ cached = [p \in Processes |-> NoRows]
  /\ acked = {}
  /\ failures = 0
  /\ answer = NoAnswer

-----------------------------------------------------------------------------
(* record_outcome *)

\* Text that follows a line without newline becomes part of that line, which
\* is then no JSON value.
Extended(line) ==
  IF ragged THEN [file EXCEPT ![Len(file)].kind = "torn"] ELSE Append(file, line)

\* FAULT: the newline is forgotten.
FaultyRecordOutcome(p, correct) ==
  LET row == [kind |-> "row", at |-> now, correct |-> correct]
  IN  /\ Cardinality(acked) + failures < MaxVerdicts
      /\ file' = Extended(row)
      /\ ragged' = TRUE
      /\ cached' = [cached EXCEPT ![p] = NoRows]
      /\ acked' = acked \cup {[by |-> p, line |-> Len(file'), row |-> row]}
      /\ answer' = NoAnswer
      /\ UNCHANGED <<now, failures>>

\* FAULT: the copy of the rows survives the append.
StaleRecordOutcome(p, correct) ==
  LET row == [kind |-> "row", at |-> now, correct |-> correct]
  IN  /\ Cardinality(acked) + failures < MaxVerdicts
      /\ file' = Extended(row)
      /\ ragged' = FALSE
      /\ acked' = acked \cup {[by |-> p, line |-> Len(file'), row |-> row]}
      /\ answer' = NoAnswer
      /\ UNCHANGED <<now, cached, failures>>

\* The verdict on a brief is appended, and the copy of the rows dropped.  It is
\* called for the Slack feedback handler, which src/ does not have yet.
RecordOutcome(p, correct) ==
  LET row == [kind |-> "row", at |-> now, correct |-> correct]
  IN  /\ Cardinality(acked) + failures < MaxVerdicts
      /\ file' = Extended(row)
      /\ ragged' = FALSE
      /\ cached' = [cached EXCEPT ![p] = NoRows]
      /\ acked' = acked \cup {[by |-> p, line |-> Len(file'), row |-> row]}
      /\ answer' = NoAnswer
      /\ UNCHANGED <<now, failures>>

\* The write fails before the line, within it, between it and its newline, or
\* when the file is closed; the exception leaves before the copy is dropped.
RecordFails(correct) ==
  /\ failures < MaxFailures
  /\ Cardinality(acked) + failures < MaxVerdicts
  /\ failures' = failures + 1
  /\ \/ UNCHANGED <<file, ragged>>
     \/ \E written \in {"torn", "row"} :
          /\ file' = Extended([kind |-> written, at |-> now, correct |-> correct])
          /\ ragged' \in {TRUE, written = "torn"}
  /\ answer' = NoAnswer
  /\ UNCHANGED <<now, cached, acked>>

-----------------------------------------------------------------------------
(* accuracy_dashboard_data *)

IsTorn(line) == line.kind = "torn"

\* FAULT: a blank line is parsed.
FaultyReadable(lines) == \A i \in DOMAIN lines : lines[i].kind = "row"

\* read_rows parses every line that is not blank.
Readable(lines) == \A i \in DOMAIN lines : ~IsTorn(lines[i])

RowsOf(lines) ==
  [i \in {j \in DOMAIN lines : lines[j].kind = "row"} |-> lines[i]]

\* The copy, or what the file holds.
RowsSeen(p) == IF cached[p].loaded THEN cached[p].rows ELSE RowsOf(file)

WindowStart == now - Window

\* FAULT: a row on the right edge falls out of the trend.
FaultyBucketOf(row) == ((row.at - WindowStart) * Buckets) \div Window

\* The bin of a row in the window, from 0; the right edge belongs to the last.
BucketOf(row) ==
  LET bin == ((row.at - WindowStart) * Buckets) \div Window
  IN  IF bin >= Buckets THEN Buckets - 1 ELSE bin

\* Those of the given places at which a row says that the brief was right.
Right(rows, places) == {i \in places : rows[i].correct}

\* _bucket_trend over the rows in the window, each accuracy as the two counts
\* it is the ratio of; a window of no width has empty bins.
BucketTrend(rows, inWindow) ==
  [b \in 1..Buckets |->
     LET mine == {i \in inWindow : Window > 0 /\ BucketOf(rows[i]) = b - 1}
     IN  [total |-> Cardinality(mine), correct |-> Cardinality(Right(rows, mine))]]

\* The route answers with the snapshot and, as the trend starts with it, the
\* starting accuracy.
Dashboard(p) ==
  LET rows     == RowsSeen(p)
      inWindow == {i \in DOMAIN rows : rows[i].at >= WindowStart}
  IN  /\ cached[p].loaded \/ Readable(file)
      /\ cached' = [cached EXCEPT ![p] = [loaded |-> TRUE, rows |-> rows]]
      /\ answer' = [kind |-> "snapshot", by |-> p, total |-> Cardinality(inWindow),
                    confirmed |-> Cardinality(Right(rows, inWindow)),
                    trend |-> BucketTrend(rows, inWindow)]
      /\ UNCHANGED <<now, store>>

\* json.loads raises, and nothing up to the route catches it.
DashboardRaises(p) ==
  /\ ~cached[p].loaded
  /\ ~Readable(file)
  /\ answer' = [NoAnswer EXCEPT !.kind = "raised", !.by = p]
  /\ UNCHANGED <<now, store, cached>>

-----------------------------------------------------------------------------
\* The process dies, perhaps in the middle of a write, and another takes its
\* place: the rows are read from the file again.
Restart(p) ==
  /\ cached' = [cached EXCEPT ![p] = NoRows]
  /\ answer' = NoAnswer
  /\ UNCHANGED <<now, store>>

Tick ==
  /\ now < MaxTime
  /\ now' = now + 1
  /\ answer' = NoAnswer
  /\ UNCHANGED <<store, cached>>

TracerNext ==
  \/ \E p \in Processes :
       \/ \E correct \in BOOLEAN : RecordOutcome(p, correct)
       \/ Dashboard(p) \/ DashboardRaises(p)
       \/ Restart(p)
  \/ \E correct \in BOOLEAN : RecordFails(correct)
  \/ Tick

TracerSpec == TracerInit /\ [][TracerNext]_tracerVars

-----------------------------------------------------------------------------
Verdicts(correct) == {a \in acked : a.row.at >= WindowStart /\ a.row.correct = correct}
Own(verdicts)     == {a \in verdicts : a.by = answer.by}

\* A dashboard that answers has counted every verdict in the window that its
\* own process recorded, on the right side, and none that nobody gave, but for
\* the verdicts whose write failed with all of the row written.
FeedbackIsCounted ==
  answer.kind = "snapshot" =>
    LET wrong == answer.total - answer.confirmed
    IN  /\ Cardinality(Own(Verdicts(TRUE))) <= answer.confirmed
        /\ Cardinality(Own(Verdicts(FALSE))) <= wrong
        /\ answer.total <= Cardinality(Verdicts(TRUE) \cup Verdicts(FALSE)) + failures

\* The bins of the trend partition the window: they add up to the headline, the
\* verdict of this very moment and the one the window is about to lose included.
TrendAddsUp ==
  answer.kind = "snapshot" /\ Buckets > 0 /\ Window > 0 =>
    LET trend == answer.trend
    IN  /\ SumFunction([b \in DOMAIN trend |-> trend[b].total]) = answer.total
        /\ SumFunction([b \in DOMAIN trend |-> trend[b].correct]) = answer.confirmed

\* A dashboard fails only after a write has failed; what a file may hold
\* otherwise, blank lines and rows without a time included, is read.
DashboardFailsAfterAWrite == answer.kind = "raised" => failures > 0

\* A failed write costs at most one verdict beside its own: the one appended to
\* the line it left.
AckedLossIsBounded ==
  Cardinality({a \in acked : IsTorn(file[a.line])}) <= failures
=============================================================================
