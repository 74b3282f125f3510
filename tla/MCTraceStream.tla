---------------------------- MODULE MCTraceStream ---------------------------
(* TLC instance of TraceStream: two problems over a cap of one ring, two    *)
(* streams on one of them, enough events for two full runs or four failed.  *)
EXTENDS TraceStream

CONSTANTS p1, p2, s1, s2

MCProblems    == {p1, p2}
MCSubscribers == {s1, s2}
MCTopicOf     == (s1 :> p1) @@ (s2 :> p1)
=============================================================================
