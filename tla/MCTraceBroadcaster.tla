------------------------- MODULE MCTraceBroadcaster -------------------------
(* TLC instance of TraceBroadcaster: three problems over a cap of two rings *)
(* of two events, and two streams opened on the same problem.               *)
EXTENDS TraceBroadcaster

CONSTANTS p1, p2, p3, s1, s2

MCProblems    == {p1, p2, p3}
MCSubscribers == {s1, s2}
MCTopicOf     == (s1 :> p1) @@ (s2 :> p1)

\* The two streams are alike, and so are the two problems nobody watches.
MCSymmetry == Permutations({s1, s2}) \cup Permutations({p2, p3})
=============================================================================
