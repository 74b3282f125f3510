-------------------------- MODULE MCPhoenixTracer ---------------------------
(* TLC instance of PhoenixTracer: two instances of the service on one file, *)
(* which is new or has an old row and a blank line.                         *)
EXTENDS PhoenixTracer

CONSTANTS a, b
MCProcesses == {a, b}

\* The two processes are alike.
MCSymmetry == Permutations(MCProcesses)

MCOldFiles ==
  {<<>>, <<[kind |-> "row",   at |-> Ancient, correct |-> TRUE],
           [kind |-> "blank", at |-> Ancient, correct |-> FALSE]>>}
=============================================================================
