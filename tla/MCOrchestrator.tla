--------------------------- MODULE MCOrchestrator ---------------------------
(* TLC instance of Orchestrator: three of the five specialists, among them  *)
(* the two that never refute and the only one with a claim of its own; one  *)
(* of the root causes that scripts/seed_memory.py plants.                   *)
EXTENDS Orchestrator

CONSTANTS p1, p2
MCProblems == {p1, p2}

MCReporters  == SpecialistNames
MCRoster     == <<"triage", "topology", "vuln_sec">>
MCSeededKeys == {"db_pool_exhaustion"}
MCHypotheses == CausalKeys \cup {FallbackKey[MCRoster[i]] : i \in DOMAIN MCRoster}

\* The causes, and a key that names none.
MCRejectable == CausalKeys \cup {"triage_unavailable"}

\* Empty and non-empty results where the claim depends on it.
MCRowCounts ==
  [s \in SpecialistNames |->
    CASE s = "triage" -> {6} [] s = "topology" -> {0} [] OTHER -> {0, 1}]

MCKeyOrder ==
  [k \in MCHypotheses |->
    CASE k = "cve_exposure"         -> 1
      [] k = "db_pool_exhaustion"   -> 2
      [] k = "topology_unavailable" -> 3
      [] k = "triage_unavailable"   -> 4
      [] k = "vuln_sec_unavailable" -> 5]

\* The production wiring behind the app.
MCWebhookWirings == {[services |-> "real", onLoop |-> TRUE]}

\* That one, the real services as the tests drive them, and the demo behind
\* the app.
MCWirings == MCWebhookWirings \cup
  {[services |-> "real", onLoop |-> FALSE],
   [services |-> "demo", onLoop |-> TRUE]}

MCTexts ==
  {<<"answer">>,
   <<"tagged fence", "answer">>,
   <<"blank", "tagged fence", "blank", "answer", "blank", "bare fence">>,
   <<"prose", "answer">>,
   <<>>}
=============================================================================
