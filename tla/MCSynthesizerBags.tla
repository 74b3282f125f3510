------------------------- MODULE MCSynthesizerBags --------------------------
(* TLC instance of SynthesizerBags: three hypotheses under a cap of two, a  *)
(* trusted and a default-trust specialist, confidences on both sides of the *)
(* floor.                                                                   *)
EXTENDS SynthesizerBags

MCHypotheses == {"cve_exposure", "db_pool_exhaustion", "network"}
MCKeyOrder ==
  [k \in MCHypotheses |->
    CASE k = "cve_exposure" -> 1 [] k = "db_pool_exhaustion" -> 2 [] OTHER -> 3]

MCObservations ==
  [specialist : {"triage"}, stance : {"supports"}, key : MCHypotheses,
   confidence : {29, 30, 90}]
  \cup
  [specialist : {"plug_in"}, stance : {"supports"}, key : MCHypotheses,
   confidence : {90}]
  \cup
  [specialist : {"triage"}, stance : {"refutes", "informational"},
   key : MCHypotheses, confidence : {90}]
=============================================================================
