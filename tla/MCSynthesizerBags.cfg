CONSTANTS
  Reporters = {"triage", "plug_in"}
  Hypotheses <- MCHypotheses
  KeyOrder <- MCKeyOrder
  MinSupportingConfidence = 30
  MaxHypotheses = 2
  Observations <- MCObservations
  MaxBag = 4
SPECIFICATION BagSpec
INVARIANTS
  RankingIsTopOfTheOrder
  SupportedComeFirst
PROPERTIES
  StrongerSupportNeverDemotes
CHECK_DEADLOCK FALSE
