CONSTANTS
  p1 = p1
  p2 = p2
  Problems <- MCProblems
  Reporters <- MCReporters
  Roster <- MCRoster
  RowCounts <- MCRowCounts
  Wirings <- MCWirings
  SeededKeys <- MCSeededKeys
  DemoProblem = p2
  Texts <- MCTexts
  Rejectable <- MCRejectable
  MaxRuns = 2
  Hypotheses <- MCHypotheses
  KeyOrder <- MCKeyOrder
  MinSupportingConfidence = 30
  MaxHypotheses = 5
SPECIFICATION OrchestratorSpec
INVARIANT MemoryIsASpeedUp
