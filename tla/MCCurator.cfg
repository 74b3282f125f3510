CONSTANTS
  seed1 = seed1
  seed2 = seed2
  i1 = i1
  i2 = i2
  r1 = r1
  r2 = r2
  Incidents <- MCIncidents
  SeedCause <- MCSeedCause
  Causes = {"db_pool_exhaustion", "cve_exposure"}
  MaxTime = 1
  MaxVerdicts = 2
  Processes <- MCProcesses
  ServiceOf <- MCServiceOf
  KeyOrder <- MCKeyOrder
  MinClusterSize = 2
  MaxBatches = 3
SPECIFICATION CuratorSpec
INVARIANTS
  ReportedRunsCoverTheirWindow
  PatternsArePaidOnce
PROPERTY
  VerdictsStand
SYMMETRY MCSymmetry
CHECK_DEADLOCK FALSE
