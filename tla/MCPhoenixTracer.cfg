CONSTANTS
  a = a
  b = b
  Processes <- MCProcesses
  Window = 2
  Buckets = 2
  OldFiles <- MCOldFiles
  MaxTime = 5
  MaxVerdicts = 4
  MaxFailures = 2
SPECIFICATION TracerSpec
INVARIANTS
  FeedbackIsCounted
  TrendAddsUp
  DashboardFailsAfterAWrite
  AckedLossIsBounded
SYMMETRY MCSymmetry
CHECK_DEADLOCK FALSE
