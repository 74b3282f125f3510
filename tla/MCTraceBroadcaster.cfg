CONSTANTS
  p1 = p1
  p2 = p2
  p3 = p3
  s1 = s1
  s2 = s2
  Problems <- MCProblems
  Subscribers <- MCSubscribers
  TopicOf <- MCTopicOf
  Kinds = {"orchestrator-started", "brief-ready"}
  TerminalKinds = {"brief-ready"}
  BufferSize = 2
  MaxProblems = 2
  MaxEvents = 4
  MaxCloses = 1
SPECIFICATION Spec
INVARIANTS
  TypeOK
  InOrderOnce
  LiveGapFree
  RingIsLatest
  TrackedByRecency
  NoZombieQueues
PROPERTY
  ImplementsEventFeed
SYMMETRY MCSymmetry
CHECK_DEADLOCK FALSE
