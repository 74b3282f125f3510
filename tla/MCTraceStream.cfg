CONSTANTS
  p1 = p1
  p2 = p2
  s1 = s1
  s2 = s2
  Problems <- MCProblems
  Subscribers <- MCSubscribers
  TopicOf <- MCTopicOf
  Kinds = {"orchestrator-started", "specialist-completed", "brief-ready"}
  TerminalKinds = {"brief-ready"}
  BufferSize = 6
  MaxProblems = 1
  MaxEvents = 6
  MaxCloses = 6
SPECIFICATION StreamSpec
INVARIANTS
  EndedStreamsSawBrief
  AnsweredRingIsTerminal
PROPERTIES
  EndingStreamsEnd
  LiveViewersAreReleased
CHECK_DEADLOCK FALSE
