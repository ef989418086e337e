CONSTANTS
  AnimationCount = 2
  QueueCount = 2
  One = 2
  Ticks <- GameTicks
  Kinds <- GameKinds
SPECIFICATION FairSpec
INVARIANTS TypeOK EndedMeansSent OneAfterTheOther
PROPERTIES ActiveEnds FirstQueueRuns
CHECK_DEADLOCK FALSE
