SPECIFICATION FairSpec
CONSTANTS
  MaxProcs = 3
  MaxWork = 2
INVARIANTS
  OneRunning
  ContextIntact
PROPERTIES
  RoundRobin
  EveryReadyRuns
CHECK_DEADLOCK FALSE
