SPECIFICATION FairSpec
CONSTANTS
  PipeCapacity = 2
  Formats = {"Rgb", "other"}
INVARIANTS
  StuckOnlyKnownWays
  HandlerLocksMasked
  TimerStopsOnlyAfterLapicError
PROPERTIES
  WriteReturns
  PanicStops
CHECK_DEADLOCK FALSE
