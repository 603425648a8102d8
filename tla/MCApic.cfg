SPECIFICATION FairSpec
CONSTANTS
  Models <- MCModels
  Ids = {0, 1}
  PitPeriod = 3
  CounterMax = 5
  MaxTicks = 9
INVARIANTS
  TimerCalibrated
  OnlyLastTwoOpen
  KeyboardToCpuZero
PROPERTIES
  SetupEnds
CHECK_DEADLOCK FALSE
