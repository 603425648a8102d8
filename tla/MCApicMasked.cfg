SPECIFICATION Spec
CONSTANTS
  Models <- MCModels
  Ids = {0, 1}
  PitPeriod = 3
  CounterMax = 5
  MaxTicks = 9
INVARIANTS
  AllMasked
CHECK_DEADLOCK FALSE
