SPECIFICATION FairSpec
CONSTANTS
  Readers = {r1, r2}
  Capacity = 2
  Sizes = {1, 2}
  MaxTyped = 5
INVARIANTS
  StopsOnlyWhenFull
PROPERTIES
  ImplementsFifo
  BytesArrive
CHECK_DEADLOCK FALSE
