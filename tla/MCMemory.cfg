SPECIFICATION FairSpec
CONSTANTS
  MemoryMaps <- MCMemoryMaps
  PageSize = 4
  Span = 4
  HeapRange <- MCHeapRange
  StackRange <- MCStackRange
  Programs <- MCPrograms
  AnonStart = 48
  Sizes <- MCSizes
  Pointers <- MCPointers
  Word = 2
  LowerEnd = 200
  UpperStart = 400
  AddressEnd = 480
INVARIANTS
  NoFrameShared
  ExactAccounting
  AnonBlocksBacked
PROPERTIES
  PanicsOnlyForCause
  RequestEnds
CHECK_DEADLOCK FALSE
