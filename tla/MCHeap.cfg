SPECIFICATION Spec
CONSTANTS
  HEAP_START = 26
  HEAP_SIZE = 22
  NodeSize = 4
  NodeAlign = 2
  Modulus = 64
  Layouts <- MCLayouts
INVARIANTS
  TypeOK
  NoOverlap
  AssertionsHold
PROPERTIES
  LostOnlyToAlignment
  FreedIsReusable
  ImplementsHeapAbs
CHECK_DEADLOCK FALSE
