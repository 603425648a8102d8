SPECIFICATION Spec
INVARIANTS
  ArgumentsArrive
  SegmentsRight
PROPERTIES
  ResumesExactly
  ReturnsToCaller
