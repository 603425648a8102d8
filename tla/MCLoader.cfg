SPECIFICATION Spec
CONSTANTS
  PageSize = 2
  LastPage = 3
  StackPages = {3}
  ImageSize = 4
  Images <- MCImages
  Frames = {2, 6}
INVARIANTS
  LoadedRight
  FailsOnlyForCause
CHECK_DEADLOCK FALSE
