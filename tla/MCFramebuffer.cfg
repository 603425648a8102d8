SPECIFICATION Spec
CONSTANTS
  CharWidth = 2
  CharHeight = 3
  MaxY = 24
  Screens <- MCScreens
INVARIANTS
  GlyphsInside
  NeverOverdrawn
PROPERTIES
  ErasesOnlyWhenFull
CHECK_DEADLOCK FALSE
