SPECIFICATION FairSpec
CONSTANTS
  MaxFaults = 2
  MaxEdits = 1
INVARIANTS
  OnlyVerifiedSources
  CompleteUnlessTorn
  ToolsWhole
PROPERTIES
  EventuallyBuilt
