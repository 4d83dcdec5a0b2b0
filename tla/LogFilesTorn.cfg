CONSTANTS
  MaxWindows = 3
  MaxRotations = 2
  MaxFailures = 2
SPECIFICATION Spec
INVARIANTS
  OnlyTheFinalLineIsPartial
CHECK_DEADLOCK FALSE
