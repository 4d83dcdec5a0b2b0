CONSTANTS
  MaxWindows = 3
  MaxRotations = 2
  MaxFailures = 2
SPECIFICATION Spec
INVARIANTS
  AckedWindowsAreWhole
  RecordsAppearOnce
  DamageIsBounded
  RotatedFilesAreLeftAlone
CHECK_DEADLOCK FALSE
