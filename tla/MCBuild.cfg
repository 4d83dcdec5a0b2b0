CONSTANTS
  Updaters = {timer, operator}
  Sources = {"feodo_recommended", "firehol_level1"}
  MaxBuilds = 5
  LastAddress = 7
  Reserved = {0}
  Evidence = {"feodo", "firehol"}
  Rows <- SomeRows
SPECIFICATION BuildSpec
INVARIANTS
  PreviousIsThePriorBuild
  APairFits
  MergeIsExact
PROPERTIES
  NewerBuildsStay
  LockIsReleased
CHECK_DEADLOCK FALSE
