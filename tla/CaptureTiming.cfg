CONSTANTS
  Second = 2
  Interval = 2
  Packets = {p1}
  LocalSets = {l1}
  CaptureFaults = {"addresses", "drops", "read"}
  EventCap = 1
  Period = 5
  StartUtc = 13
  MaxTime = 11
  MaxPackets = 2
  MaxSkips = 1
SPECIFICATION Spec
INVARIANTS
  TypeOK
  PacketsKeepTheirWindow
  NoUncountedLoss
PROPERTIES
  LabelsAlignedAndIncreasing
  StopEndsCapture
