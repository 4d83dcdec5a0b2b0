CONSTANTS
  Second = 2
  Interval = 2
  Packets = {p1}
  LocalSets = {l1}
  CaptureFaults = {"addresses", "drops", "read"}
  EventCap = 1
  Period = 5
  StartUtc = 13
  MaxTime = 12
  MaxPackets = 3
  MaxSkips = 1
SPECIFICATION PromptSpec
PROPERTIES
  ReadWithinAWindowOfItsLabel
