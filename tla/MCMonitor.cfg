CONSTANTS
  Second = 1
  Interval = 1
  Packets <- MCPackets
  LocalSets <- MCLocalSets
  CaptureFaults = {"read"}
  EventCap = 1
  Period = 3
  StartUtc = 7
  MaxTime = 3
  MaxPackets = 2
  MaxSkips = 0
  Addr <- MCAddr
  Port <- MCPort
  Length <- MCLength
  Excluded <- MCExcluded
  MaxFlows = 2
  OutputCap = 1
  WriterFaults = {"lookup", "detail", "ip"}
SPECIFICATION Spec
INVARIANTS
  LogsFollowTheTraffic
  ExitTellsTheTruth
PROPERTIES
  StopEndsTheRun
  WorkerFailureEndsTheRun
