CONSTANTS
  Addr <- MCAddr
  Port <- MCPort
  Length <- MCLength
  Excluded <- MCExcluded
  MaxFlows = 2
  Packets <- MCPackets
  LocalSets <- MCLocalSets
  Ends <- MCEnds
  MaxSeen = 4
SPECIFICATION Spec
INVARIANTS
  TypeOK
  FlowCountsAreDistinctFlows
  HeldFlowsAreComplete
PROPERTIES
  FlushReportsTheWindow
  RollUpCountsFlowsOnce
  ImplementsAccounts
