CONSTANTS
  Requests = {r1, r2}
  Objects <- Records
  Files = {1, 2}
  MaxLines <- LinesPerFile
  Cuts <- WhereCut
  BadLines <- TheBadLine
  MaxBody = 3
  MaxFaults = 1
  Slots = 2
  MaxRefusals = 2
  ChunkLines = 2
CHECK_DEADLOCK FALSE
SPECIFICATION Spec
INVARIANTS
  ReadLinesAreKept
  CopiesAreRetries
  ReplayedInOrder
PROPERTIES
  Delivers
  LinesArrive
