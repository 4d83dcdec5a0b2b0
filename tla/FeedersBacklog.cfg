CONSTANTS
  Requests = {r1, r2}
  Objects <- Records
  Files = {1, 2}
  MaxLines <- LinesPerFile
  Cuts = {}
  BadLines = {}
  MaxBody = 1
  MaxFaults = 0
  Slots = 1
  MaxRefusals = 2
  ChunkLines = 2
CHECK_DEADLOCK FALSE
SPECIFICATION Spec
PROPERTY ExistingLinesAreForwarded
