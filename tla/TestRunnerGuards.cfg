CONSTANTS
  Limit = 5
  Reserve = 2
  ExitLine = 1
  PipeSize = 2
  MunmapMayFail = FALSE

SPECIFICATION TestSpec

INVARIANTS
  ReservedDuringRequests
