CONSTANTS
  Contents = {"empty", "short", "full", "over"}
  Size <- Sizes
  Original <- Originals
  FileLimit = 2
  TextBytes <- TextLengths
  Caps = {1, 2}
  Pids = {"p1", "p2"}
  Limit = 5
  Reserve = 2
  ExitLine = 1
  PipeSize = 2
  MunmapMayFail = TRUE

SPECIFICATION ToolsFairSpec

INVARIANTS
  FilesWhole
  RepliesTrue
  TestTypeOK
  NoSurvivors
  LentWhileRunning

PROPERTIES
  TruthfulSuccess
  EveryCallReturns
