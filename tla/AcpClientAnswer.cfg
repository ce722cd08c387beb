CONSTANTS
  MaxResponse = 2
  MaxMessages = 3
  PipeSize = 2
  MaxPolls = 1

SPECIFICATION Spec

INVARIANTS
  RendersWholeAnswer
