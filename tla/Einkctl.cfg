CONSTANTS
  Columns = 6
  Rows = 2
  MaxInput = 10
  MaxPage = 2
  Frames <- MCFrames
  Inputs <- MCInputs
  Displayed <- MCDisplayed
SPECIFICATION EinkctlSpec
INVARIANTS
  EinkctlTypeOK EveryCharacterOnce LinesAreFull ShownOnSuccess LinesReturned
PROPERTIES NoCommandWhileBusy
