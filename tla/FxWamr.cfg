CONSTANTS
  Modules = {m1, m2}
  NoModule = NoModule
  Torn = Torn
  MaxStreams = 2
  MaxBytes = 2
  HeapBuffers = {h1, h2, h3}
  Tags = {r1, r2}
  Longest = 3
  Fixed = Fixed
  Guest = Guest
  Null = Null

SPECIFICATION FxWamrSpec
SYMMETRY Symmetric

INVARIANTS
  TypeOK
  Supported
  LeavesNothing
  RunsWhatWasLoaded
  BuffersAccounted
  ReadsOwnResponse

PROPERTIES
  NeverTruncated
