CONSTANTS
  MetadataBytes = 32
  MetadataSlots = 2
  SmallMax = 8
  LinearPages = 2
  Sizes <- ArenaSizes
  LibcBlocks = {p}

SPECIFICATION FairSpec

INVARIANTS
  ArenaSafe
  HeapsSeparate

PROPERTIES
  FailsOnlyWithoutRoom
  SearchEnds
  ImplementsRegions
  FreshPagesZero
  StoredPagesKept
