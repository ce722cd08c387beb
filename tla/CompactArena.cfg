CONSTANTS
  ChunkBytes = 4
  Lengths = {2, 3, 5}
  Alignments = {1, 2}
  Origins = {0, 1}
  MaxNodes = 2

SPECIFICATION Spec

INVARIANTS
  LiveApart

PROPERTIES
  MovesApart
  NodesServe
