CONSTANTS
  Boards = {b1, b2}
  Passwords = {p1, p2}
  MaxTyped = 3
  NoFile = NoFile
  TornFile = TornFile
  NoBoard = NoBoard

SPECIFICATION AccessSpec
SYMMETRY Symmetry

INVARIANTS
  Recoverable
