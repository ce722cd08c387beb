CONSTANTS
  Cards = {c1, c2}
  NoCard = NoCard
  Files = {f1, f2}
  MaxWrites = 4
  ForeignHome = FALSE
SPECIFICATION Spec
INVARIANTS NothingLost
PROPERTIES MarkedWhenWhole
