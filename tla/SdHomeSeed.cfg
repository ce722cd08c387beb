CONSTANTS
  Cards = {c1}
  NoCard = NoCard
  Files = {f1}
  MaxWrites = 2
  ForeignHome = TRUE
SPECIFICATION Spec
PROPERTIES SeedNeverOverwrites
