SPECIFICATION Spec
CONSTANTS
  h1 = h1
  h2 = h2
  h3 = h3
  Holders = {h1, h2, h3}
  Drainer = Drainer
  Parkers <- MCParkers
  InitLimit = 2
  Ceiling = 3
SYMMETRY Symmetry
INVARIANTS
  Conservation
  NoTokenDropped
