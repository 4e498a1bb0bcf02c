SPECIFICATION AllocSpec
CONSTANTS
  Objects = {o1, o2, o3}
  Meta = 2
  MaxSize = 3
  MaxBreak = 11
SYMMETRY Symmetry
INVARIANTS
  Intact
  Tiled
  BlocksOwned
