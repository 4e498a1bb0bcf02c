SPECIFICATION Spec
CONSTANTS
  Rows = 5
  Inner = 2
  Cols = 3
  NumThreads = 3
  A <- MCA
  B <- MCB
  Dot <- MCDot
INVARIANTS
  RangesDisjoint
  ProductCorrect
