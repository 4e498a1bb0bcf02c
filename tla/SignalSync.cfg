SPECIFICATION FairSpec
CONSTANTS
  MaxRuns = 2
  Wrap = 4
INVARIANTS
  TurnExclusive
  OrphanBound
PROPERTIES
  Numbered
  Progress
