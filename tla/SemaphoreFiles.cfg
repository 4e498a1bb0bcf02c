SPECIFICATION FairSpec
CONSTANTS
  NumThreads = 3
  Turns = 2
INVARIANTS
  OneFileConsecutive
PROPERTIES
  Termination
