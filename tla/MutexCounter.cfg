SPECIFICATION Spec
CONSTANTS
  NumThreads = 3
  Turns = 2
INVARIANTS
  FinalTotal
PROPERTIES
  SerialSpec
