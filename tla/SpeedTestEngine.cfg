SPECIFICATION Spec
CONSTANTS
  ThreadNum = 2
  ThreadLimit = 3
  Chunks = 2
  PollTicks = 1
  SettleTicks = 2
INVARIANTS
  SlotOwned
  TotalsExact
  RequestOfPhase
  StatsSerial
  OvershootBounded
PROPERTIES
  MeterSpec
