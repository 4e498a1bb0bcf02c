SPECIFICATION Spec
CONSTANTS
  MaxRequested = 3
  MaxTokens = 4
  Latencies = {1, 2}
  MaxThreads = 2
  MaxRounds = 2
  Speeds = {0, 1}
  MaxMeasured = 2
INVARIANTS
  ListServed
  FrameOutlivesThreads
  UploadExact
  FastestWorking
