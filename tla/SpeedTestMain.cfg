SPECIFICATION MainFairSpec
CONSTANTS
  HdrLen = 3
  BodyLen = 3
  EndLen = 2
  BufSize = 4
  Contents <- MCContents
  NearestNum = 3
  MaxListed = 4
  Distances = {0, 1}
  Latencies = {1, 2}
  MaxDetailed = 1
INVARIANTS
  FileIsBody
  NearestKept
  LatencyEarned
  AutoLeastLatency
PROPERTIES
  Returns
  AnswerCounts
