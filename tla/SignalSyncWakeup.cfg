SPECIFICATION FairSpec
CONSTANTS
  MaxRuns = 1
  Wrap = 4
PROPERTIES
  SignalResumes
