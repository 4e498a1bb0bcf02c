SPECIFICATION FairSpec
CONSTANTS
  Clients = {c1, c2}
  None = None
  Fds = {1, 2}
  MaxMsgs = 2
  Lengths = {0, 2}
  MaxErrors = 1
  Setups <- MCSetups
INVARIANTS
  OwnClient
  ServerStays
  StreamKept
  NoLeak
PROPERTIES
  Answered
  ServiceSpec
