SPECIFICATION Spec
CONSTANTS
  Clients = {c1, c2}
  None = None
  Fds = {1, 2}
  MaxMsgs = 1
  Lengths = {2}
  MaxErrors = 0
  Setups <- MCRace
INVARIANTS
  ServesOwn
