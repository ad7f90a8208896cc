\* Overlapping sessions under fairness.
CONSTANTS
  Conn = {c1, c2}
  Instance = {i1}
  NoConn = NoConn
  NoInst = NoInst
  Foreign = {}
  Overlap = TRUE
  MaxScans = 0
  MaxRestarts = 0
  MaxCommands = 0
SPECIFICATION FairSpec
PROPERTIES
  LockGranted
