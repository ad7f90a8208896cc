\* Drops, crashes, shutdowns, a restart and a command under fairness.
CONSTANTS
  Conn = {c1, c2}
  Instance = {i1}
  NoConn = NoConn
  NoInst = NoInst
  Foreign = {}
  Overlap = FALSE
  MaxScans = 0
  MaxRestarts = 1
  MaxCommands = 1
SPECIFICATION FairSpec
PROPERTIES
  EndedRowsSettle
INVARIANTS
  ServedIsReachable
  NodeStatusShown
