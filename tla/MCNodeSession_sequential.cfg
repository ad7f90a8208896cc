\* Sessions do not overlap; a stale scan; an instance the database never had.
CONSTANTS
  Conn = {c1, c2}
  Instance = {i1, i2}
  NoConn = NoConn
  NoInst = NoInst
  Foreign = {i2}
  Overlap = FALSE
  MaxScans = 1
  MaxRestarts = 0
  MaxCommands = 0
SPECIFICATION Spec
PROPERTIES
  LifecycleSpec
INVARIANTS
  LiveRowsAccounted
  SignalledIsSettled
