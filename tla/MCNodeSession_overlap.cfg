\* The node reconnects before its old session is over; one stale scan.
CONSTANTS
  Conn = {c1, c2}
  Instance = {i1}
  NoConn = NoConn
  NoInst = NoInst
  Foreign = {}
  Overlap = TRUE
  MaxScans = 1
  MaxRestarts = 0
  MaxCommands = 0
SPECIFICATION Spec
SYMMETRY Symmetry
INVARIANTS
  RegistrationExclusive
  FinishedIsReal
  TypeOK
  RowBeforeCommand
