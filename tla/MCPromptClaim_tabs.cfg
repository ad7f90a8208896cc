\* One question, two clicks, one lost socket, a reconnecting tab.
CONSTANTS
  left = left
  right = right
  l1 = l1
  l2 = l2
  r1 = r1
  NoConn = NoConn
  Tab <- TwoTabs
  Conn <- Sockets
  Owner <- Owners
  Questions = 1
  QueueSize = 4
  Clicks = 2
  Losses = 1
SPECIFICATION Spec
CHECK_DEADLOCK FALSE
INVARIANTS
  TypeOK
  ClaimHeldByLive
  MineIsHeld
  OneAnswerPerClaim
  AnsweredIsTold
SYMMETRY SameOwner
