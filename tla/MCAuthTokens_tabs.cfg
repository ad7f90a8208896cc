SPECIFICATION FairSpec
CONSTANTS
  t1 = t1
  t2 = t2
  Tab <- TwoTabs
  MaxToken = 3
  Callers <- FirstTab
  Sockets <- FirstTab
  Expiring = {1}
  MaxOrphans = 1
  Faults = TRUE
INVARIANTS
  TypeOK
  OneValidPerFamily
  LoneNeverRefused
  StoredIsUsable
  LoneKeepsSocket
PROPERTY
  WaitersResume
CHECK_DEADLOCK FALSE
