\* No faults: two tabs are enough.
SPECIFICATION Spec
CONSTANTS
  t1 = t1
  t2 = t2
  Tab <- TwoTabs
  MaxToken = 3
  Callers <- FirstTab
  Sockets <- FirstTab
  Expiring = {1}
  MaxOrphans = 1
  Faults = FALSE
INVARIANT
  NeverRefused
CHECK_DEADLOCK FALSE
