\* Two takes, two dispatches, one session to resume; faults.
CONSTANTS
  MaxTakes = 2
  Limit = 2
  MaxPosts = 2
  Session <- OneSession
  Faults = TRUE
SPECIFICATION FairSpec
CHECK_DEADLOCK FALSE
INVARIANTS
  TypeOK
  MicShown
PROPERTIES
  TakeLands
