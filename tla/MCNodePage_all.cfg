SPECIFICATION Spec
CONSTANTS
  MaxPosts = 2
  MaxEvents = 2
  Streaming = {1}
  MaxSelects = 1
  MaxLag = 2
  MaxFaults = 1
INVARIANTS
  TypeOK
  StatusCatchesUp
  AwaitingHasReason
  StreamComplete
  PanelShowsRow
CHECK_DEADLOCK FALSE
