\* One sequence of the tab and one of another client of the same user.
CONSTANTS
  here = here
  elsewhere = elsewhere
  Sequence <- Both
  Here <- OneHere
  Elsewhere <- OneElsewhere
  Owned <- Both
  Pickable = {"quick"}
  Clickable = {"new_project"}
  MaxSteps = 3
  MaxQueue = 2
  MaxFaults = 1
  MaxLag = 1
SPECIFICATION PageSpec
INVARIANTS
  PageTypeOK
  EntryFollows
  StartedAsBuilt
CHECK_DEADLOCK FALSE
