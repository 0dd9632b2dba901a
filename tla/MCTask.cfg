CONSTANTS
  Holders = {creator, other, third}
  Creator = creator
  HasParent = TRUE
  MaxHolds = 2
SPECIFICATION FairSpec
INVARIANTS FreedAtLast
PROPERTIES AbortStops
CHECK_DEADLOCK FALSE
