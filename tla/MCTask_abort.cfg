CONSTANTS
  Holders = {creator}
  Creator = creator
  HasParent = FALSE
  MaxHolds = 1
SPECIFICATION Spec
INVARIANT FreedExited
CHECK_DEADLOCK FALSE
