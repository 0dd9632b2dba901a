CONSTANTS
  Posters = {owner, p1}
  Owner = owner
  Refs = {r1, r2}
  NoRef = NoRef
  Msgs = {m1, m2, exit}
  Exit = exit
  NoMsg = NoMsg
SPECIFICATION Spec
PROPERTY PurgesAll
CHECK_DEADLOCK FALSE
