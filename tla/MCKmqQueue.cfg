CONSTANTS
  Posters = {owner, p1, p2}
  Owner = owner
  Refs = {r1, r2, r3}
  NoRef = NoRef
  Msgs = {m1, m2, exit}
  Exit = exit
  NoMsg = NoMsg
SPECIFICATION FairSpec
INVARIANTS NoLostWakeup IInv
PROPERTIES Delivered
CHECK_DEADLOCK FALSE
