CONSTANTS
  a = a
  b = b
  c = c
  compl = compl
  Threads = {a, b, compl}
  Compl = compl
  Msgs = {m1, m2}
  Subs <- OwnWindowOnly
  HasHandler = FALSE
  Calls <- Sending
  MaxDepth = 2
  MaxCalls = 1
  NoThread = NoThread
  NoMsg = NoMsg
SPECIFICATION Spec
INVARIANTS CurrentMessage
CHECK_DEADLOCK FALSE
