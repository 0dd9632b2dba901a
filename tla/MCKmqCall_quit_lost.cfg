CONSTANTS
  a = a
  b = b
  c = c
  compl = compl
  Threads = {a, b, c, compl}
  Compl = compl
  Msgs = {m1, m2}
  Subs <- NoSubs
  HasHandler = FALSE
  Calls <- SendQuit
  MaxDepth = 1
  MaxCalls = 1
  NoThread = NoThread
  NoMsg = NoMsg
SPECIFICATION FairSpec
PROPERTY SendReturns
CHECK_DEADLOCK FALSE
