CONSTANTS
  a = a
  b = b
  c = c
  compl = compl
  Threads = {a, b, compl}
  Compl = compl
  Msgs = {m1}
  Subs <- OneCallback
  HasHandler = FALSE
  Calls <- SendingSubs
  MaxDepth = 1
  MaxCalls = 1
  NoThread = NoThread
  NoMsg = NoMsg
SPECIFICATION Spec
INVARIANTS NoLockLeak
CHECK_DEADLOCK FALSE
