CONSTANTS
  a = a
  b = b
  c = c
  compl = compl
  Threads = {a, b, compl}
  Compl = compl
  Msgs = {m1}
  Subs <- CallbackAndWindow
  HasHandler = FALSE
  Calls <- SendOnly
  MaxDepth = 2
  MaxCalls = 1
  NoThread = NoThread
  NoMsg = NoMsg
SPECIFICATION Spec
INVARIANTS SendReturnsDone
CHECK_DEADLOCK FALSE
