CONSTANTS
  a = a
  b = b
  c = c
  compl = compl
  Threads = {a, b, compl}
  Compl = compl
  Msgs = {m1, m2, m3}
  Subs <- CallbackAndWindow
  HasHandler = TRUE
  Calls <- Posting
  MaxDepth = 2
  MaxCalls = 1
  NoThread = NoThread
  NoMsg = NoMsg
SPECIFICATION Spec
SYMMETRY Symmetry
INVARIANTS RefcountExact NoDangling QuitSeen
CHECK_DEADLOCK FALSE
