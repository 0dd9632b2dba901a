CONSTANTS
  a = a
  b = b
  c = c
  compl = compl
  Threads = {a, b, compl}
  Compl = compl
  Msgs = {m1, m2}
  Subs <- WindowAndCallbacks
  HasHandler = TRUE
  Calls <- SendingAndKeeping
  MaxDepth = 2
  MaxCalls = 1
  NoThread = NoThread
  NoMsg = NoMsg
SPECIFICATION FairSpec
INVARIANTS CountsExact SendReturnsDone CurrentHandled
PROPERTIES ImplementsLife SendReturns
CHECK_DEADLOCK FALSE
