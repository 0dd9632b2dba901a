CONSTANTS
  Threads = {t1, t2, t3}
  NoThread = NoThread
  MaxNest = 2
SPECIFICATION FairSpec
INVARIANTS Exclusion NoLostWakeup
PROPERTIES WaitersServed
