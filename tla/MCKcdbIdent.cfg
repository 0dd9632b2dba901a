CONSTANTS
    ui = ui
    plugin = plugin
    Threads <- Threads_MC
    Provider = plugin
    Ids = {i1, i2}
    Names = {n1, n2}
    Configured = {}
    Bare = {n2}
    CallsOf <- CallsOf_MC
    MaxCalls <- MaxCalls_MC
    Deviations = {}
    NoId = NoId
    NoThread = NoThread
SPECIFICATION Spec
INVARIANTS RefcountExact NoDangling StaleIsMarked DefaultAgrees
PROPERTIES Returns
CHECK_DEADLOCK FALSE
