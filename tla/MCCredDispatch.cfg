CONSTANTS
    t1 = t1
    t2 = t2
    Types <- Types_MC
    DepsOf <- DepsOf_MC
    Derives <- Derives_MC
    Kinds = {"dialog", "renew"}
    Messages = {m1, m2, m3}
    MaxStarts = 2
    MaxChildren = 1
    Deviations = {}
    None = None
SPECIFICATION Spec
INVARIANTS OneBatch AbortReaches DependenciesHold DestroyedIdle ExitNotDuringOperation
PROPERTIES Concludes
CHECK_DEADLOCK FALSE
