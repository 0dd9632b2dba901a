CONSTANTS
  s0 = s0  s1 = s1  s2 = s2  s3 = s3  s4 = s4  n1 = n1  t1 = t1  t2 = t2
  Threads = {t1, t2}
  Spaces = {s0, s1, s2, s3}
  Root = s0
  Names = {n1}
  MaxDepth = 2
  Schema <- SchemaPath
  Views <- Flags
  May <- MayCall
  MaxHandles <- Handles
  MaxSchemas = 1
  NoSpace = NoSpace
SPECIFICATION Spec
SYMMETRY Symmetry
INVARIANTS RefcountExact NoDangling FreedWhenForgotten
CHECK_DEADLOCK FALSE
