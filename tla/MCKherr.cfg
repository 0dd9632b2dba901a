CONSTANTS
  poster = poster
  worker = worker
  Threads = {poster, worker}
  May <- MayCall
  Ctxs = {c1, c2, c3}
  MaxStack <- Depth
  Severities = {1}
  MaxEvents = 1
  MaxMessages = 1
  Deviations = {}
  NoCtx = NoCtx
SPECIFICATION Spec
SYMMETRY Symmetry
INVARIANTS RefcountExact EndsOnce CommitsOnce
