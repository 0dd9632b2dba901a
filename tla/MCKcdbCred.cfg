CONSTANTS
  ui = ui
  plugin = plugin
  root = root
  own = own
  ctx = ctx
  k1 = k1
  k2 = k2
  Threads = {ui, plugin}
  Creds = {c1, c2, c3, c4, c5}
  Keys = {k1, k2}
  Attributes = {"expire", "renew"}
  Transient = {"renew"}
  AttrValues = {1}
  Sets = {root, own, ctx}
  Root = root
  Address <- RootFirst
  Programs <- ViewsAndMerges
  MaxHeld = 1
  Deviations = {}
  NoThread = NoThread
  NoCred = NoCred
SPECIFICATION Spec
SYMMETRY Symmetry
INVARIANTS RefcountExact FreedWithLast CollectMirrors
