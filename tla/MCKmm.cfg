CONSTANTS
  m1 = m1  m2 = m2  m3 = m3
  a = a  b = b  c = c  e = e
  Modules = {m1, m2, m3}
  Plugins = {a, b, c, e}
  Order <- MCOrder
  Provides <- MCProvides
  Deps <- MCDeps
  Outcomes <- MCOutcomes
  MayFail = {e}
  Disabled = {}
  EarlyExit = FALSE
  Registrar = Registrar
  Main = Main
  None = None
SPECIFICATION FairSpec
INVARIANTS StartsAfterDepends
PROPERTIES DoneAfterAll StartupBegins ExitCompletes
CHECK_DEADLOCK FALSE
