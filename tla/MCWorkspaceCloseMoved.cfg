SPECIFICATION Spec
CONSTANTS
  Main = main
  Window = {main, w1}
  Tab = {t1}
  NoWindow = NoWindow
  NoTab = NoTab
  MaxIndex = 0
  MaxInFlight = 2
INVARIANTS
  KnownTabs
CHECK_DEADLOCK FALSE
