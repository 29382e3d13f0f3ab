SPECIFICATION Spec
CONSTANTS
  Main = main
  Window = {main, w1}
  Tab = {t1, t2}
  NoWindow = NoWindow
  NoTab = NoTab
  MaxIndex = 0
  MaxInFlight = 2
SYMMETRY TabSymmetry
INVARIANTS
  TypeOK
  Consistent
  NeverRevived
PROPERTIES
  StaysListed
CHECK_DEADLOCK FALSE
