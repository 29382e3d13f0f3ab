SPECIFICATION HistorySpec
CONSTANTS
  w1 = w1
  w2 = w2
  home = home
  jump = jump
  Missing = Missing
  Absent = Absent
  Window = {w1, w2}
  Setting <- Settings4
  Shortcut <- Shortcuts2
  Values <- ValuesOf
  Default <- Defaults
  Canonical <- CanonicalOf
  Unassigned = "none"
  Unusable = {"bare"}
  Name = {home, jump}
  Data = {"d1", "d2"}
  FirstFiles <- Files
  MaxCommands = 4
  MaxFailures = 1
  Switch = "history"
  On = "on"
  Kind = {"ssh", "telnet"}
  Input <- Inputs
  NoInput = NoInput
  MaxEntries = 2
INVARIANTS
  HistoryIsRecent
  AlwaysLoadable
PROPERTIES
  EditsMerge
  ProfilesSurvive
CHECK_DEADLOCK FALSE
