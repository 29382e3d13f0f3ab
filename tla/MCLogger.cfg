SPECIFICATION Spec
CONSTANTS
  s1 = s1
  s2 = s2
  o1 = o1
  o2 = o2
  f1 = f1
  f2 = f2
  Session = {s1, s2}
  File = {f1, f2}
  Op = {o1, o2}
  NoFile = NoFile
  NoSession = NoSession
  LineEnd = {1}
  MaxChars = 3
  MaxOutput = 3
  MaxRows = 2
  MaxFailures = 1
CONSTRAINT Bounded
SYMMETRY Symmetry
INVARIANTS
  LogsIntact
  MetadataAgrees
CHECK_DEADLOCK FALSE
