SPECIFICATION Spec
CONSTANTS
  Clients = {p1, p2}
  NoClient = NoClient
  MaxStarts = 2
  MaxUpsets = 1
  Chars <- MCChars
  Pieces <- MCPieces
  Marker <- MCMarker
  Retained = 3
  MaxChars = 2
  MaxTotal = 4
  MaxText = 5
  Windows = {w1, w2}
  Callers = {c1, c2}
  NoWindow = NoWindow
  AnyWindow = AnyWindow
  Kinds <- MCKinds
  MaxMoves = 1
CONSTRAINT OfOneSort
SYMMETRY Symmetry
INVARIANTS
  FollowAccounts
  WaiterAwake
PROPERTIES
  OneLaunch
  ResultsHold
\* A client that has its answer asks for nothing more.
CHECK_DEADLOCK FALSE
