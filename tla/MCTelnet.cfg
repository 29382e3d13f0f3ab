SPECIFICATION SessionSpec
CONSTANTS
  c1 = c1
  c2 = c2
  r1 = r1
  r2 = r2
  Caller = {c1, c2}
  Resizer = {r1, r2}
  QueueLimit = 1
  MaxReads = 2
  MaxInputs = 1
  MaxSubnegotiation = 2
  PeerLimit = 5
  DataByte = {65, 255}
  OptionByte = {31, 255}
  InnerByte = {1, 24, 31, 255}
  Text <- Texts1
  Size <- Sizes1
  Untold = Untold
  MaxRead = 2
  MaxMessages = 1
INVARIANTS
  SizeInOrder
  ReturnedMeansFinal
  CodecIsTransparent
PROPERTIES
  CommandsEnd
CHECK_DEADLOCK FALSE
