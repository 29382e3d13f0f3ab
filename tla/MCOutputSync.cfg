SPECIFICATION FairSpec
CONSTANTS
  Chunk = {2}
  Limits = {1, 3}
  RestoreMaxChars = 3
  Channel = {data, error}
  ErrorChannel = error
  DrainLimit = 2
  MaxEvents = 4
  MaxFailures = 2
INVARIANTS
  TypeOK
  NoLostWakeup
PROPERTIES
  RefinesStream
  SilentAfterDispose
  CatchesUp
  Released
CHECK_DEADLOCK FALSE
