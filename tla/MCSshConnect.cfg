SPECIFICATION FairSpec
CONSTANTS
  a1 = a1
  a2 = a2
  k1 = k1
  k2 = k2
  Attempt = {a1, a2}
  External = {a2}
  Key = {k1, k2}
  NoKey = NoKey
  JumpKey <- CrossJump
  TargetKey <- CrossTarget
  NoPassword = NoPassword
  MaxRounds = 1
  MaxClears = 1
INVARIANTS
  TypeOK
  CancelledNeverRegisters
  CacheIsTrue
PROPERTIES
  EntriesChangeRightly
  AttemptEnds
CHECK_DEADLOCK FALSE
