SPECIFICATION FairSpec
CONSTANTS
  c1 = c1
  c2 = c2
  Conn = {c1, c2}
  HostOf <- SameHost
  Prompts <- OneMayReplace
  Key = {"k1", "k2"}
  FirstKnown <- Files
  MaxWriteFailures = 1
  Talker = c1
  QueueCapacity = 1
  NoticeInterval = 2
  MaxChunks = 3
  Writer = {w1}
  Caller = {d1}
INVARIANTS
  TrustNeedsConsent
  OutputAccounted
PROPERTIES
  SavedKeysStay
  Settles
CHECK_DEADLOCK FALSE
