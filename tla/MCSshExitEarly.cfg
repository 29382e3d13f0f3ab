SPECIFICATION FairSpec
CONSTANTS
  c1 = c1
  c2 = c2
  Conn = {c1}
  HostOf <- SameHost
  Prompts <- OneMayReplace
  Key = {"k1", "k2"}
  FirstKnown <- Files
  MaxWriteFailures = 0
  Talker = c1
  QueueCapacity = 1
  NoticeInterval = 2
  MaxChunks = 1
  Writer = {}
  Caller = {}
PROPERTIES
  ExitFinalizes
CHECK_DEADLOCK FALSE
