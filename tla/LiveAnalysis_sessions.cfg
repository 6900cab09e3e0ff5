SPECIFICATION FairSpec
CONSTANTS
  PcrPid <- MCPcrPid
  RingCapacity = 1
  RecordCapacity = 1
  PROBE_BUF_SIZE = 2
  CB_INTERVAL = 1
  PMT_TIMEOUT = 1
  Delays <- MCDelays
  MaxItems = 2
  MaxTime = 1
  MaxSessions = 2
INVARIANTS
  CleanupQuiesces
  RecordedInOrder
PROPERTIES
  CallsReturn
