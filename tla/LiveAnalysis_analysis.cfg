SPECIFICATION Spec
CONSTANTS
  PcrPid <- MCPcrPid
  RingCapacity = 1
  RecordCapacity = 1
  PROBE_BUF_SIZE = 2
  CB_INTERVAL = 1
  PMT_TIMEOUT = 1
  Delays <- MCDelays
  MaxItems = 3
  MaxTime = 3
  MaxSessions = 1
INVARIANTS
  ReportedOnce
  RecordedWithoutGap
