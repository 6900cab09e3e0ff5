SPECIFICATION FairSpec
CONSTANTS
  Window = 1
  realtime_mode = TRUE
  continue_mode = TRUE
  MaxSegments = 5
  Starts <- MCStarts
  MaxFailures = 1
INVARIANTS
  RecordedAsDownloaded
  ListedNotRemoved
  NoThreadOnDelete
PROPERTIES
  CleanupReturns
  VodRecorded
