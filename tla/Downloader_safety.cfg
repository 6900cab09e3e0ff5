SPECIFICATION AnsweringSpec
CONSTANTS
  Window = 2
  MaxSegments = 4
  Endings <- MCAny
INVARIANTS
  SegmentsInOrder
  NoSegmentLost
PROPERTIES
  StopReturns
  VodFinishes
  QueuedSegmentHandled
