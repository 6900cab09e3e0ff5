SPECIFICATION DemuxSpec
CONSTANTS
  Programs <- MCOwnPcr
  Stray <- MCStray
  PcrMax = 1000
  WrapWindow = 4
  Tolerance = 2
  PidTimeout = 2
  UnreferTimeout = 3
  PacketTime = 1
  StartPcr = 1
  Jump = 100
  MaxSplices = 1
  MaxPackets = 8
  Stream <- AllKinds
INVARIANTS
  MissingPidReported
  UnreferencedPidsCounted
PROPERTIES
  PidErrorIsTrue
  PatIntervalMeasured
