SPECIFICATION Spec
CONSTANTS
  m_nTslen = 2
  BUFFER_SIZE <- MCBufferSize
  MaxPackets = 13
INVARIANTS TypeOK NoByteTwice Relocks OffsetIsPosition
