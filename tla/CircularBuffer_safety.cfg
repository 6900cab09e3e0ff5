SPECIFICATION FairSpec
CONSTANTS
  a = a
  b = b
  NoItem = NoItem
  Item <- MCItem
  m_size = 4
INVARIANTS
  NoSharedSlot
  ReturnedItemIntact
PROPERTIES
  ImplementsFifo
  AcceptedItemIsRead
