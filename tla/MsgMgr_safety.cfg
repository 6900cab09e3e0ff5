SPECIFICATION FairMsgSpec
CONSTANTS
  run = run
  reload = reload
  Poster <- MCPoster
  MaxPosts = 3
INVARIANTS
  DeliveredInOrder
  FrontHasMessage
PROPERTIES
  PostedIsDelivered
  DestroyReturns
