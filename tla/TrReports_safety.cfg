SPECIFICATION Spec
CONSTANTS
  Muxes <- MCMuxes
  PcrMax = 60
  WrapWindow = 10
  Tolerance = 1
  Lower = 2
  m_PsiTimeOut <- MCPsiTimeOut
  PcrRepetition = 3
  PcrDiscontinuity = 6
  MAX_MSG_SAVE_CNT = 4
  MAX_MSG_CNT = 2
  MaxJumps = 1
CHECK_DEADLOCK FALSE
INVARIANTS
  TypeOK
  IntervalErrorsAreTrue
  PFErrorsAreTrue
  BriefAddsUp
  ReplayMatchesCount
