SPECIFICATION Spec
CONSTANTS
  Pid <- MCPid
  NullPid = 8191
  CC = 4
  Word = 16
  MaxLost = 5
INVARIANTS
  LossReported
  NoFalseError
