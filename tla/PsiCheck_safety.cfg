SPECIFICATION Spec
CONSTANTS
  Cells = 6
  HeaderCells = 2
  MaxLength = 5
  Lengths = {1, 3, 7}
  Period = 3
  MaxSections = 3
  MaxFaults = 3
CHECK_DEADLOCK FALSE
INVARIANTS
  NoFalseCrcError
  UndisturbedReceived
