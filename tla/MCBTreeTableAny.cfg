CONSTANTS
  Keys = {0, 1, 2, 3, 4, 5, 6, 7}
  CellsCapacity = 3
  MaxCells = 3
  MaxPages = 5
  MaxFailures = 1
  Orders = {FALSE}
SPECIFICATION TableSpec
INVARIANTS
  SeparatorIsMaxKey
CHECK_DEADLOCK FALSE
