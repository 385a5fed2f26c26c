CONSTANTS
  Keys = {0, 1, 2, 3, 4, 5, 6}
  CellsCapacity = 2
  MaxCells = 3
  MaxPages = 7
  MaxFailures = 1
  Orders = {TRUE, FALSE}
SPECIFICATION TableSpec
INVARIANTS
  AscendingSound
  RowsKept
CHECK_DEADLOCK FALSE
