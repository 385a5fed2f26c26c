CONSTANTS
  Workers = {w1, w2}
  Drivers = {d1, d2}
  Warehouses = {1, 2}
  Percent <- MCPercent
  NumTasks = 3
  QueueSize = 1
  CommitMayFail = TRUE
  Txns = {t1, t2, t3}
  WarehouseIds = {1}
  Districts = {1, 2}
  Customers = {1}
  HAmount = 3
  Loaded = 25
  NullValue = 0
  FloatOf <- MCFloatOf
  SixDigits <- MCSixDigits
  IntOf <- MCIntOf
SPECIFICATION AllSpec
INVARIANTS
  DriversSound
  SummaryCorrect
  OrdersSound
  AccountsBalanced
PROPERTIES
  MainReturns
CHECK_DEADLOCK FALSE
