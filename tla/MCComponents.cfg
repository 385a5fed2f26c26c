SPECIFICATION Spec
CONSTANTS
  MaxPushes = 3
  NoData = NoData
  GuardThreads = {t1, t2, t3}
  LowIds = {x, y}
  NoOwner = NoOwner
  MaxVisits = 2
  W32 = 2
  W64 = 4
  GroupBits = 2
  Null = Null
  NumCalls = 2
  QueryIndex <- SameIndex
  CallDatas = {c1, c2, c3}
  NoCallData = NoCallData
  Clients = {k1, k2}
  TheServer = server
  GetType <- Types
  ConfigFiles <- Files
  BadLibrary <- LibraryThatFails
  NoFile = NoFile
  PoolWorkers = {w1, w2}
  MainThread = main
  Timers = {a, b}
  QueueBound = 2
  Writers = {o1, o2}
  MaxWrites = 3
  RpcThreads = {r1, r2}
  TableNames = {1, 2, 3, 4}
  Radix = 2
  DigitZero = 1
  ByteSize = 4
  LongSize = 3
  MaxStarts = 4
  MaxRpcs = 4
  NotThere = NotThere
CHECK_DEADLOCK FALSE
INVARIANTS PortSound EntriesCounted AsyncCallsSound TraceNested PoolAwake OutboxSound TablesRecorded
PROPERTIES GuardReturns ClientReturns TimersRun
